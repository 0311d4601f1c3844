----------------------------- MODULE DeskPager -----------------------------
(***************************************************************************)
(* The two pagers of the staff desk (AdminDashboard.jsx): the audit log    *)
(* with its filters, and the table of listings.                            *)
(*                                                                         *)
(* Both fetch a page when the page they are at changes (useEffect), both   *)
(* leave their buttons enabled while they fetch, and neither cancels a     *)
(* fetch.  They differ in what an answer does: the audit log moves to the  *)
(* page of the answer, which may fetch again; the table only takes its     *)
(* label from it, and its buttons count from the label.                    *)
(*                                                                         *)
(* wanted is what the reader has asked for last.                           *)
(***************************************************************************)
EXTENDS Naturals, Sequences, FiniteSets, SequencesExt

CONSTANTS
    Pagers,         \* of "audit" and "listings"
    TotalPages,     \* pages the server has
    Filters,        \* filters of the audit log
    NoFilter,       \* the empty one
    MaxActs,        \* bound on what the reader does
    Patient,        \* whether the reader waits for the answers
    InOrder         \* whether they come in the order asked

DeskPagerConstants ==
    /\ Pagers \subseteq {"audit", "listings"}
    /\ TotalPages \in Nat \ {0}
    /\ MaxActs \in Nat
    /\ NoFilter \in Filters
    /\ {Patient, InOrder} \subseteq BOOLEAN

VARIABLES
    at,         \* auditPagination.page, listingsPage
    label,      \* the page the pager says: auditPagination.page, listingsPagination.page
    filter,     \* auditFilters
    shown,      \* the page and filter of the rows on the screen
    wanted,     \* the page and filter asked for last
    fetches,    \* fetches under way, oldest first
    acts        \* what the reader has done so far

vars == <<at, label, filter, shown, wanted, fetches, acts>>

Pages == 1 .. TotalPages
Query == [page : Pages, filter : Filters]
First == [page |-> 1, filter |-> NoFilter]
Nothing == [page |-> 0, filter |-> NoFilter]    \* before the first answer

TypeOK ==
    /\ at \in [Pagers -> Pages]
    /\ label \in [Pagers -> Pages]
    /\ filter \in Filters
    /\ shown \in [Pagers -> Query \cup {Nothing}]
    /\ wanted \in [Pagers -> Query]
    /\ \A p \in Pagers : fetches[p] \in Seq(Query)
    /\ acts \in 0 .. MaxActs

Init ==
    /\ at = [p \in Pagers |-> 1]
    /\ label = [p \in Pagers |-> 1]
    /\ filter = NoFilter
    /\ shown = [p \in Pagers |-> Nothing]
    /\ wanted = [p \in Pagers |-> First]
    /\ fetches = [p \in Pagers |-> <<First>>]
    /\ acts = 0

AtRest(p) == fetches[p] = <<>>

\* The pager is drawn once an answer has told how many pages there are.
MayAct(p) ==
    /\ shown[p] # Nothing
    /\ acts < MaxActs
    /\ Patient => AtRest(p)

Fetch(p, q) == fetches' = [fetches EXCEPT ![p] = Append(@, q)]

-----------------------------------------------------------------------------
(* The audit log.                                                          *)

AuditGoTo(n, f) ==
    /\ at' = [at EXCEPT !.audit = n]
    /\ label' = [label EXCEPT !.audit = n]
    /\ filter' = f
    /\ wanted' = [wanted EXCEPT !.audit = [page |-> n, filter |-> f]]
    /\ Fetch("audit", [page |-> n, filter |-> f])
    /\ acts' = acts + 1
    /\ UNCHANGED shown

AuditPrev ==
    /\ MayAct("audit") /\ at.audit > 1
    /\ AuditGoTo(at.audit - 1, filter)

\* Variant: the button is not disabled on the last page.
AuditNextUnbounded ==
    /\ MayAct("audit")
    /\ AuditGoTo(at.audit + 1, filter)

AuditNext ==
    /\ MayAct("audit") /\ at.audit < TotalPages
    /\ AuditGoTo(at.audit + 1, filter)

UpdateFilter(f) ==
    /\ MayAct("audit") /\ f # filter
    /\ AuditGoTo(1, f)

Refresh ==
    /\ MayAct("audit")
    /\ Fetch("audit", [page |-> at.audit, filter |-> filter])
    /\ acts' = acts + 1
    /\ UNCHANGED <<at, label, filter, shown, wanted>>

Answered(p, i) ==
    /\ i \in 1 .. Len(fetches[p])
    /\ InOrder => i = 1

\* setAuditPagination moves to the page of the answer.  If that is another
\* page than the one the log is at, fetchAuditLogs is a new function and its
\* effect fetches, with the filter of now.
TakeAudit(i) ==
    LET q == fetches.audit[i]
        left == RemoveAt(fetches.audit, i)
    IN /\ Answered("audit", i)
       /\ shown' = [shown EXCEPT !.audit = q]
       /\ at' = [at EXCEPT !.audit = q.page]
       /\ label' = [label EXCEPT !.audit = q.page]
       /\ fetches' = [fetches EXCEPT !.audit =
                        IF q.page = at.audit THEN left
                        ELSE Append(left, [page |-> q.page, filter |-> filter])]
       /\ UNCHANGED <<filter, wanted, acts>>

-----------------------------------------------------------------------------
(* The table of listings.                                                  *)

\* onPage: React does nothing when the page is the one it is at.
OnPage(n) ==
    /\ at' = [at EXCEPT !.listings = n]
    /\ fetches' = IF n = at.listings THEN fetches
                  ELSE [fetches EXCEPT !.listings = Append(@, [page |-> n, filter |-> NoFilter])]
    /\ wanted' = [wanted EXCEPT !.listings.page = n]
    /\ acts' = acts + 1
    /\ UNCHANGED <<label, filter, shown>>

ListingsPrev ==
    /\ MayAct("listings") /\ label.listings > 1
    /\ OnPage(label.listings - 1)

ListingsNext ==
    /\ MayAct("listings") /\ label.listings < TotalPages
    /\ OnPage(label.listings + 1)

TakeListings(i) ==
    LET q == fetches.listings[i] IN
    /\ Answered("listings", i)
    /\ shown' = [shown EXCEPT !.listings = q]
    /\ label' = [label EXCEPT !.listings = q.page]
    /\ fetches' = [fetches EXCEPT !.listings = RemoveAt(@, i)]
    /\ UNCHANGED <<at, filter, wanted, acts>>

-----------------------------------------------------------------------------
Take(p, i) ==
    IF p = "audit" THEN TakeAudit(i) ELSE TakeListings(i)

AuditNextState ==
    \/ AuditPrev \/ AuditNext \/ Refresh
    \/ \E f \in Filters : UpdateFilter(f)
    \/ \E i \in 1 .. MaxActs + 1 : TakeAudit(i)

ListingsNextState ==
    \/ ListingsPrev \/ ListingsNext
    \/ \E i \in 1 .. MaxActs + 1 : TakeListings(i)

Next ==
    \/ "audit" \in Pagers /\ AuditNextState
    \/ "listings" \in Pagers /\ ListingsNextState

Spec == Init /\ [][Next]_vars

\* The server answers the oldest fetch.
Fairness == \A p \in Pagers : WF_vars(Take(p, 1))

-----------------------------------------------------------------------------
\* With nothing under way, the pager says the page of the rows it shows.
LabelIsRows ==
    \A p \in Pagers : AtRest(p) => label[p] = shown[p].page

\* With nothing under way, the rows are those asked for last.
ShowsWanted ==
    \A p \in Pagers : AtRest(p) => shown[p] = wanted[p]

\* With nothing under way, the rows of the audit log match its filter.
LogsMatchFilter == AtRest("audit") => shown.audit.filter = filter

\* With nothing under way, "Next" asks for a page other than the one the
\* table is at: setListingsPage to the page it is at fetches nothing.
NextMoves ==
    /\ AtRest("listings")
    /\ label.listings < TotalPages
    => label.listings + 1 # at.listings

\* Fetching comes to an end once the reader has stopped.
FetchingEnds == \A p \in Pagers : <>[](acts = MaxActs) => <>[]AtRest(p)

=============================================================================

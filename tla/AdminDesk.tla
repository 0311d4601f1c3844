----------------------------- MODULE AdminDesk -----------------------------
(***************************************************************************)
(* The staff desk: frontend/src/pages/AdminDashboard.jsx, the handlers     *)
(* behind its buttons (adminController.js) and who may call them           *)
(* (adminRoutes.js, authMiddleware.js).                                    *)
(*                                                                         *)
(* A desk shows one tab at a time.  Each tab has a list, which was fetched *)
(* when the tab was opened, and buttons on its rows.  A button is drawn    *)
(* from the copy in the list; the handler decides from the row in the      *)
(* database, and the desk then repaints its copy by itself.                *)
(*                                                                         *)
(* db holds one row of each kind, which is enough for what a desk and the  *)
(* others do to a row.  A handler reads (Check) and then writes (Write).   *)
(***************************************************************************)
EXTENDS Naturals, FiniteSets

CONSTANTS
    Staff,          \* the desks open at once
    StaffRoles,     \* roles they may have
    RowKinds,       \* kinds of rows modelled
    Others,         \* whether users and Paystack act too
    Interleaved,    \* whether requests run between a check and its write
    DeskWaits,      \* whether a desk waits for its answers before it acts
    MaxClicks,      \* bound on the buttons pressed
    MaxUploads      \* bound on the photos uploaded

AllRoles == {"ADMIN", "MANAGER", "ACCOUNTANT", "STAFF"}
AllKinds == {"car", "photo", "member", "report", "payment", "order"}

AdminDeskConstants ==
    /\ StaffRoles \subseteq AllRoles
    /\ RowKinds \subseteq AllKinds
    /\ {Others, Interleaved, DeskWaits} \subseteq BOOLEAN
    /\ {MaxClicks, MaxUploads} \subseteq Nat

VARIABLES
    role,       \* the role of each member of the staff
    db,         \* the rows
    verdicts,   \* notices sent about the photo that is stored
    tab,        \* the tab each desk shows, "none" before it is opened
    list,       \* the lists each desk holds
    loading,    \* whether it shows the spinner instead
    asked,      \* fetches under way
    click,      \* the button pressed last
    clicks      \* how many were pressed

deskVars == <<role, db, verdicts, tab, list, loading, asked, click, clicks>>

-----------------------------------------------------------------------------
(* Who may do what.  The matrix is written three times in the code.        *)

ManagerPermissions ==
    {"vehicles:read", "vehicles:write", "vehicles:moderate", "users:read",
     "users:write", "users:moderate", "reports:read", "reports:write",
     "avatars:read", "avatars:moderate", "broadcast:write", "stats:read"}

AccountantPermissions ==
    {"payments:read", "payments:write", "purchases:read", "purchases:write",
     "payouts:write", "disputes:read", "disputes:write", "stats:read",
     "stats:financial"}

StaffPermissions == {"vehicles:read", "users:read", "reports:read", "stats:read"}

PermissionsOf ==
    [MANAGER    |-> ManagerPermissions,
     ACCOUNTANT |-> AccountantPermissions,
     STAFF      |-> StaffPermissions]

\* authMiddleware: what the server lets through.
HasPermission(r, p) == r = "ADMIN" \/ p \in PermissionsOf[r]

Lists == {"pending", "allListings", "takenDown", "photos", "users", "reports",
          "payments", "purchases"}
AllTabs == Lists \cup {"overview"}

KindOf(l) ==
    CASE l \in {"pending", "allListings", "takenDown"} -> "car"
      [] l = "photos"    -> "photo"
      [] l = "users"     -> "member"
      [] l = "reports"   -> "report"
      [] l = "payments"  -> "payment"
      [] l = "purchases" -> "order"

\* adminRoutes: the permission to fetch a list.
ReadPermission(l) ==
    CASE KindOf(l) = "car"     -> "vehicles:read"
      [] KindOf(l) = "photo"   -> "avatars:read"
      [] KindOf(l) = "member"  -> "users:read"
      [] KindOf(l) = "report"  -> "reports:read"
      [] KindOf(l) = "payment" -> "payments:read"
      [] KindOf(l) = "order"   -> "purchases:read"

\* AdminDashboard: the permission for a tab, in the matrix of the client.
TabPermission(t) == IF t = "overview" THEN "stats:read" ELSE ReadPermission(t)

DeskTabs(r) ==
    {t \in AllTabs : /\ r = "ADMIN" \/ TabPermission(t) \in PermissionsOf[r]
                     /\ t = "overview" \/ KindOf(t) \in RowKinds}

\* notifyStaffByPermission: who is told of a new row, and the tab the
\* notice links to.
NoticeLinks ==
    {[needs |-> "vehicles:moderate", to |-> "pending"],
     [needs |-> "avatars:moderate",  to |-> "photos"],
     [needs |-> "reports:write",     to |-> "reports"],
     [needs |-> "payments:write",    to |-> "payments"],
     [needs |-> "purchases:read",    to |-> "purchases"],
     [needs |-> "purchases:write",   to |-> "purchases"],
     [needs |-> "disputes:read",     to |-> "purchases"]}

NotifiedTabs(r) ==
    {n.to : n \in {n \in NoticeLinks : HasPermission(r, n.needs)
                                       /\ KindOf(n.to) \in RowKinds}}

\* getAvatar: a photo that is not approved goes to its owner and to admins.
CanSeePhoto(r) == r = "ADMIN"

-----------------------------------------------------------------------------
(* The rows.                                                               *)

CarStatuses == {"PENDING", "AVAILABLE", "REJECTED", "DEACTIVATED", "RESERVED",
                "SOLD", "GONE"}
Rows ==
    [car |-> {[status |-> s, featured |-> f] : s \in CarStatuses, f \in BOOLEAN},
     photo |-> {[upload |-> n, status |-> s] :
                n \in 0 .. MaxUploads, s \in {"NONE", "PENDING", "APPROVED", "REJECTED"}},
     member |-> [role : {"SELLER", "MANAGER", "STAFF"}, name : {"old", "new"},
               verified : BOOLEAN, active : BOOLEAN, gone : BOOLEAN],
     report |-> [status : {"PENDING", "RESOLVED"}],
     payment |-> [status : {"PENDING", "VERIFIED", "REJECTED"}],
     order |-> [method : {"MOMO", "PAYSTACK"},
              status : {"AWAITING_PAYMENT", "PAID_HELD", "COMPLETED",
                        "CANCELLED", "REFUNDED"},
              claimed : BOOLEAN,
              dispute : {"NONE", "OPEN", "RESOLVED_BUYER", "RESOLVED_SELLER"},
              payout : {"NONE", "PENDING", "SENT"}]]

\* What the GETs answer.
GetPendingVehicles == {r \in {db.car} : r.status = "PENDING"}
GetAllVehicles(status) == {r \in {db.car} : r.status = status}
GetPendingAvatars == {r \in {db.photo} : r.status = "PENDING"}
GetAllUsers == {r \in {db.member} : ~r.gone}
GetReports == {db.report}
GetPayments == {db.payment}
GetPurchases == {db.order}

Answer(l) ==
    CASE l = "pending"     -> GetPendingVehicles
      [] l = "allListings" -> GetAllVehicles("AVAILABLE")
      [] l = "takenDown"   -> GetAllVehicles("DEACTIVATED")
      [] l = "photos"      -> GetPendingAvatars
      [] l = "users"       -> GetAllUsers
      [] l = "reports"     -> GetReports
      [] l = "payments"    -> GetPayments
      [] l = "purchases"   -> GetPurchases

-----------------------------------------------------------------------------
(* The buttons.                                                            *)

CarButtons == {"approve", "reject", "takeDown", "restore", "feature"}
PhotoButtons == {"approvePhoto", "rejectPhoto"}
MemberButtons == {"verifySeller", "deactivate", "reactivate", "deleteUser",
                  "makeManager", "makeStaff", "rename"}
PaymentButtons == {"verifyPayment", "rejectPayment"}
OrderButtons == {"confirmEscrow", "rejectClaim", "refundBuyer",
                 "releaseSeller", "payoutSent"}
DeskButtons == CarButtons \cup PhotoButtons \cup MemberButtons \cup {"resolve"}
           \cup PaymentButtons \cup OrderButtons

If(cond, buttons) == IF cond THEN buttons ELSE {}

\* What each list offers on the copy r of its row.
PendingOffers(r) == {"approve", "reject"}

AllListingsOffers(r) == {"feature"} \cup If(r.status = "AVAILABLE", {"takeDown"})

TakenDownOffers(r) == {"restore"}

PhotoOffers(r) == PhotoButtons

ReportOffers(r) == If(r.status = "PENDING", {"resolve"})

PaymentOffers(r) == If(r.status = "PENDING", PaymentButtons)

MemberOffers(by, r) ==
    If(r.role = "SELLER" /\ ~r.verified, {"verifySeller"})
    \cup {IF r.active THEN "deactivate" ELSE "reactivate", "deleteUser"}
    \cup If(by = "ADMIN" /\ r.role \in {"MANAGER", "STAFF"},
            {"makeManager", "makeStaff", "rename"})

DisputeOffers(r) == If(r.dispute = "OPEN", {"refundBuyer", "releaseSeller"})

TransferOffers(r) ==
    If(r.status = "AWAITING_PAYMENT" /\ r.method = "MOMO",
       {"confirmEscrow"} \cup If(r.claimed, {"rejectClaim"}))

PayoutOffers(r) == If(r.payout = "PENDING", {"payoutSent"})

DeskOffers(by, l, r) ==
    CASE l = "pending"     -> PendingOffers(r)
      [] l = "allListings" -> AllListingsOffers(r)
      [] l = "takenDown"   -> TakenDownOffers(r)
      [] l = "photos"      -> PhotoOffers(r)
      [] l = "users"       -> MemberOffers(by, r)
      [] l = "reports"     -> ReportOffers(r)
      [] l = "payments"    -> PaymentOffers(r)
      [] l = "purchases"   -> DisputeOffers(r) \cup TransferOffers(r) \cup PayoutOffers(r)

\* adminRoutes: the permission a button's request needs.
WritePermission(b) ==
    CASE b \in CarButtons -> "vehicles:write"
      [] b \in PhotoButtons -> "avatars:moderate"
      [] b \in {"verifySeller", "makeManager", "makeStaff"} -> "users:moderate"
      [] b \in {"deactivate", "reactivate", "deleteUser", "rename"} -> "users:write"
      [] b = "resolve" -> "reports:write"
      [] b \in PaymentButtons -> "payments:write"
      [] b \in {"confirmEscrow", "rejectClaim"} -> "purchases:write"
      [] b \in {"refundBuyer", "releaseSeller"} -> "disputes:write"
      [] b = "payoutSent" -> "payouts:write"

\* Variant: no early returns.
RefusesNothing(b, r) == FALSE

\* The early returns of the handlers.  An order's row holds a member with
\* it: deleteUser fails on the foreign key.
Refuses(b, r) ==
    CASE b \in PhotoButtons -> r.status # "PENDING"
      [] b = "deactivate" -> r.gone \/ ~r.active
      [] b = "reactivate" -> r.gone \/ r.active
      [] b = "deleteUser" -> r.gone \/ "order" \in RowKinds
      [] b \in MemberButtons -> r.gone
      [] b \in CarButtons -> r.status = "GONE"
      [] b = "verifyPayment" -> r.status = "VERIFIED"
      [] b = "confirmEscrow" -> r.method # "MOMO" \/ r.status # "AWAITING_PAYMENT"
      [] b = "rejectClaim" -> r.status # "AWAITING_PAYMENT" \/ ~r.claimed
      [] b \in {"refundBuyer", "releaseSeller"} ->
            r.dispute # "OPEN" \/ r.status # "PAID_HELD"
      [] b = "payoutSent" -> r.status # "COMPLETED" \/ r.payout # "PENDING"
      [] OTHER -> FALSE

\* The writes that are conditional: applyVerifiedPayment, markEscrowFunded,
\* and the claim of resolveDispute.
LosesClaim(b, r) ==
    CASE b = "verifyPayment" -> r.status # "PENDING"
      [] b = "confirmEscrow" -> r.status # "AWAITING_PAYMENT"
      [] b \in {"refundBuyer", "releaseSeller"} -> Refuses(b, r)
      [] OTHER -> b \in MemberButtons /\ r.gone

\* What each handler makes of the row r.  read is the row it has read, copy
\* the row the desk has drawn the button from.
UpdateListingStatus(status, r) ==
    [r EXCEPT !.status = status, !.featured = @ /\ status = "AVAILABLE"]

ToggleFeatured(read, r) == [r EXCEPT !.featured = ~read.featured]

SetAvatarStatus(verdict, r) == [r EXCEPT !.status = verdict]

VerifySeller(r) == [r EXCEPT !.verified = TRUE]

SetUserStatus(isActive, r) == [r EXCEPT !.active = isActive]

DeleteUser(r) == [r EXCEPT !.gone = TRUE]

ChangeUserRole(to, r) == [r EXCEPT !.role = to]

\* The form of "Edit" carries the role that the desk shows.
UpdateUser(copy, r) == [r EXCEPT !.name = "new", !.role = copy.role]

ResolveReport(r) == [r EXCEPT !.status = "RESOLVED"]

VerifyPayment(r) == [r EXCEPT !.status = "VERIFIED"]

RejectPayment(r) == [r EXCEPT !.status = "REJECTED"]

VerifyPurchasePayment(r) == [r EXCEPT !.status = "PAID_HELD"]

RejectPurchasePayment(r) == [r EXCEPT !.claimed = FALSE]

ResolveDispute(outcome, r) ==
    IF outcome = "REFUND_BUYER"
    THEN [r EXCEPT !.status = "REFUNDED", !.dispute = "RESOLVED_BUYER"]
    ELSE [r EXCEPT !.status = "COMPLETED", !.payout = "PENDING",
                   !.dispute = "RESOLVED_SELLER"]

ReleasePayout(r) == [r EXCEPT !.payout = "SENT"]

NewRow(b, copy, read, r) ==
    CASE b \in {"approve", "restore"} -> UpdateListingStatus("AVAILABLE", r)
      [] b = "reject"        -> UpdateListingStatus("REJECTED", r)
      [] b = "takeDown"      -> UpdateListingStatus("DEACTIVATED", r)
      [] b = "feature"       -> ToggleFeatured(read, r)
      [] b = "approvePhoto"  -> SetAvatarStatus("APPROVED", r)
      [] b = "rejectPhoto"   -> SetAvatarStatus("REJECTED", r)
      [] b = "verifySeller"  -> VerifySeller(r)
      [] b = "deactivate"    -> SetUserStatus(FALSE, r)
      [] b = "reactivate"    -> SetUserStatus(TRUE, r)
      [] b = "deleteUser"    -> DeleteUser(r)
      [] b = "makeManager"   -> ChangeUserRole("MANAGER", r)
      [] b = "makeStaff"     -> ChangeUserRole("STAFF", r)
      [] b = "rename"        -> UpdateUser(copy, r)
      [] b = "resolve"       -> ResolveReport(r)
      [] b = "verifyPayment" -> VerifyPayment(r)
      [] b = "rejectPayment" -> RejectPayment(r)
      [] b = "confirmEscrow" -> VerifyPurchasePayment(r)
      [] b = "rejectClaim"   -> RejectPurchasePayment(r)
      [] b = "refundBuyer"   -> ResolveDispute("REFUND_BUYER", r)
      [] b = "releaseSeller" -> ResolveDispute("RELEASE_SELLER", r)
      [] b = "payoutSent"    -> ReleasePayout(r)

\* Deactivating or deleting the seller reaches the listing too.
CarAfter(b, car) ==
    CASE b = "deactivate" /\ car.status \in {"PENDING", "AVAILABLE"} ->
            [status |-> "DEACTIVATED", featured |-> FALSE]
      [] b = "deleteUser" -> [status |-> "GONE", featured |-> FALSE]
      [] OTHER -> car

KindOfButton(b) ==
    CASE b \in CarButtons -> "car"
      [] b \in PhotoButtons -> "photo"
      [] b \in MemberButtons -> "member"
      [] b = "resolve" -> "report"
      [] b \in PaymentButtons -> "payment"
      [] b \in OrderButtons -> "order"

-----------------------------------------------------------------------------
(* A click is idle, sent, checked (the handler has read), and then done,   *)
(* refused (4xx) or denied (403).                                          *)

NoClick == [phase |-> "idle"]
Clicked(s, p) == click[s].phase = p

FirstRow(k, m, o) ==
    CASE k = "car"     -> [status |-> "PENDING", featured |-> FALSE]
      [] k = "photo"   -> [upload |-> 1, status |-> "PENDING"]
      [] k = "member"  -> m
      [] k = "order"   -> o
      [] OTHER         -> [status |-> "PENDING"]

DeskInit ==
    /\ role \in [Staff -> StaffRoles]
    /\ \E r \in {"SELLER", "MANAGER", "STAFF"}, p \in {"MOMO", "PAYSTACK"} :
          LET m == [role |-> r, name |-> "old", verified |-> FALSE,
                    active |-> TRUE, gone |-> FALSE]
              o == [method |-> p, status |-> "AWAITING_PAYMENT", claimed |-> FALSE,
                    dispute |-> "NONE", payout |-> "NONE"]
          IN db = [k \in RowKinds |-> FirstRow(k, m, o)]
    /\ verdicts = 0
    /\ tab = [s \in Staff |-> "none"]
    /\ list = [s \in Staff |-> [l \in Lists |-> {}]]
    /\ loading = [s \in Staff |-> TRUE]
    /\ asked = [s \in Staff |-> {}]
    /\ click = [s \in Staff |-> NoClick]
    /\ clicks = 0

-----------------------------------------------------------------------------
(* Tabs and fetches.                                                       *)

ListsOf(s, t) ==
    IF t = "overview" THEN {"payments", "purchases"} \cap DeskTabs(role[s]) ELSE {t}

Sent(t) == [tab |-> t, phase |-> "sent", rows |-> <<>>]

\* fetchData: the spinner goes on and the GET of the tab goes out.
FetchData(s, t) ==
    /\ loading' = [loading EXCEPT ![s] = TRUE]
    /\ asked' = [asked EXCEPT ![s] = @ \cup {Sent(t)}]

AtRest(s) == asked[s] = {} /\ click[s].phase = "idle"
MayAct(s) == DeskWaits => AtRest(s)

\* The page is opened by itself or through the link of a notice.
OpenDesk(s) ==
    /\ tab[s] = "none"
    /\ \E t \in {"overview"} \cup NotifiedTabs(role[s]) :
          /\ tab' = [tab EXCEPT ![s] = t]
          /\ FetchData(s, t)
    /\ UNCHANGED <<role, db, verdicts, list, click, clicks>>

SelectTab(s, t) ==
    /\ tab[s] # "none"
    /\ MayAct(s)
    /\ t \in DeskTabs(role[s]) \ {tab[s]}
    /\ tab' = [tab EXCEPT ![s] = t]
    /\ FetchData(s, t)
    /\ UNCHANGED <<role, db, verdicts, list, click, clicks>>

ServeFetch(s) ==
    /\ \E q \in asked[s] :
          LET ls == ListsOf(s, q.tab)
              a  == IF \A l \in ls : HasPermission(role[s], ReadPermission(l))
                    THEN [q EXCEPT !.phase = "answered",
                                   !.rows = [l \in ls |-> Answer(l)]]
                    ELSE [q EXCEPT !.phase = "denied"]
          IN /\ q.phase = "sent"
             /\ asked' = [asked EXCEPT ![s] = (@ \ {q}) \cup {a}]
    /\ UNCHANGED <<role, db, verdicts, tab, list, loading, click, clicks>>

\* Variant: the spinner stays when the list was refused or empty.
TakeFetchSpinning(s) ==
    /\ \E q \in asked[s] :
          /\ q.phase # "sent"
          /\ asked' = [asked EXCEPT ![s] = @ \ {q}]
          /\ list' = [list EXCEPT ![s] = [l \in Lists |->
                        IF l \in DOMAIN q.rows THEN q.rows[l] ELSE @[l]]]
          /\ loading' = [loading EXCEPT ![s] = \A l \in DOMAIN q.rows : q.rows[l] = {}]
    /\ UNCHANGED <<role, db, verdicts, tab, click, clicks>>

\* A list that was refused leaves the old one: catch only logs.
TakeFetch(s) ==
    /\ \E q \in asked[s] :
          /\ q.phase # "sent"
          /\ asked' = [asked EXCEPT ![s] = @ \ {q}]
          /\ list' = [list EXCEPT ![s] = [l \in Lists |->
                        IF l \in DOMAIN q.rows THEN q.rows[l] ELSE @[l]]]
          /\ loading' = [loading EXCEPT ![s] = FALSE]
    /\ UNCHANGED <<role, db, verdicts, tab, click, clicks>>

-----------------------------------------------------------------------------
(* Clicks.                                                                 *)

PressButton(s) ==
    /\ tab[s] \in Lists
    /\ ~loading[s]
    /\ Clicked(s, "idle")
    /\ MayAct(s)
    /\ clicks < MaxClicks
    /\ \E r \in list[s][tab[s]] : \E b \in DeskOffers(role[s], tab[s], r) :
          click' = [click EXCEPT ![s] =
                      [phase |-> "sent", b |-> b, on |-> tab[s],
                       copy |-> r, read |-> r, out |-> r]]
    /\ clicks' = clicks + 1
    /\ UNCHANGED <<role, db, verdicts, tab, list, loading, asked>>

Quiet == Interleaved \/ \A s \in Staff : ~Clicked(s, "checked")

\* requirePermission and the early returns.
Check(s) ==
    /\ Clicked(s, "sent")
    /\ Quiet
    /\ LET b == click[s].b
           r == db[KindOfButton(b)]
       IN click' = [click EXCEPT ![s] =
                      [@ EXCEPT !.phase = IF ~HasPermission(role[s], WritePermission(b))
                                          THEN "denied"
                                          ELSE IF Refuses(b, r) THEN "refused" ELSE "checked",
                                !.read = r]]
    /\ UNCHANGED <<role, db, verdicts, tab, list, loading, asked, clicks>>

\* The UPDATE, and the notice of a verdict on a photo.
Write(s) ==
    /\ Clicked(s, "checked")
    /\ LET b == click[s].b
           k == KindOfButton(b)
           r == NewRow(b, click[s].copy, click[s].read, db[k])
       IN IF LosesClaim(b, db[k])
          THEN /\ click' = [click EXCEPT ![s].phase = "refused"]
               /\ UNCHANGED <<db, verdicts>>
          ELSE /\ db' = [j \in RowKinds |->
                            IF j = k THEN r
                            ELSE IF j = "car" THEN CarAfter(b, db.car)
                            ELSE db[j]]
               /\ click' = [click EXCEPT ![s] = [@ EXCEPT !.phase = "done", !.out = r]]
               /\ verdicts' = IF k = "photo" THEN verdicts + 1 ELSE verdicts
    /\ UNCHANGED <<role, tab, list, loading, asked, clicks>>

\* Variant: the page waits for the next fetch.
RepaintNothing(c, l, r) == {r}
\* How the functions of the page repaint the copy r of list l; {} drops it.
HandleListingAction(c, l, r) ==
    IF l = "pending" THEN {} ELSE {[r EXCEPT !.status = c.out.status, !.featured = FALSE]}

HandleToggleFeatured(l, r) ==
    {IF l = "allListings" THEN [r EXCEPT !.featured = ~@] ELSE r}

HandleAvatarAction(r) == {}

HandleDeleteUser(r) == {}

HandleToggleUserStatus(c, r) == {[r EXCEPT !.active = ~c.copy.active]}

HandleResolveReport(r) == {[r EXCEPT !.status = "RESOLVED"]}

HandleVerifyPayment(r) == {[r EXCEPT !.status = "VERIFIED"]}

HandleRejectPayment(r) == {[r EXCEPT !.status = "REJECTED"]}

HandleReleasePayout(r) == {[r EXCEPT !.payout = "SENT"]}

\* The orders: the answer carries the row.
HandleOrder(c) == {c.out}

Repaint(c, l, r) ==
    CASE c.b \in CarButtons \ {"feature"} -> HandleListingAction(c, l, r)
      [] c.b = "feature"            -> HandleToggleFeatured(l, r)
      [] c.b \in PhotoButtons       -> HandleAvatarAction(r)
      [] c.b = "deleteUser"         -> HandleDeleteUser(r)
      [] c.b \in {"deactivate", "reactivate"} -> HandleToggleUserStatus(c, r)
      [] c.b = "resolve"            -> HandleResolveReport(r)
      [] c.b = "verifyPayment"      -> HandleVerifyPayment(r)
      [] c.b = "rejectPayment"      -> HandleRejectPayment(r)
      [] c.b = "payoutSent"         -> HandleReleasePayout(r)
      [] c.b \in OrderButtons       -> HandleOrder(c)
      [] OTHER                      -> {r}

\* A refusal only shows a toast.  "Verify" fetches the tab anew; the role and
\* name forms fetch the users again, without the spinner.
Take(s) ==
    /\ click[s].phase \in {"done", "refused", "denied"}
    /\ LET c == click[s]
           done == c.phase = "done"
       IN /\ list' = [list EXCEPT ![s] = [l \in Lists |->
                        IF done /\ KindOf(l) = KindOfButton(c.b)
                        THEN UNION {Repaint(c, l, r) : r \in @[l]} ELSE @[l]]]
          /\ loading' = [loading EXCEPT ![s] = @ \/ (done /\ c.b = "verifySeller")]
          /\ asked' = [asked EXCEPT ![s] =
                         IF done /\ c.b = "verifySeller" THEN @ \cup {Sent(c.on)}
                         ELSE IF done /\ c.b \in {"makeManager", "makeStaff", "rename"}
                         THEN @ \cup {Sent("users")} ELSE @]
    /\ click' = [click EXCEPT ![s] = NoClick]
    /\ UNCHANGED <<role, db, verdicts, tab, clicks>>

-----------------------------------------------------------------------------
(* The others: owners of photos, buyers and sellers, Paystack.             *)

SetRow(k, r) == db' = [db EXCEPT ![k] = r]

OthersMay(k) == Others /\ k \in RowKinds /\ Quiet

UploadPhoto ==
    /\ OthersMay("photo")
    /\ db.photo.upload < MaxUploads
    /\ SetRow("photo", [upload |-> db.photo.upload + 1, status |-> "PENDING"])
    /\ verdicts' = 0
    /\ UNCHANGED <<role, tab, list, loading, asked, click, clicks>>

PayOnline ==
    /\ OthersMay("payment")
    /\ db.payment.status = "PENDING"
    /\ SetRow("payment", [status |-> "VERIFIED"])
    /\ UNCHANGED <<role, verdicts, tab, list, loading, asked, click, clicks>>

\* What the buyer, the seller and Paystack do to the order: one handler each.
SetOrder(r) == SetRow("order", r)

OrderClaimPayment(o) ==
    /\ o.status = "AWAITING_PAYMENT" /\ o.method = "MOMO"
    /\ SetOrder([o EXCEPT !.claimed = TRUE])

OrderApplyVerified(o) ==
    /\ o.status = "AWAITING_PAYMENT" /\ o.method = "PAYSTACK"
    /\ SetOrder([o EXCEPT !.status = "PAID_HELD"])

OrderOpenDispute(o) ==
    /\ o.status = "PAID_HELD" /\ o.dispute = "NONE"
    /\ SetOrder([o EXCEPT !.dispute = "OPEN"])

OrderConfirmReceived(o) ==
    /\ o.status = "PAID_HELD" /\ o.dispute # "OPEN"
    /\ SetOrder([o EXCEPT !.status = "COMPLETED", !.payout = "PENDING"])

OrderCancel(o) ==
    /\ o.status \in {"AWAITING_PAYMENT", "PAID_HELD"} /\ o.dispute # "OPEN"
    /\ SetOrder([o EXCEPT !.status = "CANCELLED"])

OrderMoves ==
    /\ OthersMay("order")
    /\ \/ OrderClaimPayment(db.order) \/ OrderApplyVerified(db.order)
       \/ OrderOpenDispute(db.order) \/ OrderConfirmReceived(db.order)
       \/ OrderCancel(db.order)
    /\ UNCHANGED <<role, verdicts, tab, list, loading, asked, click, clicks>>

DeskNext ==
    \/ \E s \in Staff :
          \/ OpenDesk(s) \/ \E t \in AllTabs : SelectTab(s, t)
          \/ ServeFetch(s) \/ TakeFetch(s)
          \/ PressButton(s) \/ Check(s) \/ Write(s) \/ Take(s)
    \/ UploadPhoto \/ PayOnline \/ OrderMoves

DeskSpec == DeskInit /\ [][DeskNext]_deskVars

\* Requests are answered and the page takes the answers.
DeskFairness ==
    \A s \in Staff :
        /\ WF_deskVars(ServeFetch(s)) /\ WF_deskVars(TakeFetch(s))
        /\ WF_deskVars(Check(s)) /\ WF_deskVars(Write(s))
        /\ WF_deskVars(Take(s))

-----------------------------------------------------------------------------
(* Properties.                                                             *)

\* Types of the variables.
DeskTypeOK ==
    /\ role \in [Staff -> StaffRoles]
    /\ DOMAIN db = RowKinds
    /\ \A k \in RowKinds : db[k] \in Rows[k]
    /\ verdicts \in 0 .. MaxClicks
    /\ tab \in [Staff -> AllTabs \cup {"none"}]
    /\ \A s \in Staff, l \in Lists : \A r \in list[s][l] : r \in Rows[KindOf(l)]
    /\ loading \in [Staff -> BOOLEAN]
    /\ \A s \in Staff : \A q \in asked[s] : q.tab \in AllTabs
    /\ \A s \in Staff : click[s].phase \in
          {"idle", "sent", "checked", "done", "refused", "denied"}

\* A tab that the desk shows to a role, or that a notice sends it to, can be
\* fetched by it: the three copies of the permission matrix agree on it.
TabsLoad == \A s \in Staff : \A q \in asked[s] : q.phase # "denied"

\* A button that the desk draws is one the role may press.
OfferedIsPermitted == \A s \in Staff : ~Clicked(s, "denied")

\* A button drawn from an up-to-date copy is not refused: the conditions of
\* the page and the early returns of the handlers agree.
OfferedFitsRow ==
    \A s \in Staff, l \in Lists : \A r \in list[s][l] :
        r = db[KindOf(l)] /\ r \in Answer(l) =>
            \A b \in DeskOffers(role[s], l, r) \ {"deleteUser"} : ~Refuses(b, r)

\* What the page paints after an action is what the action wrote: with one
\* desk and nobody else acting, the list shown is the database.
RepaintIsTrue ==
    \A s \in Staff :
        tab[s] \in Lists \ {"takenDown"} /\ ~loading[s] /\ AtRest(s) =>
            \A r \in list[s][tab[s]] : r = db[KindOf(tab[s])]

\* An uploaded photo gets one verdict.
OneVerdictPerUpload == verdicts <= 1

\* The photo that is approved is the one in the list of who approved it.
ApprovedPhotoWasShown ==
    [][\A s \in Staff :
        Clicked(s, "checked") /\ click'[s].phase = "done" /\ click[s].b = "approvePhoto"
            => db.photo.upload = click[s].copy.upload]_deskVars

\* Who decides on a photo can see it.
ReviewerSeesPhoto ==
    \A s \in Staff : Clicked(s, "done") /\ click[s].b \in PhotoButtons =>
        CanSeePhoto(role[s])

\* The toast after "Feature" and "Unfeature" tells what the handler did.
FeaturedAsTold ==
    \A s \in Staff : Clicked(s, "done") /\ click[s].b = "feature" =>
        click[s].out.featured = ~click[s].copy.featured

\* The tab of listings taken down lists no other.
TakenDownIsTakenDown ==
    \A s \in Staff : \A r \in list[s].takenDown : r.status = "DEACTIVATED"

\* Editing a name leaves the role that was set since.
RenameKeepsRole ==
    \A s \in Staff : Clicked(s, "done") /\ click[s].b = "rename" =>
        click[s].out.role = click[s].read.role

\* "Delete" removes a user who is there.
DeleteRemovesUser ==
    \A s \in Staff : Clicked(s, "refused") /\ click[s].b = "deleteUser" =>
        click[s].read.gone

\* The spinner goes away.
SpinnerEnds == \A s \in Staff : tab[s] # "none" /\ loading[s] ~> ~loading[s]

=============================================================================

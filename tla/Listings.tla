------------------------------ MODULE Listings ------------------------------
(***************************************************************************)
(* The life of a listing under its seller and the administrators:          *)
(* backend/src/controllers/vehicleController.js (create, edit, close,      *)
(* wipe, reactivate, mark sold) and the listing and suspension endpoints   *)
(* of adminController.js.                                                  *)
(*                                                                         *)
(* Every endpoint reads the row, checks it, and after an await updates it  *)
(* by id: the update never looks at the status again.  A request is       *)
(* therefore a read step and a write step, with the status it has read     *)
(* kept in lreq[w].                                                        *)
(*                                                                         *)
(* What a listing says (price, description, pictures) is a version number; *)
(* approved[v] is the version an administrator last put on the market,     *)
(* as the request that did so had read it.  The cache bump, the audit log  *)
(* and the notices that follow a write are left out.                       *)
(***************************************************************************)
EXTENDS Naturals, FiniteSets

CONSTANTS
    Editors,            \* listing requests that can be in flight at once
    ListingHandlers,    \* the endpoints this instance exercises (a bound)
    Vehicles,
    Sellers,
    ownerOf,            \* the seller of a listing
    ListingLimit,       \* getListingLimit of a seller's plan, never lifted
    MaxContent,         \* bound on the edits of a listing
    Nobody              \* no listing and no seller

ListingConstants ==
    /\ ownerOf \in [Vehicles -> Sellers]
    /\ ListingLimit \in [Sellers -> Nat]
    /\ MaxContent \in Nat
    /\ Nobody \notin Vehicles \cup Sellers

VARIABLES
    vehicle,    \* Vehicle.status
    row,        \* whether the row exists
    featured,   \* Vehicle.featured
    content,    \* the version of what the listing says
    approved,   \* the version an administrator has put on the market
    active,     \* User.isActive of the sellers
    refs,       \* listings that orders or offers refer to (RESTRICT keys)
    lreq        \* listing requests in flight

lvars == <<vehicle, row, featured, content, approved, active, refs, lreq>>

ListingStatus ==
    {"PENDING", "AVAILABLE", "RESERVED", "REJECTED", "SOLD", "DEACTIVATED",
     "REMOVED"}

Closed  == {"REMOVED", "DEACTIVATED"}
Counted == {"PENDING", "AVAILABLE"}

SellerEndpoints ==
    {"createVehicle", "updateVehicle", "deleteVehicle", "reactivateVehicle",
     "markAsSold"}
AdminEndpoints ==
    {"updateListingStatus", "toggleFeatured", "setUserStatus"}

ListingRequest ==
    [at   : SellerEndpoints \cup AdminEndpoints \cup {"idle"},
     on   : Vehicles \cup Sellers \cup {Nobody},
     by   : {"seller", "admin"},
     seen : ListingStatus,      \* the status it has read
     star : BOOLEAN,            \* the featured flag it has read
     rev  : Nat]                \* the version it has read

NoRequest == [at |-> "idle", on |-> Nobody, by |-> "seller",
              seen |-> "PENDING", star |-> FALSE, rev |-> 0]

LTypeOK ==
    /\ vehicle \in [Vehicles -> ListingStatus]
    /\ row \in [Vehicles -> {"unborn", "live", "gone"}]
    /\ featured \in [Vehicles -> BOOLEAN]
    /\ content \in [Vehicles -> Nat]
    /\ approved \in [Vehicles -> Nat]
    /\ active \in [Sellers -> BOOLEAN]
    /\ refs \in SUBSET Vehicles
    /\ lreq \in [Editors -> ListingRequest]

LInit ==
    /\ vehicle = [v \in Vehicles |-> "PENDING"]
    /\ row = [v \in Vehicles |-> "unborn"]
    /\ featured = [v \in Vehicles |-> FALSE]
    /\ content = [v \in Vehicles |-> 0]
    /\ approved = [v \in Vehicles |-> 0]
    /\ active = [s \in Sellers |-> TRUE]
    /\ refs = {}
    /\ lreq = [w \in Editors |-> NoRequest]

-----------------------------------------------------------------------------
(* Requests.                                                               *)

Idle(w) == lreq[w].at = "idle"

\* An endpoint reads listing v and suspends at its write.  A suspended
\* seller's token is refused; an administrator may use every endpoint.
Receive(w, endpoint, v, by) ==
    /\ Idle(w)
    /\ endpoint \in ListingHandlers
    /\ by = "seller" => active[ownerOf[v]]
    /\ lreq' = [lreq EXCEPT ![w] =
                   [at |-> endpoint, on |-> v, by |-> by, seen |-> vehicle[v],
                    star |-> featured[v], rev |-> content[v]]]
    /\ UNCHANGED <<vehicle, row, featured, content, approved, active, refs>>

Reply(w) == lreq' = [lreq EXCEPT ![w] = NoRequest]

\* An update by id fails when the row is gone, and then changes nothing.
Serving(w, endpoint) == lreq[w].at = endpoint /\ row[lreq[w].on] = "live"

SetStatus(w, status) == vehicle' = [vehicle EXCEPT ![lreq[w].on] = status]

-----------------------------------------------------------------------------
(* The seller's endpoints.                                                 *)

LiveListings(s) ==
    {v \in Vehicles : row[v] = "live" /\ ownerOf[v] = s /\ vehicle[v] \in Counted}

\* Variant: the limit is passed by one.
CreateReadAtLimit(w, v) ==
    /\ row[v] = "unborn"
    /\ \A u \in Editors : lreq[u].on # v
    /\ Cardinality(LiveListings(ownerOf[v])) <= ListingLimit[ownerOf[v]]
    /\ Receive(w, "createVehicle", v, "seller")

\* The count of the listings and the insert are two statements.
CreateVehicleRead(w, v) ==
    /\ row[v] = "unborn"
    /\ \A u \in Editors : lreq[u].on # v
    /\ Cardinality(LiveListings(ownerOf[v])) < ListingLimit[ownerOf[v]]
    /\ Receive(w, "createVehicle", v, "seller")

CreateVehicleWrite(w) ==
    /\ lreq[w].at = "createVehicle"
    /\ row' = [row EXCEPT ![lreq[w].on] = "live"]
    /\ SetStatus(w, "PENDING")
    /\ content' = [content EXCEPT ![lreq[w].on] = 1]
    /\ Reply(w)
    /\ UNCHANGED <<featured, approved, active, refs>>

UpdateVehicleRead(w, v, by) ==
    row[v] = "live" /\ Receive(w, "updateVehicle", v, by)

\* Variant: an edit of the seller keeps a listing on the market.
KeepIfPublic(w) ==
    IF lreq[w].by = "seller" /\ lreq[w].seen \notin {"SOLD", "AVAILABLE"}
    THEN "PENDING" ELSE lreq[w].seen

\* nextStatus: from the row as it was read.  What an administrator writes
\* needs nobody's approval and does not count as new content.
NextStatus(w) ==
    IF lreq[w].by = "seller" /\ lreq[w].seen # "SOLD"
    THEN "PENDING" ELSE lreq[w].seen

UpdateVehicleWrite(w) ==
    LET v == lreq[w].on
    IN  /\ Serving(w, "updateVehicle")
        /\ SetStatus(w, NextStatus(w))
        /\ \/ /\ lreq[w].by = "seller"
              /\ content[v] < MaxContent
              /\ content' = [content EXCEPT ![v] = @ + 1]
           \/ /\ lreq[w].by = "admin"
              /\ UNCHANGED content
        /\ Reply(w)
        /\ UNCHANGED <<row, featured, approved, active, refs>>

DeleteVehicleRead(w, v, by) ==
    row[v] = "live" /\ Receive(w, "deleteVehicle", v, by)

SoftClose(w) ==
    /\ SetStatus(w, "REMOVED")
    /\ featured' = [featured EXCEPT ![lreq[w].on] = FALSE]
    /\ UNCHANGED row

\* The wipe deletes the listing with its messages, favourites and reports;
\* an order or an offer on it makes the transaction fail.
Wipe(w) ==
    /\ \/ /\ lreq[w].on \notin refs
          /\ row' = [row EXCEPT ![lreq[w].on] = "gone"]
       \/ /\ lreq[w].on \in refs
          /\ UNCHANGED row
    /\ UNCHANGED <<vehicle, featured>>

\* Variant: a listing is wiped at the first request.
DeleteAtOnce(w) ==
    /\ Serving(w, "deleteVehicle")
    /\ Wipe(w)
    /\ Reply(w)
    /\ UNCHANGED <<content, approved, active, refs>>

\* Which of the two stages it is depends on the status that was read.
DeleteVehicleWrite(w) ==
    /\ Serving(w, "deleteVehicle")
    /\ \/ lreq[w].seen \in Closed /\ Wipe(w)
       \/ lreq[w].seen \notin Closed /\ SoftClose(w)
    /\ Reply(w)
    /\ UNCHANGED <<content, approved, active, refs>>

ReactivateVehicleRead(w, v, by) ==
    /\ row[v] = "live"
    /\ vehicle[v] \in Closed
    /\ Receive(w, "reactivateVehicle", v, by)

\* Variant: a listing that was on the market before is not reviewed again.
ReactivateAtOnce(w) ==
    /\ Serving(w, "reactivateVehicle")
    /\ SetStatus(w, "AVAILABLE")
    /\ Reply(w)
    /\ UNCHANGED <<row, featured, content, approved, active, refs>>

ReactivateVehicleWrite(w) ==
    /\ Serving(w, "reactivateVehicle")
    /\ SetStatus(w, "PENDING")
    /\ Reply(w)
    /\ UNCHANGED <<row, featured, content, approved, active, refs>>

MarkAsSoldRead(w, v, by) ==
    row[v] = "live" /\ Receive(w, "markAsSold", v, by)

MarkAsSoldWrite(w) ==
    /\ Serving(w, "markAsSold")
    /\ SetStatus(w, "SOLD")
    /\ Reply(w)
    /\ UNCHANGED <<row, featured, content, approved, active, refs>>

-----------------------------------------------------------------------------
(* The administrators' endpoints.                                          *)

UpdateListingStatusRead(w, v) ==
    row[v] = "live" /\ Receive(w, "updateListingStatus", v, "admin")

\* From any status; the administrator has judged the version that was read.
UpdateListingStatusWrite(w) ==
    LET v == lreq[w].on
    IN  /\ Serving(w, "updateListingStatus")
        /\ \/ /\ SetStatus(w, "AVAILABLE")
              /\ approved' = [approved EXCEPT ![v] = lreq[w].rev]
              /\ UNCHANGED featured
           \/ /\ \E status \in {"REJECTED", "DEACTIVATED"} : SetStatus(w, status)
              /\ featured' = [featured EXCEPT ![v] = FALSE]
              /\ UNCHANGED approved
        /\ Reply(w)
        /\ UNCHANGED <<row, content, active, refs>>

ToggleFeaturedRead(w, v) ==
    row[v] = "live" /\ Receive(w, "toggleFeatured", v, "admin")

ToggleFeaturedWrite(w) ==
    /\ Serving(w, "toggleFeatured")
    /\ featured' = [featured EXCEPT ![lreq[w].on] = ~lreq[w].star]
    /\ Reply(w)
    /\ UNCHANGED <<vehicle, row, content, approved, active, refs>>

\* seen is not used: what the request has read is whether the seller is
\* active, and star keeps that.
SetUserStatusRead(w, s) ==
    /\ Idle(w)
    /\ "setUserStatus" \in ListingHandlers
    /\ lreq' = [lreq EXCEPT ![w] = [NoRequest EXCEPT !.at = "setUserStatus",
                       !.on = s, !.by = "admin", !.star = active[s]]]
    /\ UNCHANGED <<vehicle, row, featured, content, approved, active, refs>>

TakenDown(s) == LiveListings(s)

\* Deactivating takes the counted listings down in the same transaction;
\* reactivating restores none.
SetUserStatusWrite(w) ==
    LET s == lreq[w].on
    IN  /\ lreq[w].at = "setUserStatus"
        /\ \/ /\ lreq[w].star
              /\ active' = [active EXCEPT ![s] = FALSE]
              /\ vehicle' = [v \in Vehicles |->
                    IF v \in TakenDown(s) THEN "DEACTIVATED" ELSE vehicle[v]]
              /\ featured' = [v \in Vehicles |->
                    featured[v] /\ v \notin TakenDown(s)]
           \/ /\ ~lreq[w].star
              /\ active' = [active EXCEPT ![s] = TRUE]
              /\ UNCHANGED <<vehicle, featured>>
        /\ Reply(w)
        /\ UNCHANGED <<row, content, approved, refs>>

-----------------------------------------------------------------------------
(* A request that fails before its write, and the orders and offers that   *)
(* come to refer to a listing that is on the market (external here).       *)

Fail(w) ==
    /\ ~Idle(w)
    /\ Reply(w)
    /\ UNCHANGED <<vehicle, row, featured, content, approved, active, refs>>

Refer(v) ==
    /\ row[v] = "live"
    /\ vehicle[v] = "AVAILABLE"
    /\ refs' = refs \cup {v}
    /\ UNCHANGED <<vehicle, row, featured, content, approved, active, lreq>>

ListingStep ==
    \E w \in Editors :
        \/ \E v \in Vehicles :
              \/ CreateVehicleRead(w, v)
              \/ \E by \in {"seller", "admin"} :
                    \/ UpdateVehicleRead(w, v, by)
                    \/ DeleteVehicleRead(w, v, by)
                    \/ ReactivateVehicleRead(w, v, by)
                    \/ MarkAsSoldRead(w, v, by)
              \/ UpdateListingStatusRead(w, v)
              \/ ToggleFeaturedRead(w, v)
        \/ \E s \in Sellers : SetUserStatusRead(w, s)
        \/ CreateVehicleWrite(w)
        \/ UpdateVehicleWrite(w)
        \/ DeleteVehicleWrite(w)
        \/ ReactivateVehicleWrite(w)
        \/ MarkAsSoldWrite(w)
        \/ UpdateListingStatusWrite(w)
        \/ ToggleFeaturedWrite(w)
        \/ SetUserStatusWrite(w)
        \/ Fail(w)

LNext == ListingStep \/ \E v \in Vehicles : Refer(v)

LSpec == LInit /\ [][LNext]_lvars

-----------------------------------------------------------------------------
(* What holds however the requests interleave.                             *)

\* Nothing goes live that no administrator has ever approved, neither by
\* creation nor by an edit or a reactivation that races with anything.
AvailableWasApproved ==
    \A v \in Vehicles :
        row[v] = "live" /\ vehicle[v] = "AVAILABLE" => approved[v] > 0

(* What holds when requests are handled one at a time.                     *)

\* What the public sees has been approved as it is: 'A seller editing their
\* listing must go back through admin approval'.
ContentApproved ==
    \A v \in Vehicles :
        row[v] = "live" /\ vehicle[v] = "AVAILABLE" => approved[v] = content[v]

\* 'A SOLD sale is finished and is never resurrected' by an edit.
SoldSurvives ==
    \A v \in Vehicles, w \in Editors :
         /\ lreq[w].at = "updateVehicle" /\ lreq[w].on = v
         /\ lreq'[w].at = "idle" /\ vehicle[v] = "SOLD"
         => vehicle'[v] = "SOLD"

\* Only a listing that is off the market is wiped with its conversations:
\* 'Live listings are soft-closed (chats kept)'.
WipesClosed ==
    \A v \in Vehicles :
         row[v] = "live" /\ row'[v] = "gone" => vehicle[v] \in Closed

\* While a seller is suspended, only an administrator brings a listing of
\* theirs back to the queue or the market.
ListsWhileActive ==
    \A v \in Vehicles :
         /\ ~active'[ownerOf[v]]
         /\ vehicle'[v] \in Counted /\ row'[v] = "live"
         => \/ vehicle[v] = vehicle'[v] /\ row[v] = "live" /\ ~active[ownerOf[v]]
            \/ \E w \in Editors : /\ lreq[w].by = "admin" /\ lreq[w].on = v
                                  /\ lreq'[w].at = "idle"

\* A listing that is closed, sold or suspended leaves that state only in the
\* ways the three say.
ListingsStayClosed == [][SoldSurvives /\ WipesClosed /\ ListsWhileActive]_lvars

\* The listing limit of the plan.
WithinLimit ==
    \A s \in Sellers : Cardinality(LiveListings(s)) <= ListingLimit[s]
=============================================================================

------------------------- MODULE MarketplaceProofs -------------------------
(***************************************************************************)
(* Theorems about Marketplace: what Purchases keeps it keeps while sellers *)
(* and administrators write the same Vehicle.status, for every number of   *)
(* orders, cars, sellers and requests of either kind.                      *)
(***************************************************************************)
EXTENDS Marketplace, PurchasesProofs

LP == INSTANCE ListingsProofs
        WITH Sellers <- sellers, ownerOf <- sellerOf, refs <- ordered

-----------------------------------------------------------------------------
(* However the requests interleave.                                        *)

\* Marketplace and the theorems about Listings each have an instance of
\* Listings; what one calls a step the other does.
LEMMA SameParts ==
    ASSUME NEW w, NEW e, NEW v, NEW b
    PROVE  /\ L!Idle(w) <=> LP!Idle(w)
           /\ L!Receive(w, e, v, b) <=> LP!Receive(w, e, v, b)
           /\ L!Reply(w) <=> LP!Reply(w)
           /\ L!Serving(w, e) <=> LP!Serving(w, e)
           /\ L!SetStatus(w, e) <=> LP!SetStatus(w, e)
           /\ L!NextStatus(w) = LP!NextStatus(w)
           /\ L!SoftClose(w) <=> LP!SoftClose(w)
           /\ L!Wipe(w) <=> LP!Wipe(w)
           /\ L!Closed = LP!Closed /\ L!NoRequest = LP!NoRequest
           /\ L!LiveListings(v) = LP!LiveListings(v)
           /\ L!TakenDown(v) = LP!TakenDown(v)
  <1>1. L!Idle(w) <=> LP!Idle(w)
    BY DEF L!Idle, LP!Idle
  <1>2. L!NoRequest = LP!NoRequest /\ L!Closed = LP!Closed
    BY DEF L!NoRequest, LP!NoRequest, L!Closed, LP!Closed
  <1>3. L!Receive(w, e, v, b) <=> LP!Receive(w, e, v, b)
    BY <1>1 DEF L!Receive, LP!Receive
  <1>4. L!Reply(w) <=> LP!Reply(w)
    BY <1>2 DEF L!Reply, LP!Reply
  <1>5. /\ L!Serving(w, e) <=> LP!Serving(w, e)
        /\ L!SetStatus(w, e) <=> LP!SetStatus(w, e)
    BY DEF L!Serving, LP!Serving, L!SetStatus, LP!SetStatus
  <1>6. L!NextStatus(w) = LP!NextStatus(w)
    BY DEF L!NextStatus, LP!NextStatus
  <1>7. L!SoftClose(w) <=> LP!SoftClose(w)
    BY DEF L!SoftClose, LP!SoftClose, L!SetStatus, LP!SetStatus
  <1>8. L!Wipe(w) <=> LP!Wipe(w)
    BY DEF L!Wipe, LP!Wipe
  <1>9. /\ L!LiveListings(v) = LP!LiveListings(v)
        /\ L!TakenDown(v) = LP!TakenDown(v)
    BY DEF L!LiveListings, LP!LiveListings, L!TakenDown, LP!TakenDown, L!Counted, LP!Counted
  <1> QED
    BY <1>1, <1>2, <1>3, <1>4, <1>5, <1>6, <1>7, <1>8, <1>9

LEMMA SameReads ==
    ASSUME NEW w, NEW v, NEW by
    PROVE  /\ L!CreateVehicleRead(w, v) => LP!CreateVehicleRead(w, v)
           /\ L!UpdateVehicleRead(w, v, by) => LP!UpdateVehicleRead(w, v, by)
           /\ L!DeleteVehicleRead(w, v, by) => LP!DeleteVehicleRead(w, v, by)
           /\ L!ReactivateVehicleRead(w, v, by) => LP!ReactivateVehicleRead(w, v, by)
           /\ L!MarkAsSoldRead(w, v, by) => LP!MarkAsSoldRead(w, v, by)
           /\ L!UpdateListingStatusRead(w, v) => LP!UpdateListingStatusRead(w, v)
           /\ L!ToggleFeaturedRead(w, v) => LP!ToggleFeaturedRead(w, v)
           /\ L!SetUserStatusRead(w, v) => LP!SetUserStatusRead(w, v)
  <1>1. L!CreateVehicleRead(w, v) => LP!CreateVehicleRead(w, v)
    <2>1. L!LiveListings(sellerOf[v]) = LP!LiveListings(sellerOf[v])
      BY SameParts
    <2>2. L!Receive(w, "createVehicle", v, "seller")
             <=> LP!Receive(w, "createVehicle", v, "seller")
      BY SameParts
    <2>3. \A S : L!Cardinality(S) = LP!Cardinality(S)
      BY DEF L!Cardinality, LP!Cardinality
    <2> QED
      BY <2>1, <2>2, <2>3 DEF L!CreateVehicleRead, LP!CreateVehicleRead
  <1>2. L!UpdateVehicleRead(w, v, by) => LP!UpdateVehicleRead(w, v, by)
    BY SameParts DEF L!UpdateVehicleRead, LP!UpdateVehicleRead
  <1>3. L!DeleteVehicleRead(w, v, by) => LP!DeleteVehicleRead(w, v, by)
    BY SameParts DEF L!DeleteVehicleRead, LP!DeleteVehicleRead
  <1>4. L!ReactivateVehicleRead(w, v, by) => LP!ReactivateVehicleRead(w, v, by)
    BY SameParts DEF L!ReactivateVehicleRead, LP!ReactivateVehicleRead
  <1>5. L!MarkAsSoldRead(w, v, by) => LP!MarkAsSoldRead(w, v, by)
    BY SameParts DEF L!MarkAsSoldRead, LP!MarkAsSoldRead
  <1>6. L!UpdateListingStatusRead(w, v) => LP!UpdateListingStatusRead(w, v)
    BY SameParts DEF L!UpdateListingStatusRead, LP!UpdateListingStatusRead
  <1>7. L!ToggleFeaturedRead(w, v) => LP!ToggleFeaturedRead(w, v)
    BY SameParts DEF L!ToggleFeaturedRead, LP!ToggleFeaturedRead
  <1>8. L!SetUserStatusRead(w, v) => LP!SetUserStatusRead(w, v)
    BY SameParts DEF L!SetUserStatusRead, LP!SetUserStatusRead
  <1> QED
    BY <1>1, <1>2, <1>3, <1>4, <1>5, <1>6, <1>7, <1>8

LEMMA SameWrites ==
    ASSUME NEW w
    PROVE  /\ L!CreateVehicleWrite(w) => LP!CreateVehicleWrite(w)
           /\ L!UpdateVehicleWrite(w) => LP!UpdateVehicleWrite(w)
           /\ L!DeleteVehicleWrite(w) => LP!DeleteVehicleWrite(w)
           /\ L!ReactivateVehicleWrite(w) => LP!ReactivateVehicleWrite(w)
           /\ L!MarkAsSoldWrite(w) => LP!MarkAsSoldWrite(w)
           /\ L!UpdateListingStatusWrite(w) => LP!UpdateListingStatusWrite(w)
           /\ L!ToggleFeaturedWrite(w) => LP!ToggleFeaturedWrite(w)
           /\ L!SetUserStatusWrite(w) => LP!SetUserStatusWrite(w)
           /\ L!Fail(w) => LP!Fail(w)
  <1>1. L!CreateVehicleWrite(w) => LP!CreateVehicleWrite(w)
    BY SameParts DEF L!CreateVehicleWrite, LP!CreateVehicleWrite
  <1>2. L!UpdateVehicleWrite(w) => LP!UpdateVehicleWrite(w)
    BY SameParts DEF L!UpdateVehicleWrite, LP!UpdateVehicleWrite
  <1>3. L!DeleteVehicleWrite(w) => LP!DeleteVehicleWrite(w)
    BY SameParts DEF L!DeleteVehicleWrite, LP!DeleteVehicleWrite
  <1>4. L!ReactivateVehicleWrite(w) => LP!ReactivateVehicleWrite(w)
    BY SameParts DEF L!ReactivateVehicleWrite, LP!ReactivateVehicleWrite
  <1>5. L!MarkAsSoldWrite(w) => LP!MarkAsSoldWrite(w)
    BY SameParts DEF L!MarkAsSoldWrite, LP!MarkAsSoldWrite
  <1>6. L!UpdateListingStatusWrite(w) => LP!UpdateListingStatusWrite(w)
    BY SameParts DEF L!UpdateListingStatusWrite, LP!UpdateListingStatusWrite
  <1>7. L!ToggleFeaturedWrite(w) => LP!ToggleFeaturedWrite(w)
    BY SameParts DEF L!ToggleFeaturedWrite, LP!ToggleFeaturedWrite
  <1>8. L!SetUserStatusWrite(w) => LP!SetUserStatusWrite(w)
    BY SameParts DEF L!SetUserStatusWrite, LP!SetUserStatusWrite
  <1>9. L!Fail(w) => LP!Fail(w)
    BY SameParts DEF L!Fail, LP!Fail
  <1> QED
    BY <1>1, <1>2, <1>3, <1>4, <1>5, <1>6, <1>7, <1>8, <1>9

LEMMA SameStep == L!ListingStep => LP!ListingStep
  BY SameReads, SameWrites DEF L!ListingStep, LP!ListingStep

\* Beside what each workflow relies on: an administrator judges a listing,
\* and every listing has been on the market.
JudgeInv ==
    \A e \in Editors : lreq[e].at = "updateListingStatus" => lreq[e].by = "admin"

WasApproved == \A v \in Vehicles : content[v] > 0 /\ approved[v] > 0

MInv == IInv /\ LP!LInv /\ JudgeInv /\ WasApproved

LEMMA MInvInit == MInit => MInv
  <1> SUFFICES ASSUME MInit PROVE MInv
    OBVIOUS
  <1>1. IInv
    BY InitInv DEF MInit
  <1>2. L!NoRequest = LP!NoRequest /\ LP!NoRequest \in LP!ListingRequest
        /\ LP!NoRequest.at = "idle"
    BY SameParts, LP!NoRequestType
  <1>3. /\ row = [v \in Vehicles |-> "live"]
        /\ featured = [v \in Vehicles |-> FALSE]
        /\ content = [v \in Vehicles |-> 1]
        /\ approved = [v \in Vehicles |-> 1]
        /\ active = [s \in sellers |-> TRUE]
        /\ lreq = [w \in Editors |-> LP!NoRequest]
        /\ vehicle = [v \in Vehicles |-> "AVAILABLE"]
    BY <1>2 DEF MInit, MListings, Init
  <1>4. \A w \in Editors : lreq[w].at = "idle"
    BY <1>2, <1>3
  <1>5. LP!LTypeOK
    BY <1>2, <1>3 DEF LP!LTypeOK, LP!ListingStatus, ordered
  <1>6. LP!OnInv /\ LP!SeenInv /\ JudgeInv
    BY <1>4 DEF LP!OnInv, LP!SeenInv, JudgeInv, LP!OnListing, LP!AllEndpoints,
                LP!SellerEndpoints, LP!AdminEndpoints
  <1>7. LP!LiveInv /\ WasApproved
    BY <1>3 DEF LP!LiveInv, WasApproved
  <1> QED
    BY <1>1, <1>5, <1>6, <1>7 DEF MInv, LP!LInv

\* A step of the purchase workflow.
LEMMA MPurchase ==
    ASSUME MInv, PurchaseStep
    PROVE  MInv'
  <1>1. IInv'
    BY NextInv DEF MInv, PurchaseStep
  <1>2. UNCHANGED <<row, featured, content, approved, active, lreq>>
    BY DEF PurchaseStep, listingOnly
  <1>3. vehicle' \in [Vehicles -> LP!ListingStatus]
    BY <1>1 DEF IInv, TypeOK, VehicleStatus, LP!ListingStatus
  <1>4. LP!LTypeOK'
    BY <1>2, <1>3 DEF MInv, LP!LInv, LP!LTypeOK, ordered
  <1>5. LP!OnInv' /\ LP!SeenInv' /\ JudgeInv' /\ WasApproved'
    BY <1>2 DEF MInv, LP!LInv, LP!OnInv, LP!SeenInv, JudgeInv, WasApproved
  <1>6. LP!LiveInv'
    BY <1>5 DEF LP!LiveInv, WasApproved
  <1> QED
    BY <1>1, <1>4, <1>5, <1>6 DEF MInv, LP!LInv

\* Of a listing request the purchase workflow sees the status only.
LEMMA SellerOrders ==
    ASSUME IInv, LP!LTypeOK', SellerStep
    PROVE  IInv'
  <1>1. UNCHANGED <<orders, offers, paystack, req, effects>>
    BY DEF SellerStep
  <1>2. vehicle' \in [Vehicles -> VehicleStatus]
    BY DEF LP!LTypeOK, LP!ListingStatus, VehicleStatus
  <1> QED
    <2>1. TypeOK'
      BY <1>1, <1>2 DEF IInv, TypeOK
    <2>2. BusyHasOrder' /\ AllRowsInv'
      BY <1>1 DEF IInv, BusyHasOrder, AllRowsInv, At
    <2>3. AllRelyInv'
      BY <1>1 DEF IInv, AllRelyInv, At
    <2>4. ExclusionInv'
      BY <1>1 DEF IInv, ExclusionInv, At
    <2>5. ReceiptInv'
      BY <1>1 DEF IInv, ReceiptInv, At
    <2> QED
      BY <2>1, <2>2, <2>3, <2>4, <2>5 DEF IInv

\* The steps of the listing endpoints.
LEMMA SellerStepIs ==
    ASSUME SellerStep
    PROVE  \E w \in Editors :
        \/ \E v \in Vehicles, endpoint \in LP!OnListing, by \in {"seller", "admin"} :
              LP!ReadsListing(w, endpoint, v, by)
        \/ \E s \in sellers : LP!SetUserStatusRead(w, s)
        \/ LP!CreateVehicleWrite(w) \/ LP!UpdateVehicleWrite(w)
        \/ LP!DeleteVehicleWrite(w) \/ LP!ReactivateVehicleWrite(w)
        \/ LP!MarkAsSoldWrite(w) \/ LP!UpdateListingStatusWrite(w)
        \/ LP!ToggleFeaturedWrite(w) \/ LP!SetUserStatusWrite(w) \/ LP!Fail(w)
  BY SameStep, LP!StepsAre DEF SellerStep

LEMMA SellerReplies ==
    ASSUME NEW w \in Editors,
           \/ LP!CreateVehicleWrite(w) \/ LP!UpdateVehicleWrite(w)
           \/ LP!DeleteVehicleWrite(w) \/ LP!ReactivateVehicleWrite(w)
           \/ LP!MarkAsSoldWrite(w) \/ LP!UpdateListingStatusWrite(w)
           \/ LP!ToggleFeaturedWrite(w) \/ LP!SetUserStatusWrite(w) \/ LP!Fail(w)
    PROVE  LP!Reply(w)
  BY DEF LP!CreateVehicleWrite, LP!UpdateVehicleWrite, LP!DeleteVehicleWrite,
         LP!ReactivateVehicleWrite, LP!MarkAsSoldWrite, LP!UpdateListingStatusWrite,
         LP!ToggleFeaturedWrite, LP!SetUserStatusWrite, LP!Fail

LEMMA SellerJudges ==
    ASSUME MInv, SellerStep
    PROVE  JudgeInv'
  <1>1. LP!LTypeOK
    BY DEF MInv, LP!LInv
  <1>2. ASSUME NEW w \in Editors, LP!Reply(w) PROVE JudgeInv'
    BY <1>1, <1>2, LP!ReplyFacts DEF MInv, JudgeInv
  <1>3. ASSUME NEW w \in Editors, NEW v \in Vehicles, NEW endpoint \in LP!OnListing,
               NEW by \in {"seller", "admin"}, LP!ReadsListing(w, endpoint, v, by)
        PROVE  JudgeInv'
    BY <1>1, <1>3, LP!ReceiveFacts DEF LP!ReadsListing, MInv, JudgeInv
  <1>4. ASSUME NEW w \in Editors, NEW s \in sellers, LP!SetUserStatusRead(w, s)
        PROVE  JudgeInv'
    BY <1>1, <1>4, LP!SuspendReadFacts DEF MInv, JudgeInv
  <1> QED
    BY <1>2, <1>3, <1>4, SellerStepIs, SellerReplies

LEMMA SellerApproved ==
    ASSUME MInv, SellerStep
    PROVE  WasApproved'
  <1>1. /\ content \in [Vehicles -> Nat] /\ approved \in [Vehicles -> Nat]
        /\ \A w \in Editors : lreq[w].at = "updateListingStatus" => lreq[w].rev > 0
    BY DEF MInv, LP!LInv, LP!LTypeOK, LP!SeenInv
  <1>2. CASE UNCHANGED <<content, approved>>
    BY <1>2 DEF MInv, WasApproved
  <1>3. ASSUME NEW w \in Editors, LP!CreateVehicleWrite(w) PROVE WasApproved'
    BY <1>1, <1>3 DEF LP!CreateVehicleWrite, MInv, WasApproved
  <1>4. ASSUME NEW w \in Editors, LP!UpdateVehicleWrite(w) PROVE WasApproved'
    BY <1>1, <1>2, <1>4 DEF LP!UpdateVehicleWrite, MInv, WasApproved
  <1>5. ASSUME NEW w \in Editors, LP!UpdateListingStatusWrite(w) PROVE WasApproved'
    BY <1>1, <1>2, <1>5
       DEF LP!UpdateListingStatusWrite, LP!Serving, MInv, WasApproved
  <1>6. ASSUME NEW w \in Editors,
               \/ \E v \in Vehicles, endpoint \in LP!OnListing, by \in {"seller", "admin"} :
                     LP!ReadsListing(w, endpoint, v, by)
               \/ \E s \in sellers : LP!SetUserStatusRead(w, s)
               \/ LP!DeleteVehicleWrite(w) \/ LP!ReactivateVehicleWrite(w)
               \/ LP!MarkAsSoldWrite(w) \/ LP!ToggleFeaturedWrite(w)
               \/ LP!SetUserStatusWrite(w) \/ LP!Fail(w)
        PROVE  UNCHANGED <<content, approved>>
    BY <1>6 DEF LP!ReadsListing, LP!Receive, LP!SetUserStatusRead, LP!DeleteVehicleWrite,
        LP!ReactivateVehicleWrite, LP!MarkAsSoldWrite, LP!ToggleFeaturedWrite,
        LP!SetUserStatusWrite, LP!Fail
  <1> QED
    BY <1>2, <1>3, <1>4, <1>5, <1>6, SellerStepIs

LEMMA MInvNext == MInv /\ [MNext]_mvars => MInv'
  <1> SUFFICES ASSUME MInv, [MNext]_mvars PROVE MInv'
    OBVIOUS
  <1>1. CASE PurchaseStep
    BY <1>1, MPurchase
  <1>2. CASE SellerStep
    <2>1. LP!LInv'
      BY <1>2, SameStep, LP!LInvNext DEF SellerStep, LP!LNext, MInv
    <2>2. IInv'
      BY <1>2, <2>1, SellerOrders DEF MInv, LP!LInv
    <2> QED
      BY <1>2, <2>1, <2>2, SellerJudges, SellerApproved DEF MInv
  <1>3. CASE UNCHANGED mvars
    <2>0. UNCHANGED vars /\ UNCHANGED listingOnly
      BY <1>3 DEF mvars
    <2>1. UNCHANGED <<vehicle, orders, row, featured, content, approved, active, lreq>>
      BY <2>0 DEF vars, db, listingOnly
    <2>4. IInv'
      BY <2>0, NextInv DEF MInv
    <2>2. LP!LTypeOK'
      BY <2>1 DEF MInv, LP!LInv, LP!LTypeOK, ordered
    <2>3. LP!OnInv' /\ LP!SeenInv' /\ LP!LiveInv' /\ JudgeInv' /\ WasApproved'
      BY <2>1 DEF MInv, LP!LInv, LP!OnInv, LP!SeenInv, LP!LiveInv, JudgeInv, WasApproved
    <2> QED
      BY <2>2, <2>3, <2>4 DEF MInv, LP!LInv
  <1> QED
    BY <1>1, <1>2, <1>3 DEF MNext

LEMMA MInvAlways == MSpec => []MInv
  BY MInvInit, MInvNext, PTL DEF MSpec

\* Whatever sellers and administrators do to a car, the money of the orders on it
\* goes where the purchase workflow sends it: payouts, verdicts, receipts and
\* cash are as in Purchases alone, because no handler of an order decides about
\* money by Vehicle.status.
THEOREM MarketMoney ==
    MSpec => [](PayoutFollowsEscrow /\ VerdictStands /\ ReceiptOnce /\ CashStaysOutside)
  <1>1. IInv => PayoutFollowsEscrow
    BY DEF IInv, AllRowsInv, RowInv, PayoutFollowsEscrow
  <1>2. IInv => VerdictStands
    BY DEF IInv, AllRowsInv, RowInv, VerdictStands
  <1>3. IInv => ReceiptOnce
    BY DEF IInv, ReceiptInv, ReceiptOnce
  <1>4. IInv => CashStaysOutside
    BY DEF IInv, AllRowsInv, RowInv, CashStaysOutside, TransferRails
  <1>5. MInv => IInv
    BY DEF MInv
  <1> QED
    BY <1>1, <1>2, <1>3, <1>4, <1>5, MInvAlways, PTL

\* A listing request moves no row of the purchase table.
LEMMA MarketMoves ==
    ASSUME MInv, [MNext]_mvars
    PROVE  RowMoves
  <1>1. CASE [Next]_vars
    BY <1>1, NextMoves DEF MInv
  <1>2. CASE UNCHANGED orders
    BY <1>2 DEF RowMoves, Kept
  <1>3. UNCHANGED mvars => UNCHANGED vars
    BY DEF mvars
  <1> QED
    BY <1>1, <1>2, <1>3 DEF MNext, PurchaseStep, SellerStep

\* No request of either workflow reopens a settled order.
THEOREM MarketSettled == MSpec => SettledIsFinal
  <1>1. MInv /\ [MNext]_mvars =>
           [\A o \in Orders : orders[o].status \in Settled
                => orders'[o].status = orders[o].status]_vars
    <2> SUFFICES ASSUME MInv, [MNext]_mvars, NEW o \in Orders,
                        orders[o].status \in Settled
                 PROVE  orders'[o].status = orders[o].status
      OBVIOUS
    <2>1. Kept(orders[o], orders'[o]) \/ Moved(orders[o], orders'[o])
      BY MarketMoves DEF RowMoves, Kept
    <2> QED
      BY <2>1 DEF Kept, Moved, Settled, Open, Unpaid, Confirmed
  <1> QED
    BY <1>1, MInvAlways, PTL DEF MSpec, SettledIsFinal

\* The purchase table beside the listing endpoints still implements the
\* ledger: an order's money enters escrow once and is awarded once.
THEOREM MarketLedger == MSpec => ImplementsLedger
  <1>1. MInit => Ledger!LedgerInit
    <2> SUFFICES ASSUME MInit, NEW o \in Orders PROVE MoneyOf(o) = "none"
      BY DEF Ledger!LedgerInit
    <2>1. ~orders[o].paid
      BY DEF MInit, Init, Row
    <2> QED
      BY <2>1 DEF MoneyOf
  <1>2. MInv /\ MInv' /\ [MNext]_mvars =>
           [Ledger!LedgerNext]_[o \in Orders |-> MoneyOf(o)]
    BY MarketMoves, LedgerStep DEF MInv
  <1> QED
    BY <1>1, <1>2, MInvAlways, PTL DEF MSpec, ImplementsLedger, Ledger!LedgerSpec

-----------------------------------------------------------------------------
(* Back on the market.                                                     *)

\* Of the listing endpoints only an administrator's puts a car on the market.
LEMMA SellerBack ==
    ASSUME MInv, SellerStep, NEW v \in Vehicles,
           vehicle[v] # "AVAILABLE", vehicle'[v] = "AVAILABLE"
    PROVE  AdminActsOn(v)
  <1>1. /\ LP!LTypeOK /\ JudgeInv
        /\ vehicle \in [Vehicles -> LP!ListingStatus]
        /\ lreq \in [Editors -> LP!ListingRequest]
    BY DEF MInv, LP!LInv, LP!LTypeOK
  <1>2. ASSUME NEW w \in Editors, NEW status, LP!SetStatus(w, status),
               status = "AVAILABLE" => lreq[w].by = "admin"
        PROVE  AdminActsOn(v)
    BY <1>1, <1>2 DEF LP!SetStatus, AdminActsOn
  <1>3. ASSUME NEW w \in Editors, LP!UpdateVehicleWrite(w) PROVE AdminActsOn(v)
    <2>1. lreq[w].by \in {"seller", "admin"}
      BY <1>1 DEF LP!ListingRequest
    <2>2. LP!NextStatus(w) = "AVAILABLE" => lreq[w].by = "admin"
      BY <2>1 DEF LP!NextStatus
    <2> QED
      BY <1>2, <1>3, <2>2 DEF LP!UpdateVehicleWrite
  <1>4. ASSUME NEW w \in Editors, LP!UpdateListingStatusWrite(w) PROVE AdminActsOn(v)
    BY <1>1, <1>2, <1>4 DEF LP!UpdateListingStatusWrite, LP!Serving, JudgeInv
  <1>5. ASSUME NEW w \in Editors, LP!SetUserStatusWrite(w) PROVE vehicle'[v] # "AVAILABLE"
    <2>1. CASE UNCHANGED vehicle
      BY <2>1
    <2>2. CASE /\ vehicle' = [x \in Vehicles |->
                    IF x \in LP!TakenDown(lreq[w].on) THEN "DEACTIVATED" ELSE vehicle[x]]
      BY <2>2
    <2> QED
      BY <1>5, <2>1, <2>2 DEF LP!SetUserStatusWrite
  <1>6. ASSUME NEW w \in Editors,
               \/ LP!CreateVehicleWrite(w) \/ LP!ReactivateVehicleWrite(w)
               \/ LP!MarkAsSoldWrite(w)
        PROVE  AdminActsOn(v)
    BY <1>2, <1>6 DEF LP!CreateVehicleWrite, LP!ReactivateVehicleWrite, LP!MarkAsSoldWrite
  <1>7. ASSUME NEW w \in Editors, LP!DeleteVehicleWrite(w) PROVE AdminActsOn(v)
    BY <1>2, <1>7 DEF LP!DeleteVehicleWrite, LP!Wipe, LP!SoftClose
  <1>8. ASSUME NEW w \in Editors,
               \/ \E x \in Vehicles, endpoint \in LP!OnListing, by \in {"seller", "admin"} :
                     LP!ReadsListing(w, endpoint, x, by)
               \/ \E s \in sellers : LP!SetUserStatusRead(w, s)
               \/ LP!ToggleFeaturedWrite(w) \/ LP!Fail(w)
        PROVE  UNCHANGED vehicle
    BY <1>8 DEF LP!ReadsListing, LP!Receive, LP!SetUserStatusRead, LP!ToggleFeaturedWrite,
        LP!Fail
  <1> QED
    BY <1>3, <1>4, <1>5, <1>6, <1>7, <1>8, SellerStepIs

\* A listing that its seller has closed, sold or edited, or that was taken
\* down, is not brought back by an order that ends, however stale the status
\* is that a request has read: only by an administrator, or with a refund.
THEOREM StaysOffCorrect == MSpec => OffMarketStaysOff
  <1>1. MInv /\ [MNext]_mvars => [StaysOff]_mvars
    <2> SUFFICES ASSUME MInv, MNext, NEW v \in Vehicles,
                        vehicle[v] \notin {"AVAILABLE", "RESERVED"},
                        vehicle'[v] = "AVAILABLE"
                 PROVE  AdminActsOn(v) \/ RefundedNow(v)
      BY DEF StaysOff
    <2>1. CASE PurchaseStep
      BY <2>1, NextVehicles DEF PurchaseStep, MInv, VehicleMove, Refunds, RefundedNow
    <2>2. CASE SellerStep
      BY <2>2, SellerBack
    <2> QED
      BY <2>1, <2>2 DEF MNext
  <1> QED
    BY <1>1, MInvAlways, PTL DEF MSpec, OffMarketStaysOff

-----------------------------------------------------------------------------
(* One request at a time over both workflows.                              *)

OneAnywhere ==
    /\ OneRequest
    /\ \A e, f \in Editors : lreq[e].at # "idle" /\ lreq[f].at # "idle" => e = f
    /\ OneAtATime

\* The status an edit has read, and will write back, is still the car's.
SeenNow ==
    \A e \in Editors :
        lreq[e].at = "updateVehicle" => lreq[e].seen = vehicle[lreq[e].on]

\* Only a request in flight is served.
LEMMA ServeBusy ==
    ASSUME NEW w \in Workers, Serve(w)
    PROVE  ~At(w, "idle")
  BY DEF Serve, At, Writing, DupCheck, OfferRead, InitiatePurchaseCommit, OnEscrowFunded,
      VerifyPurchasePaymentWrite, VerifyPurchaseWrite, PaystackWebhookWrite,
      ClaimPaymentWrite, RejectPurchasePaymentWrite, SellerHandoverWrite,
      OpenDisputeWrite, ResolveDisputeWrite, ConfirmReceivedWrite, ConfirmHandoverWrite,
      SellerCollectedWrite, ReleasePayoutWrite, CancelClaim, CancelCommit, SelectClear,
      SelectCommit, CancelStages, Update

LEMMA SellerBusy ==
    ASSUME NEW w \in Editors,
           \/ LP!CreateVehicleWrite(w) \/ LP!UpdateVehicleWrite(w)
           \/ LP!DeleteVehicleWrite(w) \/ LP!ReactivateVehicleWrite(w)
           \/ LP!MarkAsSoldWrite(w) \/ LP!UpdateListingStatusWrite(w)
           \/ LP!ToggleFeaturedWrite(w) \/ LP!SetUserStatusWrite(w) \/ LP!Fail(w)
    PROVE  lreq[w].at # "idle"
  BY DEF LP!CreateVehicleWrite, LP!UpdateVehicleWrite, LP!DeleteVehicleWrite,
         LP!ReactivateVehicleWrite, LP!MarkAsSoldWrite, LP!UpdateListingStatusWrite,
         LP!ToggleFeaturedWrite, LP!SetUserStatusWrite, LP!Fail, LP!Serving, LP!Idle

\* While a listing request is in flight no order moves a car.
LEMMA PurchaseSeen ==
    ASSUME MInv, SeenNow, OneAnywhere, OneAnywhere', PurchaseStep
    PROVE  SeenNow'
  <1>1. UNCHANGED lreq
    BY DEF PurchaseStep, listingOnly
  <1>2. ASSUME NEW e \in Editors, lreq[e].at # "idle" PROVE UNCHANGED vehicle
    <2>1. \A w \in Workers : At(w, "idle") /\ req'[w].at = "idle"
      BY <1>1, <1>2 DEF OneAnywhere, OneAtATime, At
    <2>2. ASSUME NEW w \in Workers, Arrive(w) PROVE UNCHANGED vehicle
      BY <2>2 DEF db, Arrive, Begin,
          InitiatePurchaseRead, VerifyPurchasePaymentRead, VerifyPurchaseRead,
          PaystackWebhookRead, ClaimPaymentRead, RejectPurchasePaymentRead,
          SellerHandoverRead, OpenDisputeRead, ResolveDisputeRead,
          ConfirmReceivedRead, ConfirmHandoverRead, SellerCollectedRead,
          ReleasePayoutRead, CancelPurchaseRead, SelectBuyerRead
    <2>3. ASSUME NEW w \in Workers, Serve(w) PROVE FALSE
      BY <2>1, <2>3, ServeBusy
    <2> QED
      BY <2>2, <2>3
         DEF db, PurchaseStep, Next, Abandon, InitializePurchasePayment, PaystackCharge
  <1> QED
    BY <1>1, <1>2 DEF SeenNow

LEMMA SellerSeen ==
    ASSUME MInv, SeenNow, OneAnywhere, SellerStep
    PROVE  SeenNow'
  <1>1. LP!LTypeOK
    BY DEF MInv, LP!LInv
  <1>2. ASSUME NEW w \in Editors, lreq[w].at # "idle", LP!Reply(w) PROVE SeenNow'
    <2>1. \A e \in Editors : lreq'[e].at = "idle"
      BY <1>1, <1>2, LP!ReplyFacts DEF OneAnywhere
    <2> QED
      BY <2>1 DEF SeenNow
  <1>3. ASSUME NEW w \in Editors, NEW v \in Vehicles, NEW endpoint \in LP!OnListing,
               NEW by \in {"seller", "admin"}, LP!ReadsListing(w, endpoint, v, by)
        PROVE  SeenNow'
    <2>1. UNCHANGED vehicle
      BY <1>3 DEF LP!ReadsListing, LP!Receive
    <2> QED
      BY <1>1, <1>3, <2>1, LP!ReceiveFacts DEF LP!ReadsListing, SeenNow
  <1>4. ASSUME NEW w \in Editors, NEW s \in sellers, LP!SetUserStatusRead(w, s)
        PROVE  SeenNow'
    <2>1. UNCHANGED vehicle
      BY <1>4 DEF LP!SetUserStatusRead
    <2> QED
      BY <1>1, <1>4, <2>1, LP!SuspendReadFacts DEF SeenNow
  <1> QED
    BY <1>2, <1>3, <1>4, SellerStepIs, SellerReplies, SellerBusy

\* No listing request reserves a car: an administrator's edit writes back
\* the status it has read.
LEMMA SellerReserves ==
    ASSUME MInv, SeenNow, SellerStep, NEW v \in Vehicles, vehicle'[v] = "RESERVED"
    PROVE  vehicle[v] = "RESERVED"
  <1>1. vehicle \in [Vehicles -> LP!ListingStatus]
    BY DEF MInv, LP!LInv, LP!LTypeOK
  <1>2. ASSUME NEW w \in Editors, NEW status, LP!SetStatus(w, status),
               status = "RESERVED" => vehicle[lreq[w].on] = "RESERVED"
        PROVE  vehicle[v] = "RESERVED"
    BY <1>1, <1>2 DEF LP!SetStatus
  <1>3. ASSUME NEW w \in Editors, LP!UpdateVehicleWrite(w) PROVE vehicle[v] = "RESERVED"
    <2>1. LP!NextStatus(w) = "RESERVED" => vehicle[lreq[w].on] = "RESERVED"
      BY <1>3 DEF LP!UpdateVehicleWrite, LP!Serving, LP!NextStatus, SeenNow
    <2> QED
      BY <1>2, <1>3, <2>1 DEF LP!UpdateVehicleWrite
  <1>4. ASSUME NEW w \in Editors, LP!UpdateListingStatusWrite(w)
        PROVE  vehicle[v] = "RESERVED"
    BY <1>2, <1>4 DEF LP!UpdateListingStatusWrite
  <1>5. ASSUME NEW w \in Editors, LP!SetUserStatusWrite(w) PROVE vehicle[v] = "RESERVED"
    <2>1. CASE vehicle' = [x \in Vehicles |->
                  IF x \in LP!TakenDown(lreq[w].on) THEN "DEACTIVATED" ELSE vehicle[x]]
      BY <2>1
    <2> QED
      BY <1>5, <2>1 DEF LP!SetUserStatusWrite
  <1>6. ASSUME NEW w \in Editors,
               \/ LP!CreateVehicleWrite(w) \/ LP!ReactivateVehicleWrite(w)
               \/ LP!MarkAsSoldWrite(w)
        PROVE  vehicle[v] = "RESERVED"
    BY <1>2, <1>6 DEF LP!CreateVehicleWrite, LP!ReactivateVehicleWrite, LP!MarkAsSoldWrite
  <1>7. ASSUME NEW w \in Editors, LP!DeleteVehicleWrite(w) PROVE vehicle[v] = "RESERVED"
    BY <1>2, <1>7 DEF LP!DeleteVehicleWrite, LP!Wipe, LP!SoftClose
  <1>8. ASSUME NEW w \in Editors,
               \/ \E x \in Vehicles, endpoint \in LP!OnListing, by \in {"seller", "admin"} :
                     LP!ReadsListing(w, endpoint, x, by)
               \/ \E s \in sellers : LP!SetUserStatusRead(w, s)
               \/ LP!ToggleFeaturedWrite(w) \/ LP!Fail(w)
        PROVE  UNCHANGED vehicle
    BY <1>8 DEF LP!ReadsListing, LP!Receive, LP!SetUserStatusRead, LP!ToggleFeaturedWrite,
        LP!Fail
  <1> QED
    BY <1>3, <1>4, <1>5, <1>6, <1>7, <1>8, SellerStepIs

\* A listing request leaves the orders what they rely on.
LEMMA SellerReads ==
    ASSUME MInv, ReadInv, OneAnywhere, SellerStep
    PROVE  ReadInv'
  <1>1. UNCHANGED <<orders, offers, req>>
    BY DEF SellerStep
  <1>2. CASE UNCHANGED vehicle
    BY <1>1, <1>2 DEF ReadInv, StillSo, Duplicates, Selected, MustFree, Siblings, At
  <1>3. ASSUME NEW e \in Editors, lreq[e].at # "idle" PROVE ReadInv'
    BY <1>1, <1>3 DEF OneAnywhere, OneAtATime, ReadInv, At
  <1> QED
    BY <1>2, <1>3, SellerStepIs, SellerBusy
       DEF LP!ReadsListing, LP!Receive, LP!SetUserStatusRead

LEMMA SellerTables ==
    ASSUME MInv, SeenNow, TablesInv, SellerStep
    PROVE  TablesInv'
  <1>1. UNCHANGED <<orders, offers, effects>>
    BY DEF SellerStep
  <1>2. ReservationHasHolder'
    BY <1>1, SellerReserves DEF TablesInv, ReservationHasHolder
  <1> QED
    BY <1>1, <1>2 DEF TablesInv, DisputeIsOnEscrow, SentInv, OneOpenOrderPerBuyer,
       OneChosenBuyer, UsedInv, AgreedPriceUsedOnce

\* Handled one at a time, also the requests of sellers and administrators
\* leave the orders what their checks promise: among it that a RESERVED car
\* has a holder, though an edit writes a whole row back and a suspension takes
\* cars off the market without looking at their orders.
THEOREM MarketOneByOne ==
    ASSUME OldOrdersDiffer
    PROVE  MSpec /\ []OneAnywhere => []OrdersOneByOne
  <1>1. MInit => ReadInv /\ TablesInv /\ SeenNow
    <2> SUFFICES ASSUME MInit PROVE SeenNow
      BY InitTables DEF MInit
    <2>1. \A e \in Editors : lreq[e].at = "idle"
      BY SameParts, LP!NoRequestType DEF MInit, MListings
    <2> QED
      BY <2>1 DEF SeenNow
  <1>2. MInv /\ ReadInv /\ TablesInv /\ SeenNow /\ OneAnywhere /\ OneAnywhere' /\ [MNext]_mvars
            => ReadInv' /\ TablesInv' /\ SeenNow'
    <2> SUFFICES ASSUME MInv, ReadInv, TablesInv, SeenNow, OneAnywhere, OneAnywhere',
                        [MNext]_mvars
                 PROVE  ReadInv' /\ TablesInv' /\ SeenNow'
      OBVIOUS
    <2>1. CASE PurchaseStep
      BY <2>1, NextReads, NextTables, PurchaseSeen DEF PurchaseStep, MInv, OneAnywhere
    <2>2. CASE SellerStep
      BY <2>2, SellerReads, SellerTables, SellerSeen
    <2>3. CASE UNCHANGED mvars
      <3>1. UNCHANGED vars /\ UNCHANGED listingOnly
        BY <2>3 DEF mvars
      <3>2. ReadInv' /\ TablesInv'
        BY <3>1, NextReads, NextTables DEF MInv, OneAnywhere
      <3>3. UNCHANGED <<vehicle, lreq>>
        BY <3>1 DEF vars, db, listingOnly
      <3> QED
        BY <3>2, <3>3 DEF SeenNow
    <2> QED
      BY <2>1, <2>2, <2>3 DEF MNext
  <1>3. MInv /\ TablesInv => OrdersOneByOne
    <2> SUFFICES ASSUME MInv, TablesInv PROVE OrdersOneByOne
      OBVIOUS
    <2>1. PayoutSentOnce
      BY DEF TablesInv, SentInv, PayoutSentOnce
    <2> QED
      BY <2>1 DEF TablesInv, OrdersOneByOne
  <1> QED
    BY <1>1, <1>2, <1>3, MInvAlways, PTL DEF MSpec
=============================================================================

-------------------------- MODULE PurchasesProofs --------------------------
(***************************************************************************)
(* Theorems about Purchases for every set of workers, orders and listings. *)
(***************************************************************************)
EXTENDS Purchases, TLAPS

USE DEF db, At

-----------------------------------------------------------------------------
(* The shapes of a step.                                                   *)

LEMMA IdleType == Idle \in Request
  BY DEF Idle, Request, Stage

\* A request arrives.
LEMMA BeginStep ==
    ASSUME IInv, NEW w \in Workers, NEW o \in Orders,
           NEW h \in Stage \ (CancelStages \cup {"idle", "onEscrowFunded"}),
           Begin(w, h, o),
           RelyInv(h, orders[o], methodOf[o]),
           h \in InitiateStages => \A u \in Workers : req[u].order # o
    PROVE  IInv'
  <1> DEFINE r == [Idle EXCEPT !.at = h, !.order = o, !.seen = orders[o].status]
  <1>1. r \in Request /\ r.at = h /\ r.order = o
    BY DEF IInv, TypeOK, Idle, Request, Purchase
  <1>2. req' = [req EXCEPT ![w] = r] /\ UNCHANGED db
    BY DEF Begin
  <1> HIDE DEF r
  <1>3. /\ req' \in [Workers -> Request]
        /\ req'[w] = r
        /\ \A u \in Workers \ {w} : req'[u] = req[u]
    BY <1>1, <1>2 DEF IInv, TypeOK
  <1>4. TypeOK'
    BY <1>2, <1>3 DEF IInv, TypeOK
  <1>5. BusyHasOrder'
    BY <1>1, <1>3 DEF IInv, BusyHasOrder
  <1>6. AllRowsInv'
    BY <1>2 DEF IInv, AllRowsInv
  <1>7. AllRelyInv'
    <2> SUFFICES ASSUME NEW u \in Workers, ~At(u, "idle")'
                 PROVE  RelyInv(req'[u].at, orders[req'[u].order],
                                methodOf[req'[u].order])
      BY <1>2 DEF AllRelyInv
    <2>1. CASE u = w
      BY <2>1, <1>1, <1>3
    <2>2. CASE u # w
      BY <2>2, <1>3 DEF IInv, AllRelyInv
    <2>3. QED
      BY <2>1, <2>2
  <1>8. ExclusionInv'
    BY <1>1, <1>3 DEF IInv, ExclusionInv, InitiateStages, CancelStages
  <1>9. ReceiptInv'
    BY <1>1, <1>2, <1>3 DEF IInv, ReceiptInv
  <1>10. QED
    BY <1>4, <1>5, <1>6, <1>7, <1>8, <1>9 DEF IInv

\* A request ends and leaves the tables alone.
LEMMA FinishStep ==
    ASSUME IInv, NEW w \in Workers, Finish(w), UNCHANGED db
    PROVE  IInv'
  <1>1. /\ req' \in [Workers -> Request]
        /\ req'[w].at = "idle"
        /\ \A u \in Workers \ {w} : req'[u] = req[u]
    BY IdleType DEF IInv, TypeOK, Finish, Idle
  <1>2. TypeOK' /\ BusyHasOrder' /\ AllRowsInv'
    BY <1>1 DEF IInv, TypeOK, BusyHasOrder, AllRowsInv
  <1>3. AllRelyInv'
    BY <1>1 DEF IInv, AllRelyInv
  <1>4. ExclusionInv' /\ ReceiptInv'
    BY <1>1 DEF IInv, ExclusionInv, ReceiptInv, InitiateStages, CancelStages
  <1>5. QED
    BY <1>2, <1>3, <1>4 DEF IInv

\* A request goes on to another stage and leaves the tables alone.
LEMMA AdvanceStep ==
    ASSUME IInv, NEW w \in Workers, ~At(w, "idle"), UNCHANGED db,
           NEW r \in Request, req' = [req EXCEPT ![w] = r],
           r.order = req[w].order, r.at \notin {"idle", "onEscrowFunded"},
           RelyInv(r.at, orders[r.order], methodOf[r.order]),
           r.at \in InitiateStages => req[w].at \in InitiateStages,
           r.at \in CancelStages => ~Locked(r.order)
    PROVE  IInv'
  <1>1. /\ req' \in [Workers -> Request]
        /\ req'[w] = r
        /\ \A u \in Workers \ {w} : req'[u] = req[u]
    BY DEF IInv, TypeOK
  <1>2. TypeOK' /\ BusyHasOrder' /\ AllRowsInv'
    BY <1>1 DEF IInv, TypeOK, BusyHasOrder, AllRowsInv
  <1>3. AllRelyInv'
    <2> SUFFICES ASSUME NEW u \in Workers, ~At(u, "idle")'
                 PROVE  RelyInv(req'[u].at, orders[req'[u].order],
                                methodOf[req'[u].order])
      BY DEF AllRelyInv
    <2>1. CASE u = w
      BY <2>1, <1>1
    <2>2. CASE u # w
      BY <2>2, <1>1 DEF IInv, AllRelyInv
    <2>3. QED
      BY <2>1, <2>2
  <1>4. ExclusionInv'
    <2>1. r.at \in CancelStages =>
             \A u \in Workers : req[u].order = r.order => req[u].at \notin CancelStages
      BY DEF Locked, Holds
    <2>2. \A u \in Workers \ {w} : req[u].order = r.order =>
             /\ ~(r.at \in InitiateStages /\ req[u].at \in InitiateStages)
             /\ ~(r.at \in CancelStages /\ req[u].at \in CancelStages)
      BY <2>1 DEF IInv, ExclusionInv
    <2>3. QED
      BY <1>1, <2>2 DEF IInv, ExclusionInv
  <1>5. ReceiptInv'
    BY <1>1 DEF IInv, ReceiptInv
  <1>6. QED
    BY <1>2, <1>3, <1>4, <1>5 DEF IInv

\* How an update may change a row while other requests work on the order.
RowStep(old, new) ==
    /\ old.paid => new.paid
    /\ old.payout # "NONE" => new.payout # "NONE"
    /\ old.status = "ABSENT" => new.status = "ABSENT"

\* The others' reliance survives a write to a row that nobody has locked.
LEMMA RelyKept ==
    ASSUME IInv, NEW w \in Workers, NEW o \in Orders, NEW row,
           RowStep(orders[o], row), NEW u \in Workers, ~At(u, "idle"),
           req[u].order = o, req[u].at \notin CancelStages
    PROVE  RelyInv(req[u].at, row, methodOf[o])
  BY DEF IInv, AllRelyInv, RelyInv, RowStep

\* A write that ends its request.
LEMMA WriteStep ==
    ASSUME IInv, NEW w \in Workers, ~At(w, "idle"),
           NEW row \in Purchase, Store(req[w].order, row), Finish(w),
           RowInv(row, methodOf[req[w].order]),
           RowStep(orders[req[w].order], row),
           \A u \in Workers \ {w} :
               req[u].order = req[w].order => req[u].at \notin CancelStages,
           vehicle' \in [Vehicles -> VehicleStatus],
           offers' \in [Offers -> {"ACCEPTED", "USED"}],
           UNCHANGED paystack,
           effects' \in [Orders -> [receipts : Nat, releases : Nat]],
           \A x \in Orders : effects'[x].receipts = effects[x].receipts
    PROVE  IInv'
  <1> DEFINE o == req[w].order
  <1>1. o \in Orders
    BY DEF IInv, BusyHasOrder
  <1>2. /\ orders' \in [Orders -> Purchase]
        /\ orders'[o] = row
        /\ \A x \in Orders \ {o} : orders'[x] = orders[x]
    BY <1>1 DEF IInv, TypeOK, Store
  <1>3. /\ req' \in [Workers -> Request]
        /\ req'[w].at = "idle"
        /\ \A u \in Workers \ {w} : req'[u] = req[u]
    BY IdleType DEF IInv, TypeOK, Finish, Idle
  <1>4. TypeOK'
    BY <1>2, <1>3 DEF IInv, TypeOK
  <1>5. BusyHasOrder'
    BY <1>3 DEF IInv, BusyHasOrder
  <1>6. AllRowsInv'
    BY <1>1, <1>2 DEF IInv, AllRowsInv
  <1>7. AllRelyInv'
    <2> SUFFICES ASSUME NEW u \in Workers, ~At(u, "idle")'
                 PROVE  RelyInv(req'[u].at, orders'[req'[u].order],
                                methodOf[req'[u].order])
      BY DEF AllRelyInv
    <2>1. u # w /\ req'[u] = req[u] /\ req[u].order \in Orders
      BY <1>3 DEF IInv, BusyHasOrder
    <2>2. CASE req[u].order = o
      BY <2>1, <2>2, <1>1, <1>2, RelyKept
    <2>3. CASE req[u].order # o
      BY <2>1, <2>3, <1>2 DEF IInv, AllRelyInv
    <2>4. QED
      BY <2>2, <2>3
  <1>8. ExclusionInv'
    BY <1>3 DEF IInv, ExclusionInv, InitiateStages, CancelStages
  <1>9. ReceiptInv'
    <2>1. \A x \in Orders : orders[x].paid => orders'[x].paid
      BY <1>1, <1>2 DEF RowStep
    <2>2. \A u \in Workers : ~At(u, "idle")' => req'[u] = req[u] /\ req[u].order \in Orders
      BY <1>3 DEF IInv, BusyHasOrder
    <2>3. QED
      BY <2>1, <2>2 DEF IInv, ReceiptInv
  <1>10. QED
    BY <1>4, <1>5, <1>6, <1>7, <1>8, <1>9 DEF IInv

-----------------------------------------------------------------------------
(* Arrivals.                                                               *)

LEMMA ArriveInv ==
    ASSUME IInv, NEW w \in Workers, Arrive(w)
    PROVE  IInv'
  <1> PICK o \in Orders :
        \/ InitiatePurchaseRead(w, o)
        \/ VerifyPurchasePaymentRead(w, o)
        \/ VerifyPurchaseRead(w, o)
        \/ PaystackWebhookRead(w, o)
        \/ ClaimPaymentRead(w, o)
        \/ RejectPurchasePaymentRead(w, o)
        \/ SellerHandoverRead(w, o)
        \/ OpenDisputeRead(w, o)
        \/ ResolveDisputeRead(w, o)
        \/ ConfirmReceivedRead(w, o)
        \/ ConfirmHandoverRead(w, o)
        \/ SellerCollectedRead(w, o)
        \/ ReleasePayoutRead(w, o)
        \/ CancelPurchaseRead(w, o)
        \/ SelectBuyerRead(w, o)
    BY DEF Arrive
  <1> DEFINE Free == Stage \ (CancelStages \cup {"idle", "onEscrowFunded"})
  <1>0. RowInv(orders[o], methodOf[o])
    BY DEF IInv, AllRowsInv
  <1>1. CASE InitiatePurchaseRead(w, o)
    <2>1. RelyInv("initiatePurchase", orders[o], methodOf[o])
      BY <1>1 DEF InitiatePurchaseRead, RelyInv, CancelStages
    <2>2. "initiatePurchase" \in Free
      BY DEF Stage, CancelStages
    <2>3. QED
      BY <1>1, <2>1, <2>2, BeginStep DEF InitiatePurchaseRead
  <1>2. CASE ClaimPaymentRead(w, o)
    <2>1. RelyInv("claimPayment", orders[o], methodOf[o])
      BY <1>2 DEF ClaimPaymentRead, RelyInv, InitiateStages, CancelStages
    <2>2. "claimPayment" \in Free \ InitiateStages
      BY DEF Stage, InitiateStages, CancelStages
    <2>3. QED
      BY <1>2, <2>1, <2>2, BeginStep DEF ClaimPaymentRead
  <1>3. CASE OpenDisputeRead(w, o)
    <2>1. RelyInv("openDispute", orders[o], methodOf[o])
      BY <1>3, <1>0 DEF OpenDisputeRead, RelyInv, RowInv, InitiateStages, CancelStages
    <2>2. "openDispute" \in Free \ InitiateStages
      BY DEF Stage, InitiateStages, CancelStages
    <2>3. QED
      BY <1>3, <2>1, <2>2, BeginStep DEF OpenDisputeRead
  <1>4. CASE ReleasePayoutRead(w, o)
    <2>1. RelyInv("releasePayout", orders[o], methodOf[o])
      BY <1>4 DEF ReleasePayoutRead, RelyInv, InitiateStages, CancelStages
    <2>2. "releasePayout" \in Free \ InitiateStages
      BY DEF Stage, InitiateStages, CancelStages
    <2>3. QED
      BY <1>4, <2>1, <2>2, BeginStep DEF ReleasePayoutRead
  <1>5. ASSUME NEW h \in {"verifyPurchasePayment", "verifyPurchase", "paystackWebhook",
                          "rejectPurchasePayment", "sellerHandover", "resolveDispute",
                          "confirmReceived", "confirmHandover", "sellerCollected",
                          "cancelPurchase", "selectBuyer"},
               Begin(w, h, o)
        PROVE  IInv'
    <2>1. RelyInv(h, orders[o], methodOf[o])
      BY <1>5 DEF RelyInv, InitiateStages, CancelStages
    <2>2. h \in Free \ InitiateStages
      BY <1>5 DEF Stage, InitiateStages, CancelStages
    <2>3. QED
      BY <1>5, <2>1, <2>2, BeginStep
  <1>6. QED
    BY <1>1, <1>2, <1>3, <1>4, <1>5
       DEF VerifyPurchasePaymentRead, VerifyPurchaseRead, PaystackWebhookRead,
           RejectPurchasePaymentRead, SellerHandoverRead, ResolveDisputeRead,
           ConfirmReceivedRead, ConfirmHandoverRead, SellerCollectedRead,
           CancelPurchaseRead, SelectBuyerRead

-----------------------------------------------------------------------------
(* Writes.                                                                 *)

LEMMA BusyFacts ==
    ASSUME IInv, NEW w \in Workers, ~At(w, "idle")
    PROVE  /\ req[w].order \in Orders
           /\ vehicleOf[req[w].order] \in Vehicles
           /\ orders[req[w].order] \in Purchase
           /\ RowInv(orders[req[w].order], methodOf[req[w].order])
           /\ RelyInv(req[w].at, orders[req[w].order], methodOf[req[w].order])
  <1>1. req[w].order \in Orders
    BY DEF IInv, BusyHasOrder
  <1>2. QED
    BY <1>1, ConstantTypes DEF IInv, TypeOK, AllRowsInv, AllRelyInv

\* Whoever writes under the lock discipline meets no cancellation under way.
LEMMA UnlockedFacts ==
    ASSUME NEW w \in Workers, NEW s, Writing(w, s)
    PROVE  \A u \in Workers : req[u].order = req[w].order => req[u].at \notin CancelStages
  BY DEF Writing, Locked, Holds

LEMMA UpdateInv ==
    ASSUME IInv, NEW w \in Workers, NEW s \in Stage \ {"idle"}, Writing(w, s),
           NEW row \in Purchase, Update(w, row),
           RowInv(row, methodOf[req[w].order]), RowStep(orders[req[w].order], row)
    PROVE  IInv'
  <1>1. /\ vehicle' \in [Vehicles -> VehicleStatus]
        /\ offers' \in [Offers -> {"ACCEPTED", "USED"}]
        /\ effects' \in [Orders -> [receipts : Nat, releases : Nat]]
    BY DEF Update, IInv, TypeOK
  <1>2. ~At(w, "idle")
    BY DEF Writing
  <1>3. QED
    BY <1>1, <1>2, UnlockedFacts, WriteStep DEF Update

LEMMA ClaimPaymentInv ==
    ASSUME IInv, NEW w \in Workers, ClaimPaymentWrite(w)
    PROVE  IInv'
  <1> DEFINE old == orders[req[w].order]
             row == [old EXCEPT !.claimed = TRUE]
  <1>1. ~At(w, "idle") /\ req[w].at = "claimPayment"
    BY DEF ClaimPaymentWrite, Writing
  <1>2. row \in Purchase /\ RowStep(old, row)
    BY <1>1, BusyFacts DEF Purchase, RowStep
  <1>3. RowInv(row, methodOf[req[w].order])
    BY <1>1, BusyFacts DEF RowInv, RelyInv, Purchase
  <1>4. QED
    BY <1>2, <1>3, UpdateInv DEF ClaimPaymentWrite, Stage

LEMMA RejectPurchasePaymentInv ==
    ASSUME IInv, NEW w \in Workers, RejectPurchasePaymentWrite(w)
    PROVE  IInv'
  <1> DEFINE old == orders[req[w].order]
             row == [old EXCEPT !.claimed = FALSE]
  <1>1. ~At(w, "idle")
    BY DEF RejectPurchasePaymentWrite, Writing
  <1>2. row \in Purchase /\ RowStep(old, row)
    BY <1>1, BusyFacts DEF Purchase, RowStep
  <1>3. RowInv(row, methodOf[req[w].order])
    BY <1>1, BusyFacts DEF RowInv, Purchase
  <1>4. QED
    BY <1>2, <1>3, UpdateInv DEF RejectPurchasePaymentWrite, Stage

LEMMA SellerHandoverInv ==
    ASSUME IInv, NEW w \in Workers, SellerHandoverWrite(w)
    PROVE  IInv'
  <1> DEFINE old == orders[req[w].order]
             row == [old EXCEPT !.handed = TRUE]
  <1>1. ~At(w, "idle")
    BY DEF SellerHandoverWrite, Writing
  <1>2. row \in Purchase /\ RowStep(old, row)
    BY <1>1, BusyFacts DEF Purchase, RowStep
  <1>3. RowInv(row, methodOf[req[w].order])
    BY <1>1, BusyFacts DEF RowInv, Purchase
  <1>4. QED
    BY <1>2, <1>3, UpdateInv DEF SellerHandoverWrite, Stage

\* openDispute relies on the money having come in, which stays true.
LEMMA OpenDisputeInv ==
    ASSUME IInv, NEW w \in Workers, OpenDisputeWrite(w)
    PROVE  IInv'
  <1> DEFINE old == orders[req[w].order]
             row == [old EXCEPT !.dispute = "OPEN"]
  <1>1. ~At(w, "idle") /\ req[w].at = "openDispute"
    BY DEF OpenDisputeWrite, Writing
  <1>2. row \in Purchase /\ RowStep(old, row)
    BY <1>1, BusyFacts DEF Purchase, RowStep
  <1>3. RowInv(row, methodOf[req[w].order])
    BY <1>1, BusyFacts DEF RowInv, RelyInv, Purchase
  <1>4. QED
    BY <1>2, <1>3, UpdateInv DEF OpenDisputeWrite, Stage

LEMMA ResolveDisputeInv ==
    ASSUME IInv, NEW w \in Workers, ResolveDisputeWrite(w)
    PROVE  IInv'
  <1> DEFINE o == req[w].order
             old == orders[o]
  <1>1. /\ ~At(w, "idle")
        /\ Writing(w, "resolveDispute")
        /\ Finish(w)
        /\ UNCHANGED <<offers, paystack, effects>>
    BY DEF ResolveDisputeWrite, Writing
  <1>2. ASSUME old.dispute = "OPEN", old.status = "PAID_HELD",
               NEW row \in {RefundBuyer(old), ReleaseSeller(old)}, Store(o, row),
               vehicle' \in [Vehicles -> VehicleStatus]
        PROVE  IInv'
    <2>1. row \in Purchase /\ RowStep(old, row)
      BY <1>1, <1>2, BusyFacts DEF Purchase, PurchaseStatus, RowStep, RefundBuyer, ReleaseSeller
    <2>2. RowInv(row, methodOf[o])
      BY <1>1, <1>2, BusyFacts DEF Purchase, RowInv, RefundBuyer, ReleaseSeller
    <2>3. QED
      BY <1>1, <1>2, <2>1, <2>2, UnlockedFacts, WriteStep DEF IInv, TypeOK
  <1>3. \A s \in VehicleStatus : [vehicle EXCEPT ![vehicleOf[o]] = s] \in [Vehicles -> VehicleStatus]
    BY DEF IInv, TypeOK
  <1>4. "AVAILABLE" \in VehicleStatus /\ "SOLD" \in VehicleStatus
    BY DEF VehicleStatus
  <1>5. CASE old.dispute = "OPEN" /\ old.status = "PAID_HELD"
    BY <1>2, <1>3, <1>4, <1>5 DEF ResolveDisputeWrite
  <1>6. CASE UNCHANGED <<orders, vehicle>>
    BY <1>1, <1>6, FinishStep
  <1>7. QED
    BY <1>5, <1>6 DEF ResolveDisputeWrite

LEMMA CompletePurchaseInv ==
    ASSUME IInv, NEW w \in Workers, NEW s, Writing(w, s), ~At(w, "idle"),
           CompletePurchase(w)
    PROVE  IInv'
  <1> DEFINE o == req[w].order
             old == orders[o]
             cash == methodOf[o] = "CASH"
             from == IF cash THEN "DELIVERED" ELSE "PAID_HELD"
             row == Completed(old, IF cash THEN "NONE" ELSE "PENDING")
  <1>1. Finish(w) /\ UNCHANGED <<offers, paystack, effects>>
    BY DEF CompletePurchase
  <1>2. CASE /\ old.status = from
             /\ Store(o, row)
             /\ vehicle' = [vehicle EXCEPT ![vehicleOf[o]] = "SOLD"]
    <2>1. row \in Purchase
      BY BusyFacts DEF Purchase, PurchaseStatus, Completed
    <2>2. RowInv(row, methodOf[o])
      BY <1>2, BusyFacts DEF Purchase, RowInv, Completed
    <2>3. RowStep(old, row)
      BY <1>2, BusyFacts DEF Purchase, RowInv, RowStep, Completed
    <2>4. vehicle' \in [Vehicles -> VehicleStatus]
      BY <1>2 DEF IInv, TypeOK, VehicleStatus
    <2>5. QED
      BY <1>1, <1>2, <2>1, <2>2, <2>3, <2>4, UnlockedFacts, WriteStep DEF IInv, TypeOK
  <1>3. CASE UNCHANGED <<orders, vehicle>>
    BY <1>1, <1>3, FinishStep
  <1>4. QED
    BY <1>2, <1>3 DEF CompletePurchase

LEMMA ReserveType ==
    ASSUME IInv, NEW v
    PROVE  Reserve(v) \in [Vehicles -> VehicleStatus]
  BY DEF IInv, TypeOK, Reserve, VehicleStatus

LEMMA ConfirmHandoverInv ==
    ASSUME IInv, NEW w \in Workers, ConfirmHandoverWrite(w)
    PROVE  IInv'
  <1> DEFINE o == req[w].order
             old == orders[o]
             row == [old EXCEPT !.status = "DELIVERED"]
  <1>1. /\ ~At(w, "idle")
        /\ Writing(w, "confirmHandover")
        /\ Finish(w)
        /\ UNCHANGED <<offers, paystack, effects>>
    BY DEF ConfirmHandoverWrite, Writing
  <1>2. CASE /\ old.status = "HANDOVER_PENDING"
             /\ Store(o, row)
             /\ vehicle' = Reserve(vehicleOf[o])
    <2>1. row \in Purchase /\ RowStep(old, row)
      BY <1>1, <1>2, BusyFacts DEF Purchase, PurchaseStatus, RowStep
    <2>2. RowInv(row, methodOf[o])
      BY <1>1, <1>2, BusyFacts DEF Purchase, RowInv
    <2>3. vehicle' \in [Vehicles -> VehicleStatus]
      BY <1>2, ReserveType
    <2>4. QED
      BY <1>1, <1>2, <2>1, <2>2, <2>3, UnlockedFacts, WriteStep DEF IInv, TypeOK
  <1>3. CASE UNCHANGED <<orders, vehicle>>
    BY <1>1, <1>3, FinishStep
  <1>4. QED
    BY <1>2, <1>3 DEF ConfirmHandoverWrite

LEMMA ReleasePayoutInv ==
    ASSUME IInv, NEW w \in Workers, ReleasePayoutWrite(w)
    PROVE  IInv'
  <1> DEFINE o == req[w].order
             old == orders[o]
             row == [old EXCEPT !.payout = "SENT"]
  <1>1. /\ ~At(w, "idle")
        /\ req[w].at = "releasePayout"
        /\ Writing(w, "releasePayout")
        /\ Store(o, row)
        /\ Finish(w)
        /\ UNCHANGED <<vehicle, offers, paystack>>
    BY DEF ReleasePayoutWrite, Writing
  <1>2. row \in Purchase /\ RowStep(old, row)
    BY <1>1, BusyFacts DEF Purchase, RowStep
  <1>3. RowInv(row, methodOf[o])
    BY <1>1, BusyFacts DEF Purchase, RowInv, RelyInv
  <1>4. /\ effects' \in [Orders -> [receipts : Nat, releases : Nat]]
        /\ \A x \in Orders : effects'[x].receipts = effects[x].receipts
    <2>1. o \in Orders /\ effects[o] \in [receipts : Nat, releases : Nat]
      BY <1>1, BusyFacts DEF IInv, TypeOK
    <2>2. effects' = [effects EXCEPT ![o] = [effects[o] EXCEPT !.releases = @ + 1]]
      BY <2>1 DEF ReleasePayoutWrite
    <2>3. /\ [effects[o] EXCEPT !.releases = @ + 1] \in [receipts : Nat, releases : Nat]
          /\ [effects[o] EXCEPT !.releases = @ + 1].receipts = effects[o].receipts
      BY <2>1
    <2>4. QED
      BY <2>1, <2>2, <2>3 DEF IInv, TypeOK
  <1>5. QED
    BY <1>1, <1>2, <1>3, <1>4, UnlockedFacts, WriteStep DEF IInv, TypeOK

\* The winner of the claim finds an order that is not paid for, of which no
\* receipt has been or is being sent.
LEMMA FundInv ==
    ASSUME IInv, NEW w \in Workers, NEW s, Writing(w, s), ~At(w, "idle"),
           NEW n \in {"idle", "onEscrowFunded"}, Fund(w, n)
    PROVE  IInv'
  <1> DEFINE o == req[w].order
             old == orders[o]
             row == Funded(old)
  <1>1. UNCHANGED <<offers, paystack, effects>>
    BY DEF Fund
  <1>2. CASE old.status # "AWAITING_PAYMENT" /\ Finish(w) /\ UNCHANGED <<orders, vehicle>>
    BY <1>1, <1>2, FinishStep
  <1>3. ASSUME old.status = "AWAITING_PAYMENT", Store(o, row),
               vehicle' = Reserve(vehicleOf[o])
        PROVE  /\ row \in Purchase /\ row.paid
               /\ RowStep(old, row)
               /\ RowInv(row, methodOf[o])
               /\ vehicle' \in [Vehicles -> VehicleStatus]
               /\ ~old.paid
    <2>1. row \in Purchase /\ row.paid /\ RowStep(old, row)
      BY <1>3, BusyFacts DEF Purchase, PurchaseStatus, RowStep, Funded
    <2>2. RowInv(row, methodOf[o]) /\ ~old.paid
      BY <1>3, BusyFacts DEF Purchase, RowInv, Funded
    <2>3. QED
      BY <1>3, <2>1, <2>2, ReserveType
  <1>4. CASE /\ old.status = "AWAITING_PAYMENT"
             /\ Store(o, row)
             /\ vehicle' = Reserve(vehicleOf[o])
             /\ Finish(w)
    BY <1>1, <1>3, <1>4, UnlockedFacts, WriteStep DEF IInv, TypeOK
  <1>5. CASE /\ old.status = "AWAITING_PAYMENT"
             /\ Store(o, row)
             /\ vehicle' = Reserve(vehicleOf[o])
             /\ req' = [req EXCEPT ![w].at = "onEscrowFunded"]
    <2>1. o \in Orders /\ ~old.paid /\ row.paid
      BY <1>3, <1>5, BusyFacts
    <2>2. /\ orders' \in [Orders -> Purchase]
          /\ orders'[o] = row
          /\ \A x \in Orders \ {o} : orders'[x] = orders[x]
      BY <1>3, <1>5, <2>1 DEF IInv, TypeOK, Store
    <2>3. /\ req' \in [Workers -> Request]
          /\ req'[w].at = "onEscrowFunded" /\ req'[w].order = o
          /\ \A u \in Workers \ {w} : req'[u] = req[u]
      BY <1>5 DEF IInv, TypeOK, Request, Stage
    <2>4. TypeOK'
      BY <1>1, <1>3, <1>5, <2>2, <2>3 DEF IInv, TypeOK
    <2>5. BusyHasOrder'
      BY <2>1, <2>3 DEF IInv, BusyHasOrder
    <2>6. AllRowsInv'
      BY <1>3, <1>5, <2>1, <2>2 DEF IInv, AllRowsInv
    <2>7. \A u \in Workers : req[u].order = o => ~At(u, "onEscrowFunded")
      BY <2>1 DEF IInv, AllRelyInv, RelyInv
    <2>8. AllRelyInv'
      <3> SUFFICES ASSUME NEW u \in Workers, ~At(u, "idle")'
                   PROVE  RelyInv(req'[u].at, orders'[req'[u].order],
                                  methodOf[req'[u].order])
        BY DEF AllRelyInv
      <3>1. CASE u = w
        BY <3>1, <2>1, <2>2, <2>3 DEF RelyInv, InitiateStages, CancelStages
      <3>2. CASE u # w /\ req[u].order = o
        <4>1. ~At(u, "idle") /\ req'[u] = req[u] /\ req[u].at \notin CancelStages
          BY <3>2, <2>3, UnlockedFacts
        <4>2. RelyInv(req[u].at, row, methodOf[o])
          BY <3>2, <4>1, <1>3, <1>5, <2>1, RelyKept
        <4>3. QED
          BY <3>2, <4>1, <4>2, <2>2
      <3>3. CASE u # w /\ req[u].order # o
        BY <3>3, <2>2, <2>3 DEF IInv, AllRelyInv, BusyHasOrder
      <3>4. QED
        BY <3>1, <3>2, <3>3
    <2>9. ExclusionInv'
      BY <2>3, <2>7 DEF IInv, ExclusionInv, InitiateStages, CancelStages
    <2>10. ReceiptInv'
      <3>1. effects[o].receipts = 0
        <4>1. effects[o].receipts \in Nat
          BY <2>1 DEF IInv, TypeOK
        <4>2. effects[o].receipts <= 1 /\ effects[o].receipts # 1
          BY <2>1 DEF IInv, ReceiptInv
        <4>3. QED
          BY <4>1, <4>2
      <3>2. \A x \in Orders : orders[x].paid => orders'[x].paid
        BY <2>1, <2>2
      <3>3. QED
        BY <1>1, <3>1, <3>2, <2>3 DEF IInv, ReceiptInv
    <2>11. QED
      BY <2>4, <2>5, <2>6, <2>8, <2>9, <2>10 DEF IInv
  <1>6. QED
    BY <1>2, <1>4, <1>5 DEF Fund

LEMMA VerifyPurchaseInv ==
    ASSUME IInv, NEW w \in Workers, VerifyPurchaseWrite(w)
    PROVE  IInv'
  <1>1. CASE Writing(w, "verifyPurchase") /\ Fund(w, "onEscrowFunded")
    BY <1>1, FundInv DEF Writing
  <1>2. CASE Finish(w) /\ UNCHANGED db
    BY <1>2, FinishStep
  <1>3. QED
    BY <1>1, <1>2 DEF VerifyPurchaseWrite

LEMMA OnEscrowFundedInv ==
    ASSUME IInv, NEW w \in Workers, OnEscrowFunded(w)
    PROVE  IInv'
  <1> DEFINE o == req[w].order
  <1>1. /\ At(w, "onEscrowFunded") /\ ~At(w, "idle")
        /\ Finish(w)
        /\ UNCHANGED <<vehicle, orders, offers, paystack>>
    BY DEF OnEscrowFunded
  <1>2. o \in Orders /\ effects[o].receipts = 0 /\ orders[o].paid
    BY <1>1, BusyFacts DEF IInv, ReceiptInv, RelyInv
  <1>3. /\ effects' \in [Orders -> [receipts : Nat, releases : Nat]]
        /\ effects'[o].receipts = 1
        /\ \A x \in Orders \ {o} : effects'[x] = effects[x]
    <2>1. effects[o] \in [receipts : Nat, releases : Nat]
      BY <1>2 DEF IInv, TypeOK
    <2>2. effects' = [effects EXCEPT ![o] = [effects[o] EXCEPT !.receipts = @ + 1]]
      BY <1>2 DEF OnEscrowFunded
    <2>3. /\ [effects[o] EXCEPT !.receipts = @ + 1] \in [receipts : Nat, releases : Nat]
          /\ [effects[o] EXCEPT !.receipts = @ + 1].receipts = 1
      BY <1>2, <2>1
    <2>4. QED
      BY <1>2, <2>2, <2>3 DEF IInv, TypeOK
  <1>4. /\ req' \in [Workers -> Request]
        /\ req'[w].at = "idle"
        /\ \A u \in Workers \ {w} : req'[u] = req[u]
    BY IdleType, <1>1 DEF IInv, TypeOK, Finish, Idle
  <1>5. TypeOK' /\ BusyHasOrder' /\ AllRowsInv'
    BY <1>1, <1>3, <1>4 DEF IInv, TypeOK, BusyHasOrder, AllRowsInv
  <1>6. AllRelyInv'
    BY <1>1, <1>4 DEF IInv, AllRelyInv
  <1>7. ExclusionInv'
    BY <1>4 DEF IInv, ExclusionInv, InitiateStages, CancelStages
  <1>8. ReceiptInv'
    <2>1. \A u \in Workers : At(u, "onEscrowFunded")' =>
             u # w /\ req'[u] = req[u] /\ req[u].order \in Orders \ {o}
      BY <1>1, <1>4 DEF IInv, ExclusionInv, BusyHasOrder
    <2>2. \A x \in Orders : /\ effects'[x].receipts <= 1
                            /\ effects'[x].receipts = 1 => orders'[x].paid
      BY <1>1, <1>2, <1>3 DEF IInv, ReceiptInv
    <2>3. QED
      BY <2>1, <2>2, <1>3 DEF IInv, ReceiptInv
  <1>9. QED
    BY <1>5, <1>6, <1>7, <1>8 DEF IInv

-----------------------------------------------------------------------------
(* initiatePurchase.                                                       *)

LEMMA DupCheckInv ==
    ASSUME IInv, NEW w \in Workers, DupCheck(w)
    PROVE  IInv'
  <1> DEFINE r == [req[w] EXCEPT !.at = "dupChecked"]
  <1>1. At(w, "initiatePurchase") /\ ~At(w, "idle") /\ UNCHANGED db
    BY DEF DupCheck
  <1>2. CASE req' = [req EXCEPT ![w].at = "dupChecked"]
    <2>1. req' = [req EXCEPT ![w] = r]
      BY <1>2 DEF IInv, TypeOK
    <2>2. r \in Request /\ r.order = req[w].order /\ r.at = "dupChecked"
      BY DEF IInv, TypeOK, Request, Stage
    <2>3. RelyInv(r.at, orders[r.order], methodOf[r.order])
      BY <1>1, <2>2, BusyFacts DEF RelyInv, InitiateStages, CancelStages
    <2>4. QED
      BY <1>1, <2>1, <2>2, <2>3, AdvanceStep DEF InitiateStages, CancelStages
  <1>3. CASE Finish(w)
    BY <1>1, <1>3, FinishStep
  <1>4. QED
    BY <1>2, <1>3 DEF DupCheck

LEMMA OfferReadInv ==
    ASSUME IInv, NEW w \in Workers, OfferRead(w)
    PROVE  IInv'
  <1>1. At(w, "dupChecked") /\ ~At(w, "idle") /\ UNCHANGED db
    BY DEF OfferRead
  <1>2. PICK f \in Offers \cup {NoOffer} :
             req' = [req EXCEPT ![w].at = "offerRead", ![w].deal = f]
    BY DEF OfferRead
  <1> DEFINE r == [req[w] EXCEPT !.at = "offerRead", !.deal = f]
  <1>3. req[w] \in Request
    BY DEF IInv, TypeOK
  <1>4. r \in Request /\ r.order = req[w].order /\ r.at = "offerRead"
    BY <1>3 DEF Request, Stage
  <1>5. req' = [req EXCEPT ![w] = r]
    BY <1>2, <1>3 DEF IInv, TypeOK
  <1>6. RelyInv(r.at, orders[r.order], methodOf[r.order])
    BY <1>1, <1>4, BusyFacts DEF RelyInv, InitiateStages, CancelStages
  <1>7. QED
    BY <1>1, <1>4, <1>5, <1>6, AdvanceStep DEF InitiateStages, CancelStages

\* The row is inserted: nobody else can be working on this attempt.
LEMMA InitiatePurchaseInv ==
    ASSUME IInv, NEW w \in Workers, InitiatePurchaseCommit(w)
    PROVE  IInv'
  <1> DEFINE o == req[w].order
             row == Row(FirstStatus(o), req[w].deal)
  <1>1. /\ At(w, "offerRead") /\ ~At(w, "idle")
        /\ Store(o, row)
        /\ Finish(w)
        /\ UNCHANGED <<vehicle, paystack, effects>>
    BY DEF InitiatePurchaseCommit
  <1>2. /\ o \in Orders
        /\ orders[o].status = "ABSENT"
        /\ methodOf[o] \in PURCHASE_METHODS
        /\ ~orders[o].paid /\ orders[o].payout = "NONE"
    BY <1>1, BusyFacts DEF RelyInv, InitiateStages, RowInv
  <1>3. row \in Purchase
    BY DEF IInv, TypeOK, Request, Row, FirstStatus, Purchase, PurchaseStatus
  <1>4. RowInv(row, methodOf[o])
    BY <1>2 DEF Row, FirstStatus, RowInv, PURCHASE_METHODS, TransferRails
  <1>5. /\ orders' \in [Orders -> Purchase]
        /\ orders'[o] = row
        /\ \A x \in Orders \ {o} : orders'[x] = orders[x]
    BY <1>1, <1>2, <1>3 DEF IInv, TypeOK, Store
  <1>6. /\ req' \in [Workers -> Request]
        /\ req'[w].at = "idle"
        /\ \A u \in Workers \ {w} : req'[u] = req[u]
    BY <1>1, IdleType DEF IInv, TypeOK, Finish, Idle
  <1>7. TypeOK'
    BY <1>1, <1>5, <1>6 DEF IInv, TypeOK, InitiatePurchaseCommit
  <1>8. BusyHasOrder' /\ AllRowsInv'
    BY <1>2, <1>4, <1>5, <1>6 DEF IInv, BusyHasOrder, AllRowsInv
  <1>9. AllRelyInv'
    <2> SUFFICES ASSUME NEW u \in Workers, ~At(u, "idle")'
                 PROVE  RelyInv(req'[u].at, orders'[req'[u].order],
                                methodOf[req'[u].order])
      BY DEF AllRelyInv
    <2>1. u # w /\ req'[u] = req[u] /\ req[u].order \in Orders /\ ~At(u, "idle")
      BY <1>6 DEF IInv, BusyHasOrder
    <2>2. CASE req[u].order # o
      BY <2>1, <2>2, <1>5 DEF IInv, AllRelyInv
    <2>3. CASE req[u].order = o
      <3>1. req[u].at \notin InitiateStages
        BY <2>1, <2>3, <1>1 DEF IInv, ExclusionInv, InitiateStages
      <3>2. RelyInv(req[u].at, orders[o], methodOf[o])
        BY <2>1, <2>3 DEF IInv, AllRelyInv
      <3>3. RelyInv(req[u].at, row, methodOf[o])
        BY <1>2, <3>1, <3>2 DEF RelyInv, Open, Unpaid, Confirmed
      <3>4. QED
        BY <2>1, <2>3, <3>3, <1>5
    <2>4. QED
      BY <2>2, <2>3
  <1>10. ExclusionInv'
    BY <1>6 DEF IInv, ExclusionInv, InitiateStages, CancelStages
  <1>11. ReceiptInv'
    <2>1. \A x \in Orders : orders[x].paid => orders'[x].paid
      BY <1>2, <1>5
    <2>2. \A u \in Workers : ~At(u, "idle")' => req'[u] = req[u] /\ req[u].order \in Orders
      BY <1>6 DEF IInv, BusyHasOrder
    <2>3. QED
      BY <2>1, <2>2, <1>1 DEF IInv, ReceiptInv
  <1>12. QED
    BY <1>7, <1>8, <1>9, <1>10, <1>11 DEF IInv

-----------------------------------------------------------------------------
(* cancelPurchase and selectBuyer.                                         *)

LEMMA CancelClaimInv ==
    ASSUME IInv, NEW w \in Workers, CancelClaim(w)
    PROVE  IInv'
  <1> DEFINE o == req[w].order
             s == IF MustFree(w) THEN "cancelFreeing" ELSE "cancelKeeping"
             r == [req[w] EXCEPT !.at = s]
  <1>1. /\ Writing(w, "cancelPurchase") /\ ~At(w, "idle")
        /\ ~Locked(o)
        /\ UNCHANGED db
    BY DEF CancelClaim, Writing
  <1>2. CASE orders[o].status \in Open /\ req' = [req EXCEPT ![w].at = s]
    <2>1. s \in CancelStages
      BY DEF CancelStages
    <2>2. req[w] \in Request
      BY DEF IInv, TypeOK
    <2> HIDE DEF s
    <2>3. r \in Request /\ r.order = o /\ r.at = s
      BY <2>1, <2>2 DEF Request, Stage, CancelStages
    <2>4. req' = [req EXCEPT ![w] = r]
      BY <1>2, <2>2 DEF IInv, TypeOK
    <2>5. RelyInv(r.at, orders[r.order], methodOf[r.order])
      BY <1>2, <2>1, <2>3 DEF RelyInv, InitiateStages, CancelStages
    <2>6. r.at \notin {"idle", "onEscrowFunded"} \cup InitiateStages
      BY <2>1, <2>3 DEF InitiateStages, CancelStages
    <2>7. QED
      BY <1>1, <2>3, <2>4, <2>5, <2>6, AdvanceStep
  <1>3. CASE Finish(w)
    BY <1>1, <1>3, FinishStep
  <1>4. QED
    BY <1>2, <1>3 DEF CancelClaim

\* The order is still open, and nobody else is cancelling it.
LEMMA CancelCommitInv ==
    ASSUME IInv, NEW w \in Workers, CancelCommit(w)
    PROVE  IInv'
  <1> DEFINE o == req[w].order
             old == orders[o]
             row == [old EXCEPT !.status = "CANCELLED"]
  <1>1. /\ req[w].at \in CancelStages /\ ~At(w, "idle")
        /\ Store(o, row)
        /\ Finish(w)
        /\ UNCHANGED <<offers, paystack, effects>>
    BY DEF CancelCommit, CancelStages
  <1>2. old.status \in Open
    BY <1>1, BusyFacts DEF RelyInv
  <1>3. row \in Purchase /\ RowStep(old, row)
    BY <1>1, <1>2, BusyFacts DEF Purchase, PurchaseStatus, RowStep, Open, Unpaid, Confirmed
  <1>4. RowInv(row, methodOf[o])
    BY <1>1, <1>2, BusyFacts DEF Purchase, RowInv, Open, Unpaid, Confirmed
  <1>5. \A u \in Workers \ {w} : req[u].order = o => req[u].at \notin CancelStages
    BY <1>1 DEF IInv, ExclusionInv
  <1>6. vehicle' \in [Vehicles -> VehicleStatus]
    BY DEF CancelCommit, IInv, TypeOK, VehicleStatus
  <1>7. QED
    BY <1>1, <1>3, <1>4, <1>5, <1>6, WriteStep DEF IInv, TypeOK

LEMMA SelectClearInv ==
    ASSUME IInv, NEW w \in Workers, SelectClear(w)
    PROVE  IInv'
  <1> DEFINE others == Selected(req[w].order)
             r == [req[w] EXCEPT !.at = "selectCleared", !.cleared = others]
  <1>1. At(w, "selectBuyer") /\ ~At(w, "idle") /\ UNCHANGED db
    BY DEF SelectClear
  <1>2. req[w] \in Request
    BY DEF IInv, TypeOK
  <1>3. others \in SUBSET Orders
    BY DEF Selected, Siblings
  <1>4. req' = [req EXCEPT ![w] = r]
    BY <1>2 DEF IInv, TypeOK, SelectClear
  <1> HIDE DEF others
  <1>5. r \in Request /\ r.order = req[w].order /\ r.at = "selectCleared"
    BY <1>2, <1>3 DEF Request, Stage
  <1>6. RelyInv(r.at, orders[r.order], methodOf[r.order])
    BY <1>5 DEF RelyInv, InitiateStages, CancelStages
  <1>7. QED
    BY <1>1, <1>4, <1>5, <1>6, AdvanceStep DEF InitiateStages, CancelStages

\* Only the column selectedBuyerAt changes, on which no invariant depends.
LEMMA SelectCommitInv ==
    ASSUME IInv, NEW w \in Workers, SelectCommit(w)
    PROVE  IInv'
  <1>1. Finish(w) /\ UNCHANGED <<vehicle, offers, paystack, effects>>
    BY DEF SelectCommit
  <1>2. ASSUME NEW x \in Orders
        PROVE  /\ orders'[x] \in Purchase
               /\ \E b \in BOOLEAN : orders'[x] = [orders[x] EXCEPT !.selected = b]
    <2>1. orders[x] \in Purchase
      BY DEF IInv, TypeOK
    <2>2. orders[x] = [orders[x] EXCEPT !.selected = orders[x].selected]
          /\ orders[x].selected \in BOOLEAN
      BY <2>1 DEF Purchase
    <2>3. \A b \in BOOLEAN : [orders[x] EXCEPT !.selected = b] \in Purchase
      BY <2>1 DEF Purchase
    <2>4. orders'[x] \in {[orders[x] EXCEPT !.selected = TRUE],
                          [orders[x] EXCEPT !.selected = FALSE], orders[x]}
      BY DEF SelectCommit
    <2>5. QED
      BY <2>1, <2>2, <2>3, <2>4
  <1>3. ASSUME NEW x \in Orders
        PROVE  /\ orders'[x].status = orders[x].status
               /\ orders'[x].paid = orders[x].paid
               /\ orders'[x].payout = orders[x].payout
               /\ orders'[x].dispute = orders[x].dispute
               /\ orders'[x].claimed = orders[x].claimed
    <2>1. orders[x] \in Purchase
      BY DEF IInv, TypeOK
    <2>2. QED
      BY <1>2, <2>1 DEF Purchase
  <1>4. orders' \in [Orders -> Purchase]
    <2>1. orders' = [x \in Orders |-> orders'[x]]
      BY DEF SelectCommit
    <2>2. QED
      BY <1>2, <2>1
  <1>5. /\ req' \in [Workers -> Request]
        /\ req'[w].at = "idle"
        /\ \A u \in Workers \ {w} : req'[u] = req[u]
    BY <1>1, IdleType DEF IInv, TypeOK, Finish, Idle
  <1>6. TypeOK' /\ BusyHasOrder'
    BY <1>1, <1>4, <1>5 DEF IInv, TypeOK, BusyHasOrder
  <1>7. AllRowsInv'
    BY <1>3 DEF IInv, AllRowsInv, RowInv
  <1>8. AllRelyInv'
    <2> SUFFICES ASSUME NEW u \in Workers, ~At(u, "idle")'
                 PROVE  RelyInv(req'[u].at, orders'[req'[u].order],
                                methodOf[req'[u].order])
      BY DEF AllRelyInv
    <2>1. req'[u] = req[u] /\ req[u].order \in Orders /\ ~At(u, "idle")
      BY <1>5 DEF IInv, BusyHasOrder
    <2>2. RelyInv(req[u].at, orders[req[u].order], methodOf[req[u].order])
      BY <2>1 DEF IInv, AllRelyInv
    <2>3. QED
      BY <2>1, <2>2, <1>3 DEF RelyInv
  <1>9. ExclusionInv'
    BY <1>5 DEF IInv, ExclusionInv, InitiateStages, CancelStages
  <1>10. ReceiptInv'
    BY <1>1, <1>3, <1>5 DEF IInv, ReceiptInv, BusyHasOrder
  <1>11. QED
    BY <1>6, <1>7, <1>8, <1>9, <1>10 DEF IInv

-----------------------------------------------------------------------------
(* The invariant.                                                          *)

\* Paystack's view of an order is none of the invariant's business.
LEMMA PaystackInv ==
    ASSUME IInv, NEW o \in Orders,
           InitializePurchasePayment(o) \/ PaystackCharge(o)
    PROVE  IInv'
  <1>1. UNCHANGED <<vehicle, orders, offers, effects, req>>
    BY DEF InitializePurchasePayment, PaystackCharge
  <1>2. paystack' \in [Orders -> {"none", "link", "paid"}]
    BY DEF InitializePurchasePayment, PaystackCharge, IInv, TypeOK
  <1>3. QED
    BY <1>1, <1>2 DEF IInv, TypeOK, BusyHasOrder, AllRowsInv, AllRelyInv,
                      ExclusionInv, ReceiptInv

LEMMA ServeInv ==
    ASSUME IInv, NEW w \in Workers, Serve(w)
    PROVE  IInv'
  <1>1. CASE VerifyPurchasePaymentWrite(w)
    BY <1>1, FundInv DEF VerifyPurchasePaymentWrite, Writing
  <1>2. CASE PaystackWebhookWrite(w)
    BY <1>2, FundInv DEF PaystackWebhookWrite, Writing
  <1>3. CASE ConfirmReceivedWrite(w)
    BY <1>3, CompletePurchaseInv DEF ConfirmReceivedWrite, Writing
  <1>4. CASE SellerCollectedWrite(w)
    BY <1>4, CompletePurchaseInv DEF SellerCollectedWrite, Writing
  <1>5. QED
    BY <1>1, <1>2, <1>3, <1>4, DupCheckInv, OfferReadInv, InitiatePurchaseInv,
       VerifyPurchaseInv, OnEscrowFundedInv, ClaimPaymentInv,
       RejectPurchasePaymentInv, SellerHandoverInv, OpenDisputeInv,
       ResolveDisputeInv, ConfirmHandoverInv, ReleasePayoutInv,
       CancelClaimInv, CancelCommitInv, SelectClearInv, SelectCommitInv
       DEF Serve

LEMMA NextInv == IInv /\ [Next]_vars => IInv'
  <1> SUFFICES ASSUME IInv, [Next]_vars PROVE IInv'
    OBVIOUS
  <1>1. ASSUME NEW w \in Workers, Arrive(w) PROVE IInv'
    BY <1>1, ArriveInv
  <1>2. ASSUME NEW w \in Workers, Serve(w) PROVE IInv'
    BY <1>2, ServeInv
  <1>3. ASSUME NEW w \in Workers, Abandon(w) PROVE IInv'
    BY <1>3, FinishStep DEF Abandon
  <1>4. ASSUME NEW o \in Orders, InitializePurchasePayment(o) \/ PaystackCharge(o)
        PROVE  IInv'
    BY <1>4, PaystackInv
  <1>5. CASE UNCHANGED vars
    BY <1>5 DEF vars, IInv, TypeOK, BusyHasOrder, AllRowsInv, AllRelyInv,
                ExclusionInv, ReceiptInv
  <1>6. QED
    BY <1>1, <1>2, <1>3, <1>4, <1>5 DEF Next

LEMMA InitInv == Init => IInv
  <1> SUFFICES ASSUME Init PROVE IInv
    OBVIOUS
  <1>1. ASSUME NEW o \in Orders
        PROVE  orders[o] \in Purchase /\ RowInv(orders[o], methodOf[o])
    <2>1. CASE methodOf[o] = "PAYSTACK"
      <3>1. orders[o] = Row("AWAITING_PAYMENT", NoOffer)
        BY <2>1 DEF Init
      <3>2. QED
        BY <2>1, <3>1 DEF Row, RowInv, Purchase, PurchaseStatus
    <2>2. CASE methodOf[o] # "PAYSTACK"
      <3>1. orders[o] = Row("ABSENT", NoOffer)
        BY <2>2 DEF Init
      <3>2. QED
        BY <3>1 DEF Row, RowInv, Purchase, PurchaseStatus
    <2>3. QED
      BY <2>1, <2>2
  <1>2. orders \in [Orders -> Purchase]
    <2>1. orders = [o \in Orders |-> orders[o]]
      BY DEF Init
    <2>2. QED
      BY <1>1, <2>1
  <1>3. \A w \in Workers : req[w] \in Request /\ At(w, "idle")
    BY IdleType DEF Init, Idle
  <1>4. TypeOK
    BY <1>2, <1>3 DEF Init, TypeOK, VehicleStatus
  <1>5. AllRowsInv
    BY <1>1 DEF AllRowsInv
  <1>6. BusyHasOrder /\ AllRelyInv /\ ExclusionInv
    BY <1>3 DEF BusyHasOrder, AllRelyInv, ExclusionInv, InitiateStages, CancelStages
  <1>7. ReceiptInv
    BY <1>3 DEF Init, ReceiptInv
  <1>8. QED
    BY <1>4, <1>5, <1>6, <1>7 DEF IInv

\* Whatever the interleaving, rows and requests satisfy the inductive
\* invariant.
THEOREM Invariance == Spec => []IInv
  <1>1. Init => IInv
    BY InitInv
  <1>2. IInv /\ [Next]_vars => IInv'
    BY NextInv
  <1>3. QED
    BY <1>1, <1>2, PTL DEF Spec

-----------------------------------------------------------------------------
(* The properties.                                                         *)

\* Every table and every request in flight keeps its type.
THEOREM TypeCorrect == Spec => []TypeOK
  <1>1. IInv => TypeOK
    BY DEF IInv
  <1>2. QED
    BY <1>1, Invariance, PTL

\* completePurchase and resolveDispute queue a payout exactly when they
\* complete an escrow order, however their callers interleave.
THEOREM PayoutCorrect == Spec => []PayoutFollowsEscrow
  <1>1. IInv => PayoutFollowsEscrow
    BY DEF IInv, AllRowsInv, RowInv, PayoutFollowsEscrow
  <1>2. QED
    BY <1>1, Invariance, PTL

\* No cancellation, confirmation or late dispute contradicts a verdict of
\* resolveDispute.
THEOREM VerdictCorrect == Spec => []VerdictStands
  <1>1. IInv => VerdictStands
    BY DEF IInv, AllRowsInv, RowInv, VerdictStands
  <1>2. QED
    BY <1>1, Invariance, PTL

\* verifyPurchase, the webhook and the administrator together send at most
\* one receipt for an order.
THEOREM ReceiptCorrect == Spec => []ReceiptOnce
  <1>1. IInv => ReceiptOnce
    BY DEF IInv, ReceiptInv, ReceiptOnce
  <1>2. QED
    BY <1>1, Invariance, PTL

\* The escrow endpoints never touch a cash order.
THEOREM CashCorrect == Spec => []CashStaysOutside
  <1>1. IInv => CashStaysOutside
    BY DEF IInv, AllRowsInv, RowInv, CashStaysOutside, TransferRails
  <1>2. QED
    BY <1>1, Invariance, PTL

-----------------------------------------------------------------------------
(* How a row may move in one step.                                         *)

\* The columns that decide where the money is do not change.
Kept(old, new) ==
    /\ new.status = old.status
    /\ new.paid = old.paid
    /\ new.payout = old.payout

\* They change along one of the edges of the workflow.
Moved(old, new) ==
    \/ new.paid = old.paid /\ new.payout = old.payout /\
          \/ old.status = "ABSENT" /\ new.status \in Unpaid
          \/ old.status = "PAID_HELD" /\ new.status = "REFUNDED"
          \/ old.status = "HANDOVER_PENDING" /\ new.status = "DELIVERED"
          \/ old.status \in Open /\ new.status = "CANCELLED"
    \/ old.status = "AWAITING_PAYMENT" /\ new.status = "PAID_HELD" /\
          new.paid /\ new.payout = old.payout
    \/ old.status \in Confirmed /\ new.status = "COMPLETED" /\
          new.paid = old.paid /\ new.payout \in {"NONE", "PENDING"}
    \/ new.status = old.status /\ new.paid = old.paid /\
          old.payout # "NONE" /\ new.payout = "SENT"

\* At most one row moves in a step.
RowMoves ==
    \/ \A x \in Orders : Kept(orders[x], orders'[x])
    \/ \E o \in Orders : /\ Moved(orders[o], orders'[o])
                         /\ \A x \in Orders \ {o} : orders'[x] = orders[x]

LEMMA StoreMoves ==
    ASSUME IInv, NEW o \in Orders, NEW row, Store(o, row),
           Kept(orders[o], row) \/ Moved(orders[o], row)
    PROVE  RowMoves
  <1>1. orders'[o] = row /\ \A x \in Orders \ {o} : orders'[x] = orders[x]
    BY DEF Store, IInv, TypeOK
  <1>2. QED
    BY <1>1 DEF RowMoves, Kept

LEMMA ServeMoves ==
    ASSUME IInv, NEW w \in Workers, Serve(w)
    PROVE  RowMoves
  <1> DEFINE o == req[w].order
             old == orders[o]
  <1>1. CASE UNCHANGED orders
    BY <1>1 DEF RowMoves, Kept
  <1>2. ASSUME ~At(w, "idle")
        PROVE  o \in Orders /\ old \in Purchase
    BY <1>2, BusyFacts
  <1>3. CASE InitiatePurchaseCommit(w)
    <2> DEFINE row == Row(FirstStatus(o), req[w].deal)
    <2>1. old.status = "ABSENT" /\ ~old.paid /\ old.payout = "NONE"
      BY <1>3, BusyFacts DEF InitiatePurchaseCommit, RelyInv, InitiateStages, RowInv
    <2>2. Moved(old, row)
      BY <2>1, <1>2, <1>3 DEF InitiatePurchaseCommit, Moved, Row, FirstStatus, Unpaid, Purchase
    <2>3. QED
      BY <1>2, <1>3, <2>2, StoreMoves DEF InitiatePurchaseCommit
  <1>4. ASSUME NEW n, NEW s, Writing(w, s), s # "idle", Fund(w, n)
        PROVE  RowMoves
    <2>1. ~At(w, "idle")
      BY <1>4 DEF Writing
    <2>2. CASE old.status = "AWAITING_PAYMENT" /\ Store(o, Funded(old))
      <3>1. Moved(old, Funded(old))
        BY <2>1, <2>2, <1>2 DEF Moved, Funded, Purchase
      <3>2. QED
        BY <2>1, <2>2, <3>1, <1>2, StoreMoves
    <2>3. QED
      BY <1>1, <1>4, <2>2 DEF Fund
  <1>5. CASE ClaimPaymentWrite(w)
    <2>1. Kept(old, [old EXCEPT !.claimed = TRUE]) /\ ~At(w, "idle")
      BY <1>2, <1>5 DEF Kept, Purchase, ClaimPaymentWrite, Writing
    <2>2. QED
      BY <1>2, <1>5, <2>1, StoreMoves DEF ClaimPaymentWrite, Update
  <1>6. CASE RejectPurchasePaymentWrite(w)
    <2>1. Kept(old, [old EXCEPT !.claimed = FALSE]) /\ ~At(w, "idle")
      BY <1>2, <1>6 DEF Kept, Purchase, RejectPurchasePaymentWrite, Writing
    <2>2. QED
      BY <1>2, <1>6, <2>1, StoreMoves DEF RejectPurchasePaymentWrite, Update
  <1>7. CASE SellerHandoverWrite(w)
    <2>1. Kept(old, [old EXCEPT !.handed = TRUE]) /\ ~At(w, "idle")
      BY <1>2, <1>7 DEF Kept, Purchase, SellerHandoverWrite, Writing
    <2>2. QED
      BY <1>2, <1>7, <2>1, StoreMoves DEF SellerHandoverWrite, Update
  <1>8. CASE OpenDisputeWrite(w)
    <2>1. Kept(old, [old EXCEPT !.dispute = "OPEN"]) /\ ~At(w, "idle")
      BY <1>2, <1>8 DEF Kept, Purchase, OpenDisputeWrite, Writing
    <2>2. QED
      BY <1>2, <1>8, <2>1, StoreMoves DEF OpenDisputeWrite, Update
  <1>9. CASE ResolveDisputeWrite(w)
    <2>1. ~At(w, "idle")
      BY <1>9 DEF ResolveDisputeWrite, Writing
    <2>2. ASSUME old.status = "PAID_HELD"
          PROVE  Moved(old, RefundBuyer(old)) /\ Moved(old, ReleaseSeller(old))
      BY <2>1, <2>2, <1>2 DEF Moved, RefundBuyer, ReleaseSeller, Purchase, Confirmed
    <2>3. QED
      BY <2>1, <2>2, <1>1, <1>2, <1>9, StoreMoves DEF ResolveDisputeWrite
  <1>10. ASSUME NEW s, Writing(w, s), s # "idle", CompletePurchase(w)
         PROVE  RowMoves
    <2> DEFINE cash == methodOf[o] = "CASH"
               row == Completed(old, IF cash THEN "NONE" ELSE "PENDING")
    <2>1. ~At(w, "idle")
      BY <1>10 DEF Writing
    <2>2. CASE /\ old.status = IF cash THEN "DELIVERED" ELSE "PAID_HELD"
               /\ Store(o, row)
      <3>1. Moved(old, row)
        BY <2>1, <2>2, <1>2 DEF Moved, Completed, Purchase, Confirmed
      <3>2. QED
        BY <2>1, <2>2, <3>1, <1>2, StoreMoves
    <2>3. QED
      BY <1>1, <1>10, <2>2 DEF CompletePurchase
  <1>11. CASE ConfirmHandoverWrite(w)
    <2>1. ~At(w, "idle")
      BY <1>11 DEF ConfirmHandoverWrite, Writing
    <2>2. ASSUME old.status = "HANDOVER_PENDING"
          PROVE  Moved(old, [old EXCEPT !.status = "DELIVERED"])
      BY <2>1, <2>2, <1>2 DEF Moved, Purchase
    <2>3. QED
      BY <2>1, <2>2, <1>1, <1>2, <1>11, StoreMoves DEF ConfirmHandoverWrite
  <1>12. CASE ReleasePayoutWrite(w)
    <2>1. ~At(w, "idle") /\ old.payout # "NONE"
      BY <1>12, BusyFacts DEF ReleasePayoutWrite, Writing, RelyInv
    <2>2. Moved(old, [old EXCEPT !.payout = "SENT"])
      BY <2>1, <1>2 DEF Moved, Purchase
    <2>3. QED
      BY <2>1, <2>2, <1>2, <1>12, StoreMoves DEF ReleasePayoutWrite
  <1>13. CASE CancelCommit(w)
    <2>1. ~At(w, "idle") /\ old.status \in Open
      BY <1>13, BusyFacts DEF CancelCommit, RelyInv, CancelStages
    <2>2. Moved(old, [old EXCEPT !.status = "CANCELLED"])
      BY <2>1, <1>2 DEF Moved, Purchase
    <2>3. QED
      BY <2>1, <2>2, <1>2, <1>13, StoreMoves DEF CancelCommit
  <1>14. CASE SelectCommit(w)
    <2>1. \A x \in Orders : orders[x] \in Purchase
      BY DEF IInv, TypeOK
    <2>2. ASSUME NEW x \in Orders PROVE Kept(orders[x], orders'[x])
      <3>1. \/ orders'[x] = [orders[x] EXCEPT !.selected = TRUE]
            \/ orders'[x] = [orders[x] EXCEPT !.selected = FALSE]
            \/ orders'[x] = orders[x]
        BY <1>14 DEF SelectCommit
      <3>2. QED
        BY <2>1, <3>1 DEF Kept, Purchase
    <2>3. QED
      BY <2>2 DEF RowMoves
  <1>15. CASE DupCheck(w) \/ OfferRead(w) \/ OnEscrowFunded(w) \/ CancelClaim(w)
              \/ SelectClear(w)
    BY <1>1, <1>15 DEF DupCheck, OfferRead, OnEscrowFunded, CancelClaim, SelectClear
  <1>16. QED
    BY <1>1, <1>3, <1>4, <1>5, <1>6, <1>7, <1>8, <1>9, <1>10, <1>11, <1>12,
       <1>13, <1>14, <1>15
       DEF Serve, VerifyPurchasePaymentWrite, VerifyPurchaseWrite,
           PaystackWebhookWrite, ConfirmReceivedWrite, SellerCollectedWrite

LEMMA NextMoves ==
    ASSUME IInv, [Next]_vars
    PROVE  RowMoves
  <1>1. CASE UNCHANGED orders
    BY <1>1 DEF RowMoves, Kept
  <1>2. ASSUME NEW w \in Workers, Arrive(w) PROVE UNCHANGED orders
    BY <1>2 DEF Arrive, Begin,
        InitiatePurchaseRead, VerifyPurchasePaymentRead, VerifyPurchaseRead,
        PaystackWebhookRead, ClaimPaymentRead, RejectPurchasePaymentRead,
        SellerHandoverRead, OpenDisputeRead, ResolveDisputeRead,
        ConfirmReceivedRead, ConfirmHandoverRead, SellerCollectedRead,
        ReleasePayoutRead, CancelPurchaseRead, SelectBuyerRead
  <1>3. QED
    BY <1>1, <1>2, ServeMoves
       DEF Next, vars, Abandon, InitializePurchasePayment, PaystackCharge

\* No request, however stale its reading, reopens an order that has been
\* completed, cancelled or refunded, or settles it a second way.
THEOREM SettledCorrect == Spec => SettledIsFinal
  <1>1. IInv /\ [Next]_vars =>
           [\A o \in Orders : orders[o].status \in Settled
                => orders'[o].status = orders[o].status]_vars
    <2> SUFFICES ASSUME IInv, [Next]_vars, NEW o \in Orders,
                        orders[o].status \in Settled
                 PROVE  orders'[o].status = orders[o].status
      OBVIOUS
    <2>1. Kept(orders[o], orders'[o]) \/ Moved(orders[o], orders'[o])
      BY NextMoves DEF RowMoves, Kept
    <2>2. QED
      BY <2>1 DEF Kept, Moved, Settled, Open, Unpaid, Confirmed
  <1>2. QED
    BY <1>1, Invariance, PTL DEF Spec, SettledIsFinal

-----------------------------------------------------------------------------
(* The purchase table implements the ledger.                               *)

\* The account of a row that has kept its columns.
LEMMA KeptMoney ==
    ASSUME NEW o \in Orders, Kept(orders[o], orders'[o])
    PROVE  MoneyOf(o)' = MoneyOf(o)
  BY DEF Kept, MoneyOf

\* The account of a row that has moved goes along an edge of the ledger.
LEMMA MovedMoney ==
    ASSUME IInv, IInv', NEW o \in Orders, Moved(orders[o], orders'[o])
    PROVE  \/ MoneyOf(o)' = MoneyOf(o)
           \/ MoneyOf(o) = "none" /\ MoneyOf(o)' = "held"
           \/ MoneyOf(o) = "held" /\ MoneyOf(o)' = "dueSeller"
           \/ MoneyOf(o) = "held" /\ MoneyOf(o)' = "dueBuyer"
           \/ MoneyOf(o) = "dueSeller" /\ MoneyOf(o)' = "sentSeller"
  <1> DEFINE old == orders[o]
             new == orders'[o]
  <1>1. /\ old \in Purchase /\ RowInv(old, methodOf[o])
        /\ new \in Purchase /\ RowInv(new, methodOf[o])
    BY DEF IInv, TypeOK, AllRowsInv
  <1>2. CASE old.status = "ABSENT" /\ new.status \in Unpaid /\ new.paid = old.paid
    BY <1>1, <1>2 DEF RowInv, MoneyOf
  <1>3. CASE /\ old.status = "HANDOVER_PENDING" /\ new.status = "DELIVERED"
             /\ new.paid = old.paid
    BY <1>1, <1>3 DEF RowInv, MoneyOf
  <1>4. CASE /\ old.status \in Open /\ new.status \in {"CANCELLED", "REFUNDED"}
             /\ new.paid = old.paid /\ new.payout = old.payout
    BY <1>1, <1>4 DEF RowInv, MoneyOf, Open, Unpaid, Confirmed, Purchase
  <1>5. CASE /\ old.status = "AWAITING_PAYMENT" /\ new.status = "PAID_HELD"
             /\ new.paid
    BY <1>1, <1>5 DEF RowInv, MoneyOf
  <1>6. CASE /\ old.status \in Confirmed /\ new.status = "COMPLETED"
             /\ new.paid = old.paid /\ new.payout \in {"NONE", "PENDING"}
    BY <1>1, <1>6 DEF RowInv, MoneyOf, Confirmed, Purchase
  <1>7. CASE /\ new.status = old.status /\ new.paid = old.paid
             /\ old.payout # "NONE" /\ new.payout = "SENT"
    BY <1>1, <1>7 DEF RowInv, MoneyOf, Purchase
  <1>8. QED
    BY <1>2, <1>3, <1>4, <1>5, <1>6, <1>7 DEF Moved, Open, Confirmed

LEMMA LedgerStep ==
    ASSUME IInv, IInv', RowMoves
    PROVE  [Ledger!LedgerNext]_[o \in Orders |-> MoneyOf(o)]
  <1> DEFINE money == [o \in Orders |-> MoneyOf(o)]
  <1>1. CASE \A o \in Orders : MoneyOf(o)' = MoneyOf(o)
    <2>1. money' = money
      BY <1>1
    <2>2. QED
      BY <2>1
  <1>2. CASE \A o \in Orders : Kept(orders[o], orders'[o])
    BY <1>1, <1>2, KeptMoney
  <1>3. ASSUME NEW o \in Orders, Moved(orders[o], orders'[o]),
               \A x \in Orders \ {o} : orders'[x] = orders[x]
        PROVE  [Ledger!LedgerNext]_money
    <2>1. \A x \in Orders \ {o} : MoneyOf(x)' = MoneyOf(x)
      BY <1>3, KeptMoney DEF Kept
    <2>2. CASE MoneyOf(o)' = MoneyOf(o)
      BY <2>1, <2>2, <1>1
    <2>3. ASSUME NEW from, NEW to, MoneyOf(o) = from, MoneyOf(o)' = to
          PROVE  Ledger!Move(o, from, to)
      <3>1. money[o] = from
        BY <2>3
      <3>2. money' = [money EXCEPT ![o] = to]
        BY <2>1, <2>3
      <3>3. QED
        BY <3>1, <3>2 DEF Ledger!Move
    <2>4. CASE MoneyOf(o) = "none" /\ MoneyOf(o)' = "held"
      BY <2>3, <2>4 DEF Ledger!LedgerNext, Ledger!Deposit
    <2>5. CASE MoneyOf(o) = "held" /\ MoneyOf(o)' = "dueSeller"
      BY <2>3, <2>5 DEF Ledger!LedgerNext, Ledger!AwardSeller
    <2>6. CASE MoneyOf(o) = "held" /\ MoneyOf(o)' = "dueBuyer"
      BY <2>3, <2>6 DEF Ledger!LedgerNext, Ledger!AwardBuyer
    <2>7. CASE MoneyOf(o) = "dueSeller" /\ MoneyOf(o)' = "sentSeller"
      BY <2>3, <2>7 DEF Ledger!LedgerNext, Ledger!PayOut
    <2>8. QED
      BY <1>3, <2>2, <2>4, <2>5, <2>6, <2>7, MovedMoney
  <1>4. QED
    BY <1>2, <1>3 DEF RowMoves

\* Every behaviour of the purchase workflow, seen through MoneyOf, is a
\* behaviour of the ledger: an order's money enters escrow once and is
\* awarded once, to one side.
THEOREM Refinement == Spec => ImplementsLedger
  <1>1. Init => Ledger!LedgerInit
    <2> SUFFICES ASSUME Init, NEW o \in Orders PROVE MoneyOf(o) = "none"
      BY DEF Ledger!LedgerInit
    <2>1. ~orders[o].paid
      BY DEF Init, Row
    <2>2. QED
      BY <2>1 DEF MoneyOf
  <1>2. IInv /\ IInv' /\ [Next]_vars =>
           [Ledger!LedgerNext]_[o \in Orders |-> MoneyOf(o)]
    BY NextMoves, LedgerStep
  <1>3. QED
    BY <1>1, <1>2, Invariance, PTL DEF Spec, ImplementsLedger, Ledger!LedgerSpec

-----------------------------------------------------------------------------
(* Sold cars.                                                              *)

\* What a request does to the listings, other than the refund of an order.
VehicleMove(v) ==
    \/ vehicle'[v] \in {vehicle[v], "SOLD"}
    \/ vehicle[v] = "AVAILABLE" /\ vehicle'[v] = "RESERVED"
    \/ vehicle[v] = "RESERVED" /\ vehicle'[v] = "AVAILABLE"

VehicleMoves == \A v \in Vehicles : VehicleMove(v)

\* The order on car v that is refunded by a step.
Refunds(v) ==
    \E o \in Orders : /\ vehicleOf[o] = v
                      /\ orders[o].status = "PAID_HELD"
                      /\ orders'[o].status = "REFUNDED"

LEMMA ReserveMoves ==
    ASSUME IInv, NEW v, vehicle' = Reserve(v)
    PROVE  VehicleMoves
  BY DEF IInv, TypeOK, Reserve, VehicleMoves, VehicleMove

LEMMA ServeVehicles ==
    ASSUME IInv, NEW w \in Workers, Serve(w), ~ResolveDisputeWrite(w)
    PROVE  VehicleMoves
  <1>1. CASE UNCHANGED vehicle
    BY <1>1 DEF VehicleMoves, VehicleMove
  <1>2. ASSUME NEW n, Fund(w, n) PROVE VehicleMoves
    BY <1>1, <1>2, ReserveMoves DEF Fund
  <1>3. ASSUME CompletePurchase(w) PROVE VehicleMoves
    <2>1. CASE vehicle' = [vehicle EXCEPT ![vehicleOf[req[w].order]] = "SOLD"]
      BY <2>1 DEF VehicleMoves, VehicleMove, IInv, TypeOK
    <2>2. QED
      BY <1>1, <1>3, <2>1 DEF CompletePurchase
  <1>4. CASE ConfirmHandoverWrite(w)
    BY <1>1, <1>4, ReserveMoves DEF ConfirmHandoverWrite
  <1>5. CASE CancelCommit(w)
    BY <1>5 DEF CancelCommit, VehicleMoves, VehicleMove, IInv, TypeOK
  <1>6. CASE \/ DupCheck(w) \/ OfferRead(w) \/ InitiatePurchaseCommit(w)
             \/ OnEscrowFunded(w) \/ ReleasePayoutWrite(w) \/ CancelClaim(w)
             \/ SelectClear(w) \/ SelectCommit(w)
    BY <1>1, <1>6 DEF DupCheck, OfferRead, InitiatePurchaseCommit, OnEscrowFunded,
        ReleasePayoutWrite, CancelClaim, SelectClear, SelectCommit
  <1>7. CASE \/ ClaimPaymentWrite(w) \/ RejectPurchasePaymentWrite(w)
             \/ SellerHandoverWrite(w) \/ OpenDisputeWrite(w)
    BY <1>1, <1>7 DEF ClaimPaymentWrite, RejectPurchasePaymentWrite,
        SellerHandoverWrite, OpenDisputeWrite, Update
  <1>8. QED
    BY <1>1, <1>2, <1>3, <1>4, <1>5, <1>6, <1>7
       DEF Serve, VerifyPurchasePaymentWrite, VerifyPurchaseWrite,
           PaystackWebhookWrite, ConfirmReceivedWrite, SellerCollectedWrite

\* A verdict sells the car, or refunds the order on it.
LEMMA ResolveVehicle ==
    ASSUME IInv, NEW w \in Workers, ResolveDisputeWrite(w), NEW v \in Vehicles
    PROVE  VehicleMove(v) \/ Refunds(v)
  <1> DEFINE o == req[w].order
             old == orders[o]
  <1>1. /\ o \in Orders /\ old \in Purchase
        /\ vehicle \in [Vehicles -> VehicleStatus]
        /\ orders \in [Orders -> Purchase]
    BY BusyFacts DEF ResolveDisputeWrite, Writing, IInv, TypeOK
  <1>2. CASE /\ old.status = "PAID_HELD"
             /\ Store(o, RefundBuyer(old))
             /\ vehicle' = [vehicle EXCEPT ![vehicleOf[o]] = "AVAILABLE"]
    <2>1. CASE v # vehicleOf[o]
      BY <1>1, <1>2, <2>1 DEF VehicleMove
    <2>2. RefundBuyer(old).status = "REFUNDED"
      BY <1>1 DEF RefundBuyer, Purchase
    <2>3. orders'[o] = RefundBuyer(old)
      BY <1>1, <1>2 DEF Store
    <2>4. QED
      BY <1>1, <1>2, <2>1, <2>2, <2>3 DEF Refunds
  <1>3. CASE vehicle' = [vehicle EXCEPT ![vehicleOf[o]] = "SOLD"]
    BY <1>1, <1>3 DEF VehicleMove
  <1>4. CASE UNCHANGED vehicle
    BY <1>4 DEF VehicleMove
  <1>5. QED
    BY <1>2, <1>3, <1>4 DEF ResolveDisputeWrite

LEMMA NextVehicles ==
    ASSUME IInv, [Next]_vars, NEW v \in Vehicles
    PROVE  VehicleMove(v) \/ Refunds(v)
  <1>1. CASE UNCHANGED vehicle
    BY <1>1 DEF VehicleMove
  <1>2. ASSUME NEW w \in Workers, Arrive(w) PROVE UNCHANGED vehicle
    BY <1>2 DEF Arrive, Begin,
        InitiatePurchaseRead, VerifyPurchasePaymentRead, VerifyPurchaseRead,
        PaystackWebhookRead, ClaimPaymentRead, RejectPurchasePaymentRead,
        SellerHandoverRead, OpenDisputeRead, ResolveDisputeRead,
        ConfirmReceivedRead, ConfirmHandoverRead, SellerCollectedRead,
        ReleasePayoutRead, CancelPurchaseRead, SelectBuyerRead
  <1>3. ASSUME NEW w \in Workers, Serve(w) PROVE VehicleMove(v) \/ Refunds(v)
    BY <1>3, ServeVehicles, ResolveVehicle DEF VehicleMoves
  <1>4. QED
    BY <1>1, <1>2, <1>3
       DEF Next, vars, Abandon, InitializePurchasePayment, PaystackCharge

\* A SOLD car returns to the market only with the refund of its order: no
\* stale cancellation, funding or handover brings it back.
THEOREM SoldCorrect == Spec => SoldUntilRefund
  <1> DEFINE SoldStep ==
        \A v \in Vehicles : vehicle[v] = "SOLD" /\ vehicle'[v] # "SOLD" =>
            \E o \in Orders : /\ vehicleOf[o] = v
                              /\ orders[o].status = "PAID_HELD"
                              /\ orders'[o].status = "REFUNDED"
  <1>1. IInv /\ [Next]_vars => [SoldStep]_vars
    BY NextVehicles DEF VehicleMove, Refunds
  <1>2. QED
    BY <1>1, Invariance, PTL DEF Spec, SoldUntilRefund

-----------------------------------------------------------------------------
(* One request at a time.                                                  *)

\* At most one request is in flight.
OneRequest ==
    \A u, w \in Workers : ~At(u, "idle") /\ ~At(w, "idle") => u = w

\* The platform has never let a buyer place a second open order on a car,
\* also when orders were still paid by card.
OldOrdersDiffer ==
    \A o, x \in Orders :
        /\ o # x /\ vehicleOf[o] = vehicleOf[x] /\ buyerOf[o] = buyerOf[x]
        /\ methodOf[o] = "PAYSTACK"
        => methodOf[x] # "PAYSTACK"

\* What request w has read is still so.
StillSo(w) ==
    LET o == req[w].order
    IN  /\ ~At(w, "onEscrowFunded") => req[w].seen = orders[o].status
        /\ req[w].at \in {"dupChecked", "offerRead"} => Duplicates(o) = {}
        /\ At(w, "offerRead") =>
               \A f \in Offers : req[w].deal = f => offers[f] = "ACCEPTED"
        /\ At(w, "openDispute") => orders[o].status = "PAID_HELD"
        /\ req[w].at \in {"confirmReceived", "sellerCollected", "cancelPurchase"}
                             \cup CancelStages => orders[o].dispute # "OPEN"
        /\ At(w, "releasePayout") => orders[o].payout = "PENDING"
        /\ At(w, "cancelKeeping") => ~MustFree(w)
        /\ At(w, "selectCleared") => req[w].cleared = Selected(o)

ReadInv == \A w \in Workers : ~At(w, "idle") => StillSo(w)

\* An agreed price in an order is used, and a payout is sent once.
UsedInv ==
    \A o \in Orders : \A f \in Offers : orders[o].deal = f => offers[f] = "USED"

SentInv ==
    \A o \in Orders :
        effects[o].releases = IF orders[o].payout = "SENT" THEN 1 ELSE 0

TablesInv ==
    /\ DisputeIsOnEscrow
    /\ SentInv
    /\ OneOpenOrderPerBuyer
    /\ OneChosenBuyer
    /\ UsedInv
    /\ AgreedPriceUsedOnce
    /\ ReservationHasHolder

LEMMA IdleAt ==
    ASSUME IInv, NEW w \in Workers, Finish(w)
    PROVE  /\ req'[w].at = "idle"
           /\ \A u \in Workers \ {w} : req'[u] = req[u]
  BY DEF IInv, TypeOK, Finish, Idle

\* When the only request ends, nobody relies on anything.
LEMMA FinishReads ==
    ASSUME IInv, OneRequest, NEW w \in Workers, ~At(w, "idle"), Finish(w)
    PROVE  ReadInv'
  <1>1. \A u \in Workers : req'[u].at = "idle"
    BY IdleAt DEF OneRequest
  <1>2. QED
    BY <1>1 DEF ReadInv

\* When the only request goes on, what it relies on must be so.
LEMMA AdvanceReads ==
    ASSUME IInv, OneRequest, NEW w \in Workers, ~At(w, "idle"),
           \A u \in Workers \ {w} : req'[u] = req[u], StillSo(w)'
    PROVE  ReadInv'
  <1>1. \A u \in Workers \ {w} : req'[u].at = "idle"
    BY DEF OneRequest
  <1>2. QED
    BY <1>1 DEF ReadInv

\* A request that arrives has read what is so.
LEMMA ArriveReads ==
    ASSUME IInv, ReadInv, NEW w \in Workers, Arrive(w)
    PROVE  ReadInv'
  <1> PICK o \in Orders :
        \/ InitiatePurchaseRead(w, o)
        \/ VerifyPurchasePaymentRead(w, o)
        \/ VerifyPurchaseRead(w, o)
        \/ PaystackWebhookRead(w, o)
        \/ ClaimPaymentRead(w, o)
        \/ RejectPurchasePaymentRead(w, o)
        \/ SellerHandoverRead(w, o)
        \/ OpenDisputeRead(w, o)
        \/ ResolveDisputeRead(w, o)
        \/ ConfirmReceivedRead(w, o)
        \/ ConfirmHandoverRead(w, o)
        \/ SellerCollectedRead(w, o)
        \/ ReleasePayoutRead(w, o)
        \/ CancelPurchaseRead(w, o)
        \/ SelectBuyerRead(w, o)
    BY DEF Arrive
  <1> DEFINE Checked(h) ==
        /\ h \notin CancelStages \cup {"dupChecked", "offerRead", "selectCleared"}
        /\ h = "openDispute" => orders[o].status = "PAID_HELD"
        /\ h = "releasePayout" => orders[o].payout = "PENDING"
        /\ h \in {"confirmReceived", "sellerCollected", "cancelPurchase"}
               => orders[o].dispute # "OPEN"
  <1>1. ASSUME NEW h, Begin(w, h, o), Checked(h) PROVE ReadInv'
    <2>1. /\ UNCHANGED db
          /\ req'[w].at = h /\ req'[w].order = o
          /\ req'[w].seen = orders[o].status
          /\ \A u \in Workers \ {w} : req'[u] = req[u]
      BY <1>1 DEF IInv, TypeOK, Begin, Idle
    <2>2. StillSo(w)'
      BY <1>1, <2>1 DEF StillSo, CancelStages
    <2>3. ASSUME NEW u \in Workers \ {w}, ~At(u, "idle")' PROVE StillSo(u)'
      <3>1. StillSo(u) /\ req'[u] = req[u] /\ UNCHANGED db
        BY <2>1, <2>3 DEF ReadInv
      <3>2. QED
        BY <3>1 DEF StillSo, Duplicates, Selected, MustFree, Siblings
    <2>4. QED
      BY <2>2, <2>3 DEF ReadInv
  <1>2. ASSUME NEW h \in {"initiatePurchase", "verifyPurchasePayment",
                          "verifyPurchase", "paystackWebhook", "claimPayment",
                          "rejectPurchasePayment", "sellerHandover",
                          "resolveDispute", "confirmHandover", "selectBuyer"},
               Begin(w, h, o)
        PROVE  ReadInv'
    <2>1. Checked(h)
      BY <1>2 DEF CancelStages
    <2>2. QED
      BY <1>1, <1>2, <2>1
  <1>3. CASE OpenDisputeRead(w, o)
    <2>1. Checked("openDispute")
      BY <1>3 DEF OpenDisputeRead, CancelStages
    <2>2. QED
      BY <1>1, <1>3, <2>1 DEF OpenDisputeRead
  <1>4. CASE ReleasePayoutRead(w, o)
    <2>1. Checked("releasePayout")
      BY <1>4 DEF ReleasePayoutRead, CancelStages
    <2>2. QED
      BY <1>1, <1>4, <2>1 DEF ReleasePayoutRead
  <1>5. CASE ConfirmReceivedRead(w, o)
    <2>1. Checked("confirmReceived")
      BY <1>5 DEF ConfirmReceivedRead, CancelStages
    <2>2. QED
      BY <1>1, <1>5, <2>1 DEF ConfirmReceivedRead
  <1>6. CASE SellerCollectedRead(w, o)
    <2>1. orders[o].dispute # "OPEN"
      BY <1>6 DEF SellerCollectedRead, IInv, AllRowsInv, RowInv
    <2>2. Checked("sellerCollected")
      BY <2>1 DEF CancelStages
    <2>3. QED
      BY <1>1, <1>6, <2>2 DEF SellerCollectedRead
  <1>7. CASE CancelPurchaseRead(w, o)
    <2>1. Checked("cancelPurchase")
      BY <1>7 DEF CancelPurchaseRead, CancelStages
    <2>2. QED
      BY <1>1, <1>7, <2>1 DEF CancelPurchaseRead
  <1>8. QED
    BY <1>2, <1>3, <1>4, <1>5, <1>6, <1>7
       DEF InitiatePurchaseRead, VerifyPurchasePaymentRead, VerifyPurchaseRead,
           PaystackWebhookRead, ClaimPaymentRead, RejectPurchasePaymentRead,
           SellerHandoverRead, ResolveDisputeRead, ConfirmHandoverRead,
           SelectBuyerRead

\* A request that is served relies on what it has just read, or ends.
LEMMA ServeReads ==
    ASSUME IInv, ReadInv, OneRequest, NEW w \in Workers, Serve(w)
    PROVE  ReadInv'
  <1> DEFINE o == req[w].order
  <1>1. ~At(w, "idle")
    BY DEF Serve, DupCheck, OfferRead, InitiatePurchaseCommit,
        VerifyPurchasePaymentWrite, VerifyPurchaseWrite, PaystackWebhookWrite,
        OnEscrowFunded, ClaimPaymentWrite, RejectPurchasePaymentWrite,
        SellerHandoverWrite, OpenDisputeWrite, ResolveDisputeWrite,
        ConfirmReceivedWrite, ConfirmHandoverWrite, SellerCollectedWrite,
        ReleasePayoutWrite, CancelClaim, CancelCommit, SelectClear, SelectCommit,
        Writing, CancelStages
  <1>2. StillSo(w) /\ req[w] \in Request /\ req \in [Workers -> Request]
    BY <1>1 DEF ReadInv, IInv, TypeOK
  <1>3. CASE Finish(w)
    BY <1>1, <1>3, FinishReads
  <1>4. ASSUME NEW s, Fund(w, s), s \in {"idle", "onEscrowFunded"} PROVE ReadInv'
    <2>1. CASE req' = [req EXCEPT ![w].at = "onEscrowFunded"]
      <3>1. req'[w].at = "onEscrowFunded" /\ \A u \in Workers \ {w} : req'[u] = req[u]
        BY <1>2, <2>1 DEF Request
      <3>2. StillSo(w)'
        BY <3>1 DEF StillSo, CancelStages
      <3>3. QED
        BY <1>1, <3>1, <3>2, AdvanceReads
    <2>2. QED
      BY <1>3, <1>4, <2>1 DEF Fund
  <1>5. CASE DupCheck(w)
    <2>1. CASE /\ Duplicates(o) = {}
               /\ req' = [req EXCEPT ![w].at = "dupChecked"]
               /\ UNCHANGED db
      <3>1. /\ req'[w].at = "dupChecked" /\ req'[w].order = o
            /\ req'[w].seen = req[w].seen
            /\ \A u \in Workers \ {w} : req'[u] = req[u]
        BY <1>2, <2>1 DEF Request
      <3>2. req[w].seen = orders[o].status
        BY <1>2, <1>5 DEF StillSo, DupCheck
      <3>3. StillSo(w)'
        BY <2>1, <3>1, <3>2 DEF StillSo, CancelStages, Duplicates, Siblings
      <3>4. QED
        BY <1>1, <3>1, <3>3, AdvanceReads
    <2>2. QED
      BY <1>3, <1>5, <2>1 DEF DupCheck
  <1>6. CASE OfferRead(w)
    <2> PICK f \in Offers \cup {NoOffer} :
          /\ \/ f \in AcceptedOffers(o)
             \/ f = NoOffer /\ AcceptedOffers(o) = {}
          /\ req' = [req EXCEPT ![w].at = "offerRead", ![w].deal = f]
      BY <1>6 DEF OfferRead
    <2>1. /\ req'[w].at = "offerRead" /\ req'[w].order = o /\ req'[w].deal = f
          /\ req'[w].seen = req[w].seen
          /\ \A u \in Workers \ {w} : req'[u] = req[u]
      BY <1>2 DEF Request
    <2>2. req[w].seen = orders[o].status /\ Duplicates(o) = {} /\ UNCHANGED db
      BY <1>2, <1>6 DEF StillSo, OfferRead
    <2>3. \A g \in Offers : f = g => offers[g] = "ACCEPTED"
      BY ConstantTypes DEF AcceptedOffers
    <2>4. StillSo(w)'
      BY <2>1, <2>2, <2>3 DEF StillSo, CancelStages, Duplicates, Siblings
    <2>5. QED
      BY <1>1, <2>1, <2>4, AdvanceReads
  <1>7. CASE CancelClaim(w)
    <2>1. CASE /\ req' = [req EXCEPT ![w].at = IF MustFree(w) THEN "cancelFreeing"
                                                              ELSE "cancelKeeping"]
               /\ UNCHANGED db
      <3>1. /\ req'[w].at = IF MustFree(w) THEN "cancelFreeing" ELSE "cancelKeeping"
            /\ req'[w].order = o /\ req'[w].seen = req[w].seen
            /\ \A u \in Workers \ {w} : req'[u] = req[u]
        BY <1>2, <2>1 DEF Request
      <3>2. req[w].seen = orders[o].status /\ orders[o].dispute # "OPEN"
        BY <1>2, <1>7 DEF StillSo, CancelClaim, Writing
      <3>3. MustFree(w)' <=> MustFree(w)
        BY <2>1, <3>1 DEF MustFree, Siblings
      <3>4. StillSo(w)'
        BY <2>1, <3>1, <3>2, <3>3 DEF StillSo
      <3>5. QED
        BY <1>1, <3>1, <3>4, AdvanceReads
    <2>2. QED
      BY <1>3, <1>7, <2>1 DEF CancelClaim
  <1>8. CASE SelectClear(w)
    <2>1. /\ req'[w].at = "selectCleared" /\ req'[w].order = o
          /\ req'[w].seen = req[w].seen /\ req'[w].cleared = Selected(o)
          /\ \A u \in Workers \ {w} : req'[u] = req[u]
          /\ UNCHANGED db
      BY <1>2, <1>8 DEF Request, SelectClear
    <2>2. req[w].seen = orders[o].status
      BY <1>2, <1>8 DEF StillSo, SelectClear
    <2>3. StillSo(w)'
      BY <2>1, <2>2 DEF StillSo, CancelStages, Selected, Siblings
    <2>4. QED
      BY <1>1, <2>1, <2>3, AdvanceReads
  <1>9. QED
    BY <1>3, <1>4, <1>5, <1>6, <1>7, <1>8
       DEF Serve, InitiatePurchaseCommit, VerifyPurchasePaymentWrite,
           VerifyPurchaseWrite, PaystackWebhookWrite, OnEscrowFunded,
           ClaimPaymentWrite, RejectPurchasePaymentWrite, SellerHandoverWrite,
           OpenDisputeWrite, Update, ResolveDisputeWrite, ConfirmReceivedWrite,
           SellerCollectedWrite, CompletePurchase, ConfirmHandoverWrite,
           ReleasePayoutWrite, CancelCommit, SelectCommit

LEMMA NextReads ==
    ASSUME IInv, ReadInv, OneRequest, [Next]_vars
    PROVE  ReadInv'
  <1>1. CASE UNCHANGED <<vehicle, orders, offers, req>>
    BY <1>1 DEF ReadInv, StillSo, Duplicates, Selected, MustFree, Siblings
  <1>2. ASSUME NEW w \in Workers, Abandon(w) PROVE ReadInv'
    BY <1>2, FinishReads DEF Abandon
  <1>3. QED
    BY <1>1, <1>2, ArriveReads, ServeReads
       DEF Next, vars, InitializePurchasePayment, PaystackCharge

\* Nothing that the tables promise depends on requests or on Paystack.
LEMMA TablesUnchanged ==
    ASSUME TablesInv, UNCHANGED <<vehicle, orders, offers>>,
           \A o \in Orders : effects'[o].releases = effects[o].releases
    PROVE  TablesInv'
  BY DEF TablesInv, DisputeIsOnEscrow, SentInv, OneOpenOrderPerBuyer,
      OneChosenBuyer, UsedInv, AgreedPriceUsedOnce, ReservationHasHolder

\* A car that is RESERVED after order o has become row has a holder: it is
\* this order, another one, or the one it had before.
HolderStays(o, row) ==
    \A v \in Vehicles : vehicle'[v] = "RESERVED" =>
        \/ v = vehicleOf[o] /\ row.status \in Confirmed
        \/ /\ v = vehicleOf[o]
           /\ \E x \in Siblings(o) : orders[x].status \in Confirmed
        \/ /\ vehicle[v] = "RESERVED"
           /\ v = vehicleOf[o] => orders[o].status \notin Confirmed

\* An update of one order keeps what the tables promise.
LEMMA StoreTables ==
    ASSUME IInv, TablesInv, NEW o \in Orders, NEW row \in Purchase, Store(o, row),
           row.status \in Open => orders[o].status \in Open,
           row.status \in Unpaid /\ row.selected =>
               orders[o].status \in Unpaid /\ orders[o].selected,
           row.deal = orders[o].deal,
           row.dispute = "OPEN" => row.status = "PAID_HELD",
           (row.payout = "SENT") <=> (orders[o].payout = "SENT"),
           HolderStays(o, row), UNCHANGED <<offers, effects>>
    PROVE  TablesInv'
  <1>1. /\ orders'[o] = row
        /\ \A x \in Orders \ {o} : orders'[x] = orders[x]
    BY DEF IInv, TypeOK, Store
  <1>2. DisputeIsOnEscrow'
    BY <1>1 DEF TablesInv, DisputeIsOnEscrow
  <1>3. SentInv'
    BY <1>1 DEF TablesInv, SentInv
  <1>4. OneOpenOrderPerBuyer'
    <2>1. \A x \in Orders : orders'[x].status \in Open => orders[x].status \in Open
      BY <1>1
    <2>2. QED
      BY <2>1 DEF TablesInv, OneOpenOrderPerBuyer
  <1>5. OneChosenBuyer'
    <2>1. \A x \in Orders : orders'[x].status \in Unpaid /\ orders'[x].selected =>
                orders[x].status \in Unpaid /\ orders[x].selected
      BY <1>1
    <2>2. QED
      BY <2>1 DEF TablesInv, OneChosenBuyer
  <1>6. UsedInv' /\ AgreedPriceUsedOnce'
    <2>1. \A x \in Orders : orders'[x].deal = orders[x].deal
      BY <1>1
    <2>2. QED
      BY <2>1 DEF TablesInv, UsedInv, AgreedPriceUsedOnce
  <1>7. ReservationHasHolder'
    <2> SUFFICES ASSUME NEW v \in Vehicles, vehicle'[v] = "RESERVED"
                 PROVE  \E x \in Orders : vehicleOf[x] = v /\ orders'[x].status \in Confirmed
      BY DEF ReservationHasHolder
    <2>1. CASE v = vehicleOf[o] /\ row.status \in Confirmed
      BY <2>1, <1>1
    <2>2. CASE /\ v = vehicleOf[o]
               /\ \E x \in Siblings(o) : orders[x].status \in Confirmed
      BY <2>2, <1>1 DEF Siblings
    <2>3. CASE /\ vehicle[v] = "RESERVED"
               /\ v = vehicleOf[o] => orders[o].status \notin Confirmed
      <3>1. PICK x \in Orders : vehicleOf[x] = v /\ orders[x].status \in Confirmed
        BY <2>3 DEF TablesInv, ReservationHasHolder
      <3>2. x # o
        BY <2>3, <3>1
      <3>3. QED
        BY <1>1, <3>1, <3>2
    <2>4. QED
      BY <2>1, <2>2, <2>3 DEF HolderStays
  <1>8. QED
    BY <1>2, <1>3, <1>4, <1>5, <1>6, <1>7 DEF TablesInv

\* What a served request may use.
LEMMA SerialFacts ==
    ASSUME IInv, ReadInv, TablesInv, NEW w \in Workers, ~At(w, "idle")
    PROVE  /\ req[w].order \in Orders
           /\ vehicleOf[req[w].order] \in Vehicles
           /\ orders[req[w].order] \in Purchase
           /\ RowInv(orders[req[w].order], methodOf[req[w].order])
           /\ StillSo(w)
           /\ orders[req[w].order].dispute = "OPEN" =>
                  orders[req[w].order].status = "PAID_HELD"
           /\ vehicle \in [Vehicles -> VehicleStatus]
  BY BusyFacts DEF ReadInv, TablesInv, DisputeIsOnEscrow, IInv, TypeOK

\* An update that keeps the status of its order.
LEMMA UpdateTables ==
    ASSUME IInv, ReadInv, TablesInv, NEW w \in Workers, ~At(w, "idle"),
           NEW row \in Purchase, Update(w, row),
           row.status = orders[req[w].order].status,
           row.selected = orders[req[w].order].selected,
           row.deal = orders[req[w].order].deal,
           row.payout = orders[req[w].order].payout,
           row.dispute = "OPEN" => row.status = "PAID_HELD"
    PROVE  TablesInv'
  <1>1. HolderStays(req[w].order, row)
    BY DEF HolderStays, Update
  <1>2. QED
    BY <1>1, SerialFacts, StoreTables DEF Update

LEMMA ClaimsTables ==
    ASSUME IInv, ReadInv, TablesInv, NEW w \in Workers,
           \/ ClaimPaymentWrite(w) \/ RejectPurchasePaymentWrite(w)
           \/ SellerHandoverWrite(w) \/ OpenDisputeWrite(w)
    PROVE  TablesInv'
  <1> DEFINE old == orders[req[w].order]
  <1>1. ~At(w, "idle")
    BY DEF ClaimPaymentWrite, RejectPurchasePaymentWrite, SellerHandoverWrite,
        OpenDisputeWrite, Writing
  <1>2. /\ old \in Purchase
        /\ old.dispute = "OPEN" => old.status = "PAID_HELD"
        /\ At(w, "openDispute") => old.status = "PAID_HELD"
    BY <1>1, SerialFacts DEF StillSo
  <1>3. CASE ClaimPaymentWrite(w)
    <2> DEFINE row == [old EXCEPT !.claimed = TRUE]
    <2>1. /\ row \in Purchase /\ row.status = old.status
          /\ row.selected = old.selected /\ row.deal = old.deal
          /\ row.payout = old.payout /\ row.dispute = old.dispute
      BY <1>2 DEF Purchase
    <2>2. Update(w, row)
      BY <1>3 DEF ClaimPaymentWrite
    <2> HIDE DEF row
    <2>3. QED
      BY <1>1, <1>2, <2>1, <2>2, UpdateTables
  <1>4. CASE RejectPurchasePaymentWrite(w)
    <2> DEFINE row == [old EXCEPT !.claimed = FALSE]
    <2>1. /\ row \in Purchase /\ row.status = old.status
          /\ row.selected = old.selected /\ row.deal = old.deal
          /\ row.payout = old.payout /\ row.dispute = old.dispute
      BY <1>2 DEF Purchase
    <2>2. Update(w, row)
      BY <1>4 DEF RejectPurchasePaymentWrite
    <2> HIDE DEF row
    <2>3. QED
      BY <1>1, <1>2, <2>1, <2>2, UpdateTables
  <1>5. CASE SellerHandoverWrite(w)
    <2> DEFINE row == [old EXCEPT !.handed = TRUE]
    <2>1. /\ row \in Purchase /\ row.status = old.status
          /\ row.selected = old.selected /\ row.deal = old.deal
          /\ row.payout = old.payout /\ row.dispute = old.dispute
      BY <1>2 DEF Purchase
    <2>2. Update(w, row)
      BY <1>5 DEF SellerHandoverWrite
    <2> HIDE DEF row
    <2>3. QED
      BY <1>1, <1>2, <2>1, <2>2, UpdateTables
  <1>6. CASE OpenDisputeWrite(w)
    <2> DEFINE row == [old EXCEPT !.dispute = "OPEN"]
    <2>1. /\ row \in Purchase /\ row.status = old.status
          /\ row.selected = old.selected /\ row.deal = old.deal
          /\ row.payout = old.payout
      BY <1>2 DEF Purchase
    <2>2. Update(w, row) /\ old.status = "PAID_HELD"
      BY <1>2, <1>6 DEF OpenDisputeWrite, Writing
    <2> HIDE DEF row
    <2>3. QED
      BY <1>1, <1>2, <2>1, <2>2, UpdateTables
  <1>7. QED
    BY <1>3, <1>4, <1>5, <1>6

\* The car of an order that is paid for or delivered is RESERVED or was not
\* on the market.
LEMMA ReserveHolder ==
    ASSUME IInv, NEW o \in Orders, NEW row, vehicle' = Reserve(vehicleOf[o]),
           row.status \in Confirmed
    PROVE  HolderStays(o, row)
  BY ConstantTypes DEF IInv, TypeOK, Reserve, HolderStays

\* A verdict or a completion decides what becomes of the car.
LEMMA DecidedHolder ==
    ASSUME IInv, NEW o \in Orders, NEW row, NEW st, st # "RESERVED",
           vehicle' = [vehicle EXCEPT ![vehicleOf[o]] = st]
    PROVE  HolderStays(o, row)
  BY ConstantTypes DEF IInv, TypeOK, HolderStays

LEMMA FundTables ==
    ASSUME IInv, ReadInv, TablesInv, NEW w \in Workers, ~At(w, "idle"),
           NEW s, Fund(w, s)
    PROVE  TablesInv'
  <1> DEFINE o   == req[w].order
             old == orders[o]
             row == Funded(old)
  <1>1. CASE UNCHANGED <<orders, vehicle>>
    BY <1>1, TablesUnchanged DEF Fund
  <1>2. CASE /\ old.status = "AWAITING_PAYMENT" /\ Store(o, row)
             /\ vehicle' = Reserve(vehicleOf[o])
    <2>1. o \in Orders /\ old \in Purchase
      BY SerialFacts
    <2>2. /\ row \in Purchase /\ row.status = "PAID_HELD" /\ row.deal = old.deal
          /\ row.payout = old.payout
      BY <2>1 DEF Funded, Purchase, PurchaseStatus
    <2> HIDE DEF row
    <2>3. HolderStays(o, row)
      BY <1>2, <2>1, <2>2, ReserveHolder DEF Confirmed
    <2>4. UNCHANGED <<offers, effects>>
      BY DEF Fund
    <2>5. QED
      BY <1>2, <2>1, <2>2, <2>3, <2>4, StoreTables DEF Open, Unpaid, Confirmed
  <1>3. QED
    BY <1>1, <1>2 DEF Fund

LEMMA HandoverTables ==
    ASSUME IInv, ReadInv, TablesInv, NEW w \in Workers, ConfirmHandoverWrite(w)
    PROVE  TablesInv'
  <1> DEFINE o   == req[w].order
             old == orders[o]
             row == [old EXCEPT !.status = "DELIVERED"]
  <1>0. ~At(w, "idle")
    BY DEF ConfirmHandoverWrite, Writing
  <1>1. CASE UNCHANGED <<orders, vehicle>>
    BY <1>1, TablesUnchanged DEF ConfirmHandoverWrite
  <1>2. CASE /\ old.status = "HANDOVER_PENDING" /\ Store(o, row)
             /\ vehicle' = Reserve(vehicleOf[o])
    <2>1. o \in Orders /\ old \in Purchase /\ old.dispute # "OPEN"
      BY <1>0, <1>2, SerialFacts
    <2>2. /\ row \in Purchase /\ row.status = "DELIVERED" /\ row.deal = old.deal
          /\ row.payout = old.payout /\ row.dispute = old.dispute
      BY <2>1 DEF Purchase, PurchaseStatus
    <2> HIDE DEF row
    <2>3. HolderStays(o, row)
      BY <1>2, <2>1, <2>2, ReserveHolder DEF Confirmed
    <2>4. UNCHANGED <<offers, effects>>
      BY DEF ConfirmHandoverWrite
    <2>5. QED
      BY <1>2, <2>1, <2>2, <2>3, <2>4, StoreTables DEF Open, Unpaid, Confirmed
  <1>3. QED
    BY <1>1, <1>2 DEF ConfirmHandoverWrite

LEMMA VerdictTables ==
    ASSUME IInv, ReadInv, TablesInv, NEW w \in Workers, ResolveDisputeWrite(w)
    PROVE  TablesInv'
  <1> DEFINE o   == req[w].order
             old == orders[o]
  <1>0. ~At(w, "idle")
    BY DEF ResolveDisputeWrite, Writing
  <1>1. CASE UNCHANGED <<orders, vehicle>>
    BY <1>1, TablesUnchanged DEF ResolveDisputeWrite
  <1>2. ASSUME NEW row, NEW st \in {"AVAILABLE", "SOLD"},
               row \in {RefundBuyer(old), ReleaseSeller(old)},
               old.status = "PAID_HELD", Store(o, row),
               vehicle' = [vehicle EXCEPT ![vehicleOf[o]] = st]
        PROVE  TablesInv'
    <2>1. /\ o \in Orders /\ old \in Purchase
          /\ RowInv(old, methodOf[o])
      BY <1>0, SerialFacts
    <2>2. old.payout = "NONE"
      BY <1>2, <2>1 DEF RowInv
    <2>3. /\ row \in Purchase /\ row.status \in {"REFUNDED", "COMPLETED"}
          /\ row.deal = old.deal /\ row.payout # "SENT" /\ row.dispute # "OPEN"
      BY <1>2, <2>1, <2>2 DEF Purchase, PurchaseStatus, RefundBuyer, ReleaseSeller
    <2>4. HolderStays(o, row)
      BY <1>2, <2>1, DecidedHolder
    <2>5. UNCHANGED <<offers, effects>>
      BY DEF ResolveDisputeWrite
    <2>6. QED
      BY <1>2, <2>1, <2>2, <2>3, <2>4, <2>5, StoreTables DEF Open, Unpaid, Confirmed
  <1>3. QED
    BY <1>1, <1>2 DEF ResolveDisputeWrite

LEMMA CompleteTables ==
    ASSUME IInv, ReadInv, TablesInv, NEW w \in Workers,
           req[w].at \in {"confirmReceived", "sellerCollected"}, CompletePurchase(w)
    PROVE  TablesInv'
  <1> DEFINE o    == req[w].order
             old  == orders[o]
             cash == methodOf[o] = "CASH"
             row  == Completed(old, IF cash THEN "NONE" ELSE "PENDING")
  <1>1. CASE UNCHANGED <<orders, vehicle>>
    BY <1>1, TablesUnchanged DEF CompletePurchase
  <1>2. CASE /\ old.status = IF cash THEN "DELIVERED" ELSE "PAID_HELD"
             /\ Store(o, row)
             /\ vehicle' = [vehicle EXCEPT ![vehicleOf[o]] = "SOLD"]
    <2>1. /\ o \in Orders /\ old \in Purchase /\ old.dispute # "OPEN"
          /\ RowInv(old, methodOf[o])
      BY SerialFacts DEF StillSo
    <2>2. old.payout = "NONE"
      BY <1>2, <2>1 DEF RowInv
    <2>3. /\ row \in Purchase /\ row.status = "COMPLETED"
          /\ row.deal = old.deal /\ row.payout # "SENT" /\ row.dispute = old.dispute
      BY <2>1 DEF Purchase, PurchaseStatus, Completed
    <2> HIDE DEF row
    <2>4. HolderStays(o, row)
      BY <1>2, <2>1, DecidedHolder
    <2>5. UNCHANGED <<offers, effects>>
      BY DEF CompletePurchase
    <2>6. QED
      BY <1>2, <2>1, <2>2, <2>3, <2>4, <2>5, StoreTables DEF Open, Unpaid, Confirmed
  <1>3. QED
    BY <1>1, <1>2 DEF CompletePurchase

LEMMA CancelTables ==
    ASSUME IInv, ReadInv, TablesInv, NEW w \in Workers, CancelCommit(w)
    PROVE  TablesInv'
  <1> DEFINE o   == req[w].order
             old == orders[o]
             row == [old EXCEPT !.status = "CANCELLED"]
  <1>0. ~At(w, "idle")
    BY DEF CancelCommit, CancelStages
  <1>1. /\ o \in Orders /\ old \in Purchase /\ old.dispute # "OPEN"
        /\ vehicle \in [Vehicles -> VehicleStatus]
        /\ req[w].seen = old.status
        /\ At(w, "cancelKeeping") => ~MustFree(w)
    BY <1>0, SerialFacts DEF StillSo, CancelCommit, CancelStages
  <1>2. /\ row \in Purchase /\ row.status = "CANCELLED" /\ row.deal = old.deal
        /\ row.payout = old.payout /\ row.dispute = old.dispute
    BY <1>1 DEF Purchase, PurchaseStatus
  <1>3. Store(o, row) /\ UNCHANGED <<offers, effects>>
    BY DEF CancelCommit
  <1> HIDE DEF row
  <1>4. HolderStays(o, row)
    <2>1. CASE At(w, "cancelFreeing")
      BY <2>1, <1>1 DEF CancelCommit, HolderStays
    <2>2. CASE At(w, "cancelKeeping")
      <3>1. vehicle' = vehicle
        BY <2>2 DEF CancelCommit
      <3>2. \/ old.status \notin Confirmed
            \/ \E x \in Siblings(o) : orders[x].status \in Confirmed
        BY <2>2, <1>1 DEF MustFree
      <3>3. QED
        BY <3>1, <3>2 DEF HolderStays
    <2>3. QED
      BY <2>1, <2>2 DEF CancelCommit, CancelStages
  <1>5. QED
    BY <1>1, <1>2, <1>3, <1>4, StoreTables DEF Open, Unpaid, Confirmed

LEMMA ReleaseTables ==
    ASSUME IInv, ReadInv, TablesInv, NEW w \in Workers, ReleasePayoutWrite(w)
    PROVE  TablesInv'
  <1> DEFINE o   == req[w].order
             old == orders[o]
             row == [old EXCEPT !.payout = "SENT"]
  <1>1. /\ o \in Orders /\ old \in Purchase /\ old.payout = "PENDING"
        /\ effects \in [Orders -> [receipts : Nat, releases : Nat]]
        /\ orders \in [Orders -> Purchase]
    BY SerialFacts DEF StillSo, ReleasePayoutWrite, Writing, IInv, TypeOK
  <1>2. /\ row.status = old.status /\ row.selected = old.selected
        /\ row.deal = old.deal /\ row.dispute = old.dispute /\ row.payout = "SENT"
    BY <1>1 DEF Purchase
  <1>3. /\ orders'[o] = row
        /\ \A x \in Orders \ {o} : orders'[x] = orders[x]
        /\ UNCHANGED <<vehicle, offers>>
    BY <1>1 DEF ReleasePayoutWrite, Store
  <1>4. \A x \in Orders : /\ orders'[x].status = orders[x].status
                          /\ orders'[x].selected = orders[x].selected
                          /\ orders'[x].deal = orders[x].deal
                          /\ orders'[x].dispute = orders[x].dispute
    BY <1>2, <1>3
  <1>5. SentInv'
    <2>1. effects'[o].releases = effects[o].releases + 1
      BY <1>1 DEF ReleasePayoutWrite
    <2>2. \A x \in Orders \ {o} : effects'[x] = effects[x]
      BY <1>1 DEF ReleasePayoutWrite
    <2>3. effects[o].releases = 0
      BY <1>1 DEF TablesInv, SentInv
    <2>4. effects'[o].releases = 1
      BY <2>1, <2>3
    <2>5. \A x \in Orders \ {o} :
             effects'[x].releases = IF orders'[x].payout = "SENT" THEN 1 ELSE 0
      BY <1>3, <2>2 DEF TablesInv, SentInv
    <2>6. QED
      BY <1>2, <1>3, <2>4, <2>5 DEF SentInv
  <1>6. QED
    BY <1>3, <1>4, <1>5
       DEF TablesInv, DisputeIsOnEscrow, OneOpenOrderPerBuyer, OneChosenBuyer,
           UsedInv, AgreedPriceUsedOnce, ReservationHasHolder

LEMMA InitiateTables ==
    ASSUME IInv, ReadInv, TablesInv, NEW w \in Workers, InitiatePurchaseCommit(w)
    PROVE  TablesInv'
  <1> DEFINE o   == req[w].order
             f   == req[w].deal
             row == Row(FirstStatus(o), f)
  <1>1. /\ o \in Orders /\ StillSo(w) /\ f \in Offers \cup {NoOffer}
        /\ orders[o].status = "ABSENT"
        /\ orders \in [Orders -> Purchase]
    BY SerialFacts, BusyFacts
       DEF InitiatePurchaseCommit, RelyInv, InitiateStages, IInv, TypeOK, Request
  <1>2. /\ row.status \in Unpaid /\ row.dispute = "NONE" /\ row.payout = "NONE"
        /\ ~row.selected /\ row.deal = f
    BY DEF Row, FirstStatus, Unpaid
  <1>3. /\ orders'[o] = row
        /\ \A x \in Orders \ {o} : orders'[x] = orders[x]
        /\ offers' = [g \in Offers |-> IF g = f THEN "USED" ELSE offers[g]]
        /\ UNCHANGED <<vehicle, effects>>
    BY <1>1 DEF InitiatePurchaseCommit, Store
  <1> HIDE DEF row
  <1>4. /\ Duplicates(o) = {}
        /\ \A g \in Offers : f = g => offers[g] = "ACCEPTED"
    BY <1>1 DEF StillSo, InitiatePurchaseCommit
  <1>5. DisputeIsOnEscrow' /\ OneChosenBuyer'
    BY <1>2, <1>3 DEF TablesInv, DisputeIsOnEscrow, OneChosenBuyer
  <1>6. SentInv'
    <2>1. orders[o].payout = "NONE"
      BY <1>1 DEF IInv, AllRowsInv, RowInv
    <2>2. QED
      BY <1>2, <1>3, <2>1 DEF TablesInv, SentInv
  <1>7. OneOpenOrderPerBuyer'
    <2>1. \A x \in Orders \ {o} :
             vehicleOf[x] = vehicleOf[o] /\ buyerOf[x] = buyerOf[o]
                 => orders'[x].status \notin Open
      BY <1>3, <1>4 DEF Duplicates, Siblings
    <2>2. QED
      BY <1>3, <2>1 DEF TablesInv, OneOpenOrderPerBuyer
  <1>8. UsedInv'
    BY <1>2, <1>3 DEF TablesInv, UsedInv
  <1>9. AgreedPriceUsedOnce'
    <2>1. \A x \in Orders \ {o} : f # NoOffer => orders[x].deal # f
      BY <1>1, <1>4 DEF TablesInv, UsedInv
    <2>2. QED
      BY <1>2, <1>3, <2>1 DEF TablesInv, AgreedPriceUsedOnce
  <1>10. ReservationHasHolder'
    <2>1. \A x \in Orders : orders[x].status \in Confirmed => orders'[x] = orders[x]
      BY <1>1, <1>3 DEF Confirmed
    <2>2. QED
      BY <1>3, <2>1 DEF TablesInv, ReservationHasHolder
  <1>11. QED
    BY <1>5, <1>6, <1>7, <1>8, <1>9, <1>10 DEF TablesInv

LEMMA SelectTables ==
    ASSUME IInv, ReadInv, TablesInv, NEW w \in Workers, SelectCommit(w)
    PROVE  TablesInv'
  <1> DEFINE o == req[w].order
  <1>1. /\ o \in Orders /\ req[w].cleared = Selected(o)
        /\ orders \in [Orders -> Purchase]
    BY SerialFacts DEF StillSo, SelectCommit, Writing, IInv, TypeOK
  <1>2. orders' = [x \in Orders |->
                     IF x = o THEN [orders[x] EXCEPT !.selected = TRUE]
                     ELSE IF x \in Selected(o)
                          THEN [orders[x] EXCEPT !.selected = FALSE]
                          ELSE orders[x]]
    BY <1>1 DEF SelectCommit
  <1>3. ASSUME NEW x \in Orders
        PROVE  /\ orders'[x].status = orders[x].status
               /\ orders'[x].deal = orders[x].deal
               /\ orders'[x].dispute = orders[x].dispute
               /\ orders'[x].payout = orders[x].payout
    <2>1. orders[x] \in Purchase
      BY <1>1
    <2>2. \/ orders'[x] = [orders[x] EXCEPT !.selected = TRUE]
          \/ orders'[x] = [orders[x] EXCEPT !.selected = FALSE]
          \/ orders'[x] = orders[x]
      BY <1>2
    <2>3. QED
      BY <2>1, <2>2 DEF Purchase
  <1>4. ASSUME NEW x \in Orders, x # o, orders'[x].selected
        PROVE  x \notin Selected(o) /\ orders[x].selected
    <2>1. orders[x] \in Purchase
      BY <1>1
    <2>2. CASE x \in Selected(o)
      <3>1. orders'[x] = [orders[x] EXCEPT !.selected = FALSE]
        BY <1>2, <1>4, <2>2
      <3>2. QED
        BY <1>4, <2>1, <3>1 DEF Purchase
    <2>3. CASE x \notin Selected(o)
      BY <1>2, <1>4, <2>3
    <2>4. QED
      BY <2>2, <2>3
  <1>5. OneChosenBuyer'
    <2>1. ASSUME NEW x \in Orders, x # o, vehicleOf[x] = vehicleOf[o],
                 orders'[x].status \in Unpaid
          PROVE  ~orders'[x].selected
      BY <1>3, <1>4, <2>1 DEF Selected, Siblings
    <2>2. QED
      BY <1>3, <1>4, <2>1 DEF TablesInv, OneChosenBuyer
  <1>6. UNCHANGED <<vehicle, offers, effects>>
    BY DEF SelectCommit
  <1>7. QED
    BY <1>3, <1>5, <1>6
       DEF TablesInv, DisputeIsOnEscrow, SentInv, OneOpenOrderPerBuyer,
           UsedInv, AgreedPriceUsedOnce, ReservationHasHolder

LEMMA NextTables ==
    ASSUME IInv, ReadInv, TablesInv, [Next]_vars
    PROVE  TablesInv'
  <1>1. CASE UNCHANGED <<vehicle, orders, offers, effects>>
    BY <1>1, TablesUnchanged
  <1>2. ASSUME NEW w \in Workers, Arrive(w)
        PROVE  UNCHANGED <<vehicle, orders, offers, effects>>
    BY <1>2 DEF Arrive, Begin,
        InitiatePurchaseRead, VerifyPurchasePaymentRead, VerifyPurchaseRead,
        PaystackWebhookRead, ClaimPaymentRead, RejectPurchasePaymentRead,
        SellerHandoverRead, OpenDisputeRead, ResolveDisputeRead,
        ConfirmReceivedRead, ConfirmHandoverRead, SellerCollectedRead,
        ReleasePayoutRead, CancelPurchaseRead, SelectBuyerRead
  <1>3. ASSUME NEW w \in Workers, Serve(w) PROVE TablesInv'
    <2>1. CASE DupCheck(w) \/ OfferRead(w) \/ CancelClaim(w) \/ SelectClear(w)
      BY <1>1, <2>1 DEF DupCheck, OfferRead, CancelClaim, SelectClear
    <2>2. ASSUME NEW h, NEW s, Writing(w, h), h # "idle", Fund(w, s)
          PROVE  TablesInv'
      BY <2>2, FundTables DEF Writing
    <2>3. CASE VerifyPurchaseWrite(w)
      BY <1>1, <2>2, <2>3 DEF VerifyPurchaseWrite
    <2>4. CASE OnEscrowFunded(w)
      <3>1. \A o \in Orders : effects'[o].releases = effects[o].releases
        BY <2>4 DEF OnEscrowFunded, IInv, TypeOK
      <3>2. QED
        BY <2>4, <3>1, TablesUnchanged DEF OnEscrowFunded
    <2>5. CASE ConfirmReceivedWrite(w) \/ SellerCollectedWrite(w)
      BY <2>5, CompleteTables DEF ConfirmReceivedWrite, SellerCollectedWrite, Writing
    <2>6. QED
      BY <1>3, <2>1, <2>2, <2>3, <2>4, <2>5, ClaimsTables, HandoverTables,
         VerdictTables, CancelTables, ReleaseTables, InitiateTables, SelectTables
         DEF Serve, VerifyPurchasePaymentWrite, PaystackWebhookWrite
  <1>4. QED
    BY <1>1, <1>2, <1>3 DEF Next, vars, Abandon, InitializePurchasePayment, PaystackCharge

LEMMA InitTables ==
    ASSUME Init, OldOrdersDiffer
    PROVE  ReadInv /\ TablesInv
  <1>1. \A w \in Workers : req[w].at = "idle"
    BY DEF Init, Idle
  <1>2. \A o \in Orders :
           /\ orders[o].status = IF methodOf[o] = "PAYSTACK" THEN "AWAITING_PAYMENT"
                                                             ELSE "ABSENT"
           /\ orders[o].dispute = "NONE" /\ orders[o].payout = "NONE"
           /\ ~orders[o].selected /\ orders[o].deal = NoOffer
           /\ effects[o].releases = 0
    BY DEF Init, Row
  <1>3. \A v \in Vehicles : vehicle[v] = "AVAILABLE"
    BY DEF Init
  <1>4. OneOpenOrderPerBuyer
    BY <1>2 DEF OldOrdersDiffer, OneOpenOrderPerBuyer, Open, Unpaid, Confirmed
  <1>5. QED
    BY <1>1, <1>2, <1>3, <1>4, ConstantTypes
       DEF ReadInv, TablesInv, DisputeIsOnEscrow, SentInv, OneChosenBuyer, UsedInv,
           AgreedPriceUsedOnce, ReservationHasHolder

\* Handled one at a time, requests keep what the checks of the handlers
\* promise: only escrowed money is in dispute, a payout is recorded once, a
\* buyer has one open order on a car, one buyer is chosen, an agreed price is
\* used once, and a RESERVED car has a holder.
THEOREM OneByOne ==
    ASSUME OldOrdersDiffer
    PROVE  Spec /\ []OneRequest => []OrdersOneByOne
  <1>1. Init => ReadInv /\ TablesInv
    BY InitTables
  <1>2. IInv /\ ReadInv /\ TablesInv /\ OneRequest /\ [Next]_vars
            => ReadInv' /\ TablesInv'
    BY NextReads, NextTables
  <1>3. IInv /\ TablesInv => OrdersOneByOne
    <2> SUFFICES ASSUME IInv, TablesInv PROVE OrdersOneByOne
      OBVIOUS
    <2>1. PayoutSentOnce
      BY DEF TablesInv, SentInv, PayoutSentOnce
    <2>2. QED
      BY <2>1 DEF TablesInv, OrdersOneByOne
  <1>4. QED
    BY <1>1, <1>2, <1>3, Invariance, PTL DEF Spec

\* Handled one at a time, requests leave the money of an order in dispute
\* alone until the administrator's verdict.
THEOREM Frozen == Spec /\ []OneRequest => DisputeFreezes
  <1> DEFINE FrozenStep ==
        \A o \in Orders :
            orders[o].dispute = "OPEN" /\ orders[o].status = "PAID_HELD" =>
                \/ orders'[o].status = "PAID_HELD"
                \/ orders'[o].dispute \in {"RESOLVED_BUYER", "RESOLVED_SELLER"}
  <1>1. Init => ReadInv
    BY DEF Init, Idle, ReadInv
  <1>2. IInv /\ ReadInv /\ OneRequest /\ [Next]_vars => ReadInv'
    BY NextReads
  <1>3. IInv /\ ReadInv /\ [Next]_vars => [FrozenStep]_vars
    <2> SUFFICES ASSUME IInv, ReadInv, [Next]_vars, NEW o \in Orders,
                        orders[o].dispute = "OPEN", orders[o].status = "PAID_HELD"
                 PROVE  \/ orders'[o].status = "PAID_HELD"
                        \/ orders'[o].dispute \in {"RESOLVED_BUYER", "RESOLVED_SELLER"}
      OBVIOUS
    <2>1. CASE UNCHANGED orders
      BY <2>1
    <2>2. ASSUME NEW w \in Workers, Arrive(w) PROVE UNCHANGED orders
      BY <2>2 DEF Arrive, Begin,
          InitiatePurchaseRead, VerifyPurchasePaymentRead, VerifyPurchaseRead,
          PaystackWebhookRead, ClaimPaymentRead, RejectPurchasePaymentRead,
          SellerHandoverRead, OpenDisputeRead, ResolveDisputeRead,
          ConfirmReceivedRead, ConfirmHandoverRead, SellerCollectedRead,
          ReleasePayoutRead, CancelPurchaseRead, SelectBuyerRead
    <2>3. ASSUME NEW w \in Workers, Serve(w)
          PROVE  \/ orders'[o].status = "PAID_HELD"
                 \/ orders'[o].dispute \in {"RESOLVED_BUYER", "RESOLVED_SELLER"}
      <3>0. orders \in [Orders -> Purchase]
        BY DEF IInv, TypeOK
      <3>1. ASSUME NEW row, Store(req[w].order, row), req[w].order = o =>
                        \/ row.status = "PAID_HELD"
                        \/ row.dispute \in {"RESOLVED_BUYER", "RESOLVED_SELLER"}
            PROVE  \/ orders'[o].status = "PAID_HELD"
                   \/ orders'[o].dispute \in {"RESOLVED_BUYER", "RESOLVED_SELLER"}
        BY <3>0, <3>1 DEF Store
      <3>2. CASE \/ ClaimPaymentWrite(w) \/ RejectPurchasePaymentWrite(w)
                 \/ SellerHandoverWrite(w) \/ OpenDisputeWrite(w)
                 \/ ReleasePayoutWrite(w)
        BY <3>0, <3>1, <3>2 DEF ClaimPaymentWrite, RejectPurchasePaymentWrite,
            SellerHandoverWrite, OpenDisputeWrite, ReleasePayoutWrite, Update, Purchase
      <3>3. CASE ResolveDisputeWrite(w)
        BY <2>1, <3>0, <3>1, <3>3
           DEF ResolveDisputeWrite, RefundBuyer, ReleaseSeller, Purchase
      <3>4. CASE ConfirmReceivedWrite(w) \/ SellerCollectedWrite(w) \/ CancelCommit(w)
        <4>1. req[w].order # o
          BY <3>4 DEF ReadInv, StillSo, ConfirmReceivedWrite, SellerCollectedWrite,
              Writing, CancelCommit, CancelStages
        <4>2. QED
          BY <2>1, <3>1, <3>4, <4>1 DEF ConfirmReceivedWrite, SellerCollectedWrite,
              CompletePurchase, CancelCommit
      <3>5. ASSUME NEW s, Fund(w, s)
            PROVE  \/ orders'[o].status = "PAID_HELD"
                   \/ orders'[o].dispute \in {"RESOLVED_BUYER", "RESOLVED_SELLER"}
        BY <2>1, <3>0, <3>1, <3>5 DEF Fund, Funded, Purchase
      <3>6. CASE ConfirmHandoverWrite(w)
        BY <2>1, <3>0, <3>1, <3>6 DEF ConfirmHandoverWrite
      <3>7. CASE InitiatePurchaseCommit(w)
        <4>1. req[w].order # o
          BY <3>7, BusyFacts DEF InitiatePurchaseCommit, RelyInv, InitiateStages
        <4>2. QED
          BY <3>1, <3>7, <4>1 DEF InitiatePurchaseCommit
      <3>8. CASE SelectCommit(w)
        <4>1. \/ orders'[o] = [orders[o] EXCEPT !.selected = TRUE]
              \/ orders'[o] = [orders[o] EXCEPT !.selected = FALSE]
              \/ orders'[o] = orders[o]
          BY <3>8 DEF SelectCommit
        <4>2. QED
          BY <3>0, <4>1 DEF Purchase
      <3>9. QED
        BY <2>1, <2>3, <3>2, <3>3, <3>4, <3>5, <3>6, <3>7, <3>8
           DEF Serve, DupCheck, OfferRead, OnEscrowFunded, CancelClaim, SelectClear,
               VerifyPurchasePaymentWrite, VerifyPurchaseWrite, PaystackWebhookWrite
    <2>4. QED
      BY <2>1, <2>2, <2>3
         DEF Next, vars, Abandon, InitializePurchasePayment, PaystackCharge
  <1>4. QED
    BY <1>1, <1>2, <1>3, Invariance, PTL DEF Spec, DisputeFreezes

=============================================================================

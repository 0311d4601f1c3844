----------------------------- MODULE Purchases -----------------------------
(***************************************************************************)
(* The purchase workflow of backend/src/controllers/purchaseController.js, *)
(* with the administrator's purchase endpoints of adminController.js and   *)
(* the purchase branch of the Paystack webhook of billingController.js.    *)
(*                                                                         *)
(* Node runs one handler at a time but lets another in at every await, and *)
(* PostgreSQL runs the transactions at READ COMMITTED.  A handler is       *)
(* therefore at least two steps: one that reads the order and passes the   *)
(* handler's checks, and one that writes, by then from a snapshot that may *)
(* be stale.  A worker is a request in flight; req[w] is what the handler  *)
(* remembers between two awaits.  A transaction whose statements can be    *)
(* usefully interleaved with others is split further: its writes stay in   *)
(* req[w] until its commit, and the rows it has written are locked.        *)
(*                                                                         *)
(* Caller checks (buyer, seller, administrator) only choose who may send a *)
(* request: any request that somebody may send can arrive here.  Amounts,  *)
(* addresses, notes and timestamps are left out; a nullable timestamp is a *)
(* BOOLEAN.  In-app notices are left out, except the escrow receipt.       *)
(***************************************************************************)
EXTENDS Naturals, FiniteSets

CONSTANTS
    Workers,        \* requests that can be in flight at the same time
    Handlers,       \* the handlers this instance exercises (a bound of runs)
    Vehicles,       \* listings
    Orders,         \* checkout attempts; each becomes at most one order row
    Users,
    vehicleOf,      \* the vehicle a checkout attempt is for
    buyerOf,        \* the user who makes it
    methodOf,       \* the payment method it asks for
    sellerOf,       \* the owner of a listing
    Offers,         \* price offers that both sides have accepted
    offerVehicle,   \* the vehicle an offer is about
    offerBuyer,     \* the buyer whose price it freezes
    NoOrder, NoOffer

\* 'BANK_TRANSFER' and 'MOMO' share every branch of the code.
TransferRails == {"BANK_TRANSFER", "MOMO"}

\* PURCHASE_METHODS: what a new order may ask for.  PAYSTACK orders are the
\* history of an earlier version of the platform.
PURCHASE_METHODS == TransferRails \cup {"CASH"}
Methods == PURCHASE_METHODS \cup {"PAYSTACK"}

ASSUME ConstantTypes ==
    /\ vehicleOf \in [Orders -> Vehicles]
    /\ buyerOf \in [Orders -> Users]
    /\ methodOf \in [Orders -> Methods]
    /\ sellerOf \in [Vehicles -> Users]
    /\ offerVehicle \in [Offers -> Vehicles]
    /\ offerBuyer \in [Offers -> Users]
    /\ NoOrder \notin Orders
    /\ NoOffer \notin Offers

VARIABLES
    vehicle,    \* Vehicle.status
    orders,     \* the purchase table
    offers,     \* PriceOffer.status of the accepted offers
    paystack,   \* what Paystack knows of an order's reference
    req,        \* requests in flight
    effects     \* what left the system: receipt mails, payout transfers

db   == <<vehicle, orders, offers, paystack, effects>>
vars == <<db, req>>

-----------------------------------------------------------------------------
(* Tables and requests.                                                    *)

VehicleStatus ==
    {"PENDING", "AVAILABLE", "RESERVED", "REJECTED", "SOLD", "DEACTIVATED",
     "REMOVED"}

PurchaseStatus ==
    {"AWAITING_PAYMENT", "PAID_HELD", "HANDOVER_PENDING", "DELIVERED",
     "COMPLETED", "CANCELLED", "REFUNDED"}

Unpaid    == {"AWAITING_PAYMENT", "HANDOVER_PENDING"}
Confirmed == {"PAID_HELD", "DELIVERED"}
Open      == Unpaid \cup Confirmed
Settled   == {"COMPLETED", "CANCELLED", "REFUNDED"}

\* "ABSENT" stands for a row that has not been inserted.
Purchase ==
    [status   : PurchaseStatus \cup {"ABSENT"},
     dispute  : {"NONE", "OPEN", "RESOLVED_BUYER", "RESOLVED_SELLER"},
     payout   : {"NONE", "PENDING", "SENT"},
     claimed  : BOOLEAN,    \* claimedAt, paymentRef, payerName
     selected : BOOLEAN,    \* selectedBuyerAt
     handed   : BOOLEAN,    \* sellerHandoverAt
     paid     : BOOLEAN,    \* paidAt
     deal     : Offers \cup {NoOffer}]      \* agreedOfferId

Row(status, deal) ==
    [status |-> status, dispute |-> "NONE", payout |-> "NONE",
     claimed |-> FALSE, selected |-> FALSE, handed |-> FALSE, paid |-> FALSE,
     deal |-> deal]

\* Where a handler can be suspended.  A name of a handler means that it has
\* read the order and passed its checks; the others are further awaits.
Stage ==
    {"idle", "initiatePurchase", "dupChecked", "offerRead",
     "verifyPurchase", "paystackWebhook", "claimPayment", "sellerHandover",
     "openDispute", "confirmReceived", "confirmHandover", "sellerCollected",
     "cancelPurchase", "cancelFreeing", "cancelKeeping",
     "selectBuyer", "selectCleared",
     "verifyPurchasePayment", "onEscrowFunded", "rejectPurchasePayment",
     "releasePayout", "resolveDispute"}

InitiateStages == {"initiatePurchase", "dupChecked", "offerRead"}
CancelStages   == {"cancelFreeing", "cancelKeeping"}

Request ==
    [at      : Stage,
     order   : Orders \cup {NoOrder},
     seen    : PurchaseStatus \cup {"ABSENT"},   \* the status it read
     deal    : Offers \cup {NoOffer},            \* the offer it read
     cleared : SUBSET Orders]       \* rows it has deselected, uncommitted

Idle == [at |-> "idle", order |-> NoOrder, seen |-> "ABSENT",
         deal |-> NoOffer, cleared |-> {}]

TypeOK ==
    /\ vehicle \in [Vehicles -> VehicleStatus]
    /\ orders \in [Orders -> Purchase]
    /\ offers \in [Offers -> {"ACCEPTED", "USED"}]
    /\ paystack \in [Orders -> {"none", "link", "paid"}]
    /\ effects \in [Orders -> [receipts : Nat, releases : Nat]]
    /\ req \in [Workers -> Request]

Init ==
    /\ vehicle = [v \in Vehicles |-> "AVAILABLE"]
    /\ orders = [o \in Orders |->
                    Row(IF methodOf[o] = "PAYSTACK" THEN "AWAITING_PAYMENT"
                                                    ELSE "ABSENT", NoOffer)]
    /\ offers = [f \in Offers |-> "ACCEPTED"]
    /\ paystack = [o \in Orders |-> "none"]
    /\ effects = [o \in Orders |-> [receipts |-> 0, releases |-> 0]]
    /\ req = [w \in Workers |-> Idle]

-----------------------------------------------------------------------------
(* Requests and row locks.                                                 *)

Siblings(o) == {x \in Orders \ {o} : vehicleOf[x] = vehicleOf[o]}

At(w, stage) == req[w].at = stage

\* Handler h reads order o and suspends at its first write.
Begin(w, h, o) ==
    /\ At(w, "idle")
    /\ h \in Handlers
    /\ req' = [req EXCEPT ![w] = [Idle EXCEPT !.at = h, !.order = o,
                                              !.seen = orders[o].status]]
    /\ UNCHANGED db

Finish(w) == req' = [req EXCEPT ![w] = Idle]

\* Rows a transaction has updated and not committed: a second UPDATE of the
\* row waits for the commit and then looks at the row again.
Holds(w, o) ==
    \/ req[w].at \in CancelStages /\ req[w].order = o
    \/ req[w].at = "selectCleared" /\ o \in req[w].cleared

Locked(o) == \E w \in Workers : Holds(w, o)

\* Worker w is about to update the order it is working on.
Writing(w, stage) == At(w, stage) /\ ~Locked(req[w].order)

\* Order o becomes the given row.
Store(o, row) == orders' = [orders EXCEPT ![o] = row]

\* A request that updates fields of its order and ends.
Update(w, row) ==
    /\ Store(req[w].order, row)
    /\ Finish(w)
    /\ UNCHANGED <<vehicle, offers, paystack, effects>>

-----------------------------------------------------------------------------
(* initiatePurchase: check the listing; then, in a transaction, look for   *)
(* an open order of the same buyer, look for an accepted offer, insert.    *)

InitiatePurchaseRead(w, o) ==
    /\ orders[o].status = "ABSENT"
    /\ \A u \in Workers : req[u].order # o      \* an attempt is one request
    /\ vehicle[vehicleOf[o]] = "AVAILABLE"
    /\ buyerOf[o] # sellerOf[vehicleOf[o]]
    /\ methodOf[o] \in PURCHASE_METHODS
    /\ Begin(w, "initiatePurchase", o)

\* Variant: an order that nobody has paid for yet is not a duplicate.
ConfirmedDuplicates(o) ==
    {x \in Siblings(o) : buyerOf[x] = buyerOf[o] /\ orders[x].status \in Confirmed}

Duplicates(o) ==
    {x \in Siblings(o) : buyerOf[x] = buyerOf[o] /\ orders[x].status \in Open}

DupCheck(w) ==
    /\ At(w, "initiatePurchase")
    /\ \/ /\ Duplicates(req[w].order) = {}
          /\ req' = [req EXCEPT ![w].at = "dupChecked"]
       \/ /\ Duplicates(req[w].order) # {}
          /\ Finish(w)
    /\ UNCHANGED db

AcceptedOffers(o) ==
    {f \in Offers : /\ offerVehicle[f] = vehicleOf[o]
                    /\ offerBuyer[f] = buyerOf[o]
                    /\ offers[f] = "ACCEPTED"}

\* Which of several accepted offers is the latest is not tracked.
OfferRead(w) ==
    /\ At(w, "dupChecked")
    /\ \E f \in Offers \cup {NoOffer} :
          /\ \/ f \in AcceptedOffers(req[w].order)
             \/ f = NoOffer /\ AcceptedOffers(req[w].order) = {}
          /\ req' = [req EXCEPT ![w].at = "offerRead", ![w].deal = f]
    /\ UNCHANGED db

FirstStatus(o) ==
    IF methodOf[o] = "CASH" THEN "HANDOVER_PENDING" ELSE "AWAITING_PAYMENT"

\* Variant: a cash order is inserted with the column's default status.
InitiateWithDefaultStatus(w) ==
    /\ At(w, "offerRead")
    /\ Store(req[w].order, Row("AWAITING_PAYMENT", req[w].deal))
    /\ offers' = [g \in Offers |-> IF g = req[w].deal THEN "USED" ELSE offers[g]]
    /\ Finish(w)
    /\ UNCHANGED <<vehicle, paystack, effects>>

InitiatePurchaseCommit(w) ==
    LET o == req[w].order
        f == req[w].deal
    IN  /\ At(w, "offerRead")
        /\ Store(o, Row(FirstStatus(o), f))
        /\ offers' = [g \in Offers |-> IF g = f THEN "USED" ELSE offers[g]]
        /\ Finish(w)
        /\ UNCHANGED <<vehicle, paystack, effects>>

-----------------------------------------------------------------------------
(* Money into escrow.  The claim AWAITING_PAYMENT -> PAID_HELD is an       *)
(* updateMany with the old status in its WHERE: only one caller wins.      *)

Reserve(v) == [vehicle EXCEPT ![v] = IF @ = "AVAILABLE" THEN "RESERVED" ELSE @]

Funded(row) == [row EXCEPT !.status = "PAID_HELD", !.paid = TRUE]

\* Variant: the side effects also follow a claim that found nothing.
FundAndAlwaysGoOn(w, next) ==
    LET o == req[w].order
    IN  /\ \/ /\ orders[o].status = "AWAITING_PAYMENT"
              /\ Store(o, Funded(orders[o]))
              /\ vehicle' = Reserve(vehicleOf[o])
           \/ /\ orders[o].status # "AWAITING_PAYMENT"
              /\ UNCHANGED <<orders, vehicle>>
        /\ \/ next = "idle" /\ Finish(w)
           \/ next # "idle" /\ req' = [req EXCEPT ![w].at = next]
        /\ UNCHANGED <<offers, paystack, effects>>

\* The transaction of markEscrowFunded and of applyVerifiedPurchase; the
\* winner goes on at stage next, the loser ends.
Fund(w, next) ==
    LET o == req[w].order
    IN  /\ \/ /\ orders[o].status = "AWAITING_PAYMENT"
              /\ Store(o, Funded(orders[o]))
              /\ vehicle' = Reserve(vehicleOf[o])
              /\ \/ next = "idle" /\ Finish(w)
                 \/ next # "idle" /\ req' = [req EXCEPT ![w].at = next]
           \/ /\ orders[o].status # "AWAITING_PAYMENT"
              /\ Finish(w)
              /\ UNCHANGED <<orders, vehicle>>
        /\ UNCHANGED <<offers, paystack, effects>>

\* PUT /api/admin/purchases/:id/verify-payment
VerifyPurchasePaymentRead(w, o) ==
    /\ methodOf[o] \in TransferRails
    /\ orders[o].status = "AWAITING_PAYMENT"
    /\ Begin(w, "verifyPurchasePayment", o)

VerifyPurchasePaymentWrite(w) ==
    Writing(w, "verifyPurchasePayment") /\ Fund(w, "onEscrowFunded")

\* GET /api/purchases/:id/verify, for a reference that Paystack knows (of
\* any other, verifyTransaction throws before anything is written).
VerifyPurchaseRead(w, o) ==
    /\ paystack[o] # "none"
    /\ orders[o].status \notin {"ABSENT", "PAID_HELD", "COMPLETED", "DELIVERED"}
    /\ Begin(w, "verifyPurchase", o)

VerifyPurchaseWrite(w) ==
    \/ /\ Writing(w, "verifyPurchase")
       /\ paystack[req[w].order] = "paid"
       /\ req[w].seen = "AWAITING_PAYMENT"
       /\ Fund(w, "onEscrowFunded")
    \/ /\ At(w, "verifyPurchase")
       /\ paystack[req[w].order] # "paid" \/ req[w].seen # "AWAITING_PAYMENT"
       /\ Finish(w)
       /\ UNCHANGED db

\* charge.success for an order; Paystack repeats it until it is acknowledged.
PaystackWebhookRead(w, o) ==
    /\ paystack[o] = "paid"
    /\ orders[o].status = "AWAITING_PAYMENT"
    /\ Begin(w, "paystackWebhook", o)

PaystackWebhookWrite(w) ==
    Writing(w, "paystackWebhook") /\ Fund(w, "idle")

\* After the commit: the receipt mail, whose loss is only logged.
OnEscrowFunded(w) ==
    /\ At(w, "onEscrowFunded")
    /\ effects' = [effects EXCEPT ![req[w].order].receipts = @ + 1]
    /\ Finish(w)
    /\ UNCHANGED <<vehicle, orders, offers, paystack>>

\* POST /api/purchases/:id/initialize writes nothing here: Paystack opens a
\* payment page for the order's reference, which the buyer can pay later.
InitializePurchasePayment(o) ==
    /\ methodOf[o] = "PAYSTACK"
    /\ orders[o].status \notin {"PAID_HELD", "COMPLETED"}
    /\ paystack[o] = "none"
    /\ paystack' = [paystack EXCEPT ![o] = "link"]
    /\ UNCHANGED <<vehicle, orders, offers, effects, req>>

PaystackCharge(o) ==
    /\ paystack[o] = "link"
    /\ paystack' = [paystack EXCEPT ![o] = "paid"]
    /\ UNCHANGED <<vehicle, orders, offers, effects, req>>

-----------------------------------------------------------------------------
(* Claims of a transfer, and the seller's handover mark.                   *)

ClaimPaymentRead(w, o) ==
    /\ methodOf[o] \in TransferRails
    /\ orders[o].status = "AWAITING_PAYMENT"
    /\ Begin(w, "claimPayment", o)

ClaimPaymentWrite(w) ==
    /\ Writing(w, "claimPayment")
    /\ Update(w, [orders[req[w].order] EXCEPT !.claimed = TRUE])

\* PUT /api/admin/purchases/:id/reject-payment
RejectPurchasePaymentRead(w, o) ==
    /\ orders[o].status = "AWAITING_PAYMENT"
    /\ orders[o].claimed
    /\ Begin(w, "rejectPurchasePayment", o)

RejectPurchasePaymentWrite(w) ==
    /\ Writing(w, "rejectPurchasePayment")
    /\ Update(w, [orders[req[w].order] EXCEPT !.claimed = FALSE])

SellerHandoverRead(w, o) ==
    /\ methodOf[o] # "CASH"
    /\ orders[o].status = "PAID_HELD"
    /\ ~orders[o].handed
    /\ Begin(w, "sellerHandover", o)

SellerHandoverWrite(w) ==
    /\ Writing(w, "sellerHandover")
    /\ Update(w, [orders[req[w].order] EXCEPT !.handed = TRUE])

-----------------------------------------------------------------------------
(* Disputes.                                                               *)

OpenDisputeRead(w, o) ==
    /\ methodOf[o] # "CASH"
    /\ orders[o].status = "PAID_HELD"
    /\ orders[o].dispute = "NONE"
    /\ Begin(w, "openDispute", o)

\* An UPDATE by id: neither the status nor the dispute is looked at again.
OpenDisputeWrite(w) ==
    /\ Writing(w, "openDispute")
    /\ Update(w, [orders[req[w].order] EXCEPT !.dispute = "OPEN"])

\* PUT /api/admin/purchases/:id/resolve-dispute
ResolveDisputeRead(w, o) ==
    /\ orders[o].dispute = "OPEN"
    /\ orders[o].status = "PAID_HELD"
    /\ Begin(w, "resolveDispute", o)

\* Variant: the refund is recorded in the payout column, which is free text.
RefundMarkedInPayout(row) ==
    [row EXCEPT !.dispute = "RESOLVED_BUYER", !.status = "REFUNDED",
                !.payout = "REFUNDED"]

RefundBuyer(row) ==
    [row EXCEPT !.dispute = "RESOLVED_BUYER", !.status = "REFUNDED"]

ReleaseSeller(row) ==
    [row EXCEPT !.dispute = "RESOLVED_SELLER", !.status = "COMPLETED",
                !.payout = "PENDING"]

\* Variant: the claim looks at the dispute and no more at the status.
ResolveAnyStatus(w) ==
    LET o == req[w].order
    IN  /\ Writing(w, "resolveDispute")
        /\ \/ /\ orders[o].dispute = "OPEN"
              /\ \/ /\ Store(o, RefundBuyer(orders[o]))
                    /\ vehicle' = [vehicle EXCEPT ![vehicleOf[o]] = "AVAILABLE"]
                 \/ /\ Store(o, ReleaseSeller(orders[o]))
                    /\ vehicle' = [vehicle EXCEPT ![vehicleOf[o]] = "SOLD"]
           \/ /\ orders[o].dispute # "OPEN"
              /\ UNCHANGED <<orders, vehicle>>
        /\ Finish(w)
        /\ UNCHANGED <<offers, paystack, effects>>

\* The listing follows the verdict whatever its status and whoever else has
\* an order on it.
ResolveDisputeWrite(w) ==
    LET o == req[w].order
    IN  /\ Writing(w, "resolveDispute")
        /\ \/ /\ orders[o].dispute = "OPEN" /\ orders[o].status = "PAID_HELD"
              /\ \/ /\ Store(o, RefundBuyer(orders[o]))
                    /\ vehicle' = [vehicle EXCEPT ![vehicleOf[o]] = "AVAILABLE"]
                 \/ /\ Store(o, ReleaseSeller(orders[o]))
                    /\ vehicle' = [vehicle EXCEPT ![vehicleOf[o]] = "SOLD"]
           \/ /\ orders[o].dispute # "OPEN" \/ orders[o].status # "PAID_HELD"
              /\ UNCHANGED <<orders, vehicle>>
        /\ Finish(w)
        /\ UNCHANGED <<offers, paystack, effects>>

-----------------------------------------------------------------------------
(* Completion.                                                             *)

Completed(row, payout) ==
    [row EXCEPT !.status = "COMPLETED", !.payout = payout]

\* Variant: a payout is queued whatever the method.
CompleteAndAlwaysPay(w) ==
    LET o == req[w].order
    IN  /\ \/ /\ orders[o].status =
                    IF methodOf[o] = "CASH" THEN "DELIVERED" ELSE "PAID_HELD"
              /\ Store(o, Completed(orders[o], "PENDING"))
              /\ vehicle' = [vehicle EXCEPT ![vehicleOf[o]] = "SOLD"]
           \/ /\ orders[o].status #
                    IF methodOf[o] = "CASH" THEN "DELIVERED" ELSE "PAID_HELD"
              /\ UNCHANGED <<orders, vehicle>>
        /\ Finish(w)
        /\ UNCHANGED <<offers, paystack, effects>>

\* completePurchase, as the whole of its caller's transaction.
CompletePurchase(w) ==
    LET o    == req[w].order
        cash == methodOf[o] = "CASH"
        from == IF cash THEN "DELIVERED" ELSE "PAID_HELD"
    IN  /\ \/ /\ orders[o].status = from
              /\ Store(o, Completed(orders[o],
                                    IF cash THEN "NONE" ELSE "PENDING"))
              /\ vehicle' = [vehicle EXCEPT ![vehicleOf[o]] = "SOLD"]
           \/ /\ orders[o].status # from
              /\ UNCHANGED <<orders, vehicle>>
        /\ Finish(w)
        /\ UNCHANGED <<offers, paystack, effects>>

ConfirmReceivedRead(w, o) ==
    /\ methodOf[o] # "CASH"
    /\ orders[o].status = "PAID_HELD"
    /\ orders[o].dispute # "OPEN"
    /\ Begin(w, "confirmReceived", o)

ConfirmReceivedWrite(w) ==
    Writing(w, "confirmReceived") /\ CompletePurchase(w)

ConfirmHandoverRead(w, o) ==
    /\ methodOf[o] = "CASH"
    /\ orders[o].status = "HANDOVER_PENDING"
    /\ Begin(w, "confirmHandover", o)

\* Variant: the handover is an update by id.
ConfirmHandoverById(w) ==
    LET o == req[w].order
    IN  /\ Writing(w, "confirmHandover")
        /\ Store(o, [orders[o] EXCEPT !.status = "DELIVERED"])
        /\ vehicle' = Reserve(vehicleOf[o])
        /\ Finish(w)
        /\ UNCHANGED <<offers, paystack, effects>>

ConfirmHandoverWrite(w) ==
    LET o == req[w].order
    IN  /\ Writing(w, "confirmHandover")
        /\ \/ /\ orders[o].status = "HANDOVER_PENDING"
              /\ Store(o, [orders[o] EXCEPT !.status = "DELIVERED"])
              /\ vehicle' = Reserve(vehicleOf[o])
           \/ /\ orders[o].status # "HANDOVER_PENDING"
              /\ UNCHANGED <<orders, vehicle>>
        /\ Finish(w)
        /\ UNCHANGED <<offers, paystack, effects>>

SellerCollectedRead(w, o) ==
    /\ methodOf[o] = "CASH"
    /\ orders[o].status = "DELIVERED"
    /\ Begin(w, "sellerCollected", o)

SellerCollectedWrite(w) ==
    Writing(w, "sellerCollected") /\ CompletePurchase(w)

\* Variant: any completed order can be paid out.
ReleaseAnyPayout(w, o) ==
    /\ orders[o].status = "COMPLETED"
    /\ Begin(w, "releasePayout", o)

\* PUT /api/admin/purchases/:id/release-payout
ReleasePayoutRead(w, o) ==
    /\ orders[o].status = "COMPLETED"
    /\ orders[o].payout = "PENDING"
    /\ Begin(w, "releasePayout", o)

\* An UPDATE by id, after a transfer the administrator has made by hand.
ReleasePayoutWrite(w) ==
    LET o == req[w].order
    IN  /\ Writing(w, "releasePayout")
        /\ Store(o, [orders[o] EXCEPT !.payout = "SENT"])
        /\ effects' = [effects EXCEPT ![o].releases = @ + 1]
        /\ Finish(w)
        /\ UNCHANGED <<vehicle, offers, paystack>>

-----------------------------------------------------------------------------
(* cancelPurchase: the claim and the count of other holders are one step;  *)
(* the vehicle is freed, and the claim becomes visible, at the commit.     *)

CancelPurchaseRead(w, o) ==
    /\ orders[o].status \in Open
    /\ orders[o].dispute # "OPEN"
    /\ Begin(w, "cancelPurchase", o)

\* Variant: only an escrowed order is taken to have locked the car.
MustFreeIfEscrowed(w) ==
    /\ req[w].seen = "PAID_HELD"
    /\ \A x \in Siblings(req[w].order) : orders[x].status \notin Confirmed

\* 'if THIS order had locked it and no other confirmed order holds it':
\* decided on the status that was read before the transaction.
MustFree(w) ==
    /\ req[w].seen \in Confirmed
    /\ \A x \in Siblings(req[w].order) : orders[x].status \notin Confirmed

\* Variant: the claim is an update by id.
CancelById(w) ==
    /\ Writing(w, "cancelPurchase")
    /\ req' = [req EXCEPT ![w].at = IF MustFree(w) THEN "cancelFreeing"
                                                  ELSE "cancelKeeping"]
    /\ UNCHANGED db

CancelClaim(w) ==
    /\ Writing(w, "cancelPurchase")
    /\ \/ /\ orders[req[w].order].status \in Open
          /\ req' = [req EXCEPT ![w].at = IF MustFree(w) THEN "cancelFreeing"
                                                        ELSE "cancelKeeping"]
       \/ /\ orders[req[w].order].status \notin Open
          /\ Finish(w)
    /\ UNCHANGED db

\* Variant: the car is freed whatever its status.
CancelAndFreeAlways(w) ==
    LET o == req[w].order
    IN  /\ req[w].at \in CancelStages
        /\ Store(o, [orders[o] EXCEPT !.status = "CANCELLED"])
        /\ vehicle' = IF At(w, "cancelFreeing")
                      THEN [vehicle EXCEPT ![vehicleOf[o]] = "AVAILABLE"]
                      ELSE vehicle
        /\ Finish(w)
        /\ UNCHANGED <<offers, paystack, effects>>

CancelCommit(w) ==
    LET o == req[w].order
        v == vehicleOf[o]
    IN  /\ req[w].at \in CancelStages
        /\ Store(o, [orders[o] EXCEPT !.status = "CANCELLED"])
        /\ vehicle' = IF At(w, "cancelFreeing") /\ vehicle[v] = "RESERVED"
                      THEN [vehicle EXCEPT ![v] = "AVAILABLE"] ELSE vehicle
        /\ Finish(w)
        /\ UNCHANGED <<offers, paystack, effects>>

-----------------------------------------------------------------------------
(* selectBuyer: clear the flag of the other orders, then set one's own.    *)

SelectBuyerRead(w, o) ==
    /\ orders[o].status \in Unpaid
    /\ Begin(w, "selectBuyer", o)

Selected(o) ==
    {x \in Siblings(o) : orders[x].selected /\ orders[x].status \in Unpaid}

SelectClear(w) ==
    LET others == Selected(req[w].order)
    IN  /\ At(w, "selectBuyer")
        /\ \A x \in others : ~Locked(x)
        /\ req' = [req EXCEPT ![w].at = "selectCleared", ![w].cleared = others]
        /\ UNCHANGED db

SelectCommit(w) ==
    LET o == req[w].order
    IN  /\ Writing(w, "selectCleared")
        /\ orders' = [x \in Orders |->
                        IF x = o THEN [orders[x] EXCEPT !.selected = TRUE]
                        ELSE IF x \in req[w].cleared
                             THEN [orders[x] EXCEPT !.selected = FALSE]
                             ELSE orders[x]]
        /\ Finish(w)
        /\ UNCHANGED <<vehicle, offers, paystack, effects>>

-----------------------------------------------------------------------------
(* A request that fails before its next write: an error of the database,   *)
(* the 15 s limit of an interactive transaction, a restart of the server.  *)
(* The transaction it has open is rolled back.                             *)

Abandon(w) == ~At(w, "idle") /\ Finish(w) /\ UNCHANGED db

\* Variant: selectBuyer's transaction has no limit.
TxTimeoutButSelect(w) ==
    /\ req[w].at \in {"dupChecked", "offerRead"} \cup CancelStages
    /\ Abandon(w)

\* The same, for a transaction that has statements behind it: its limit of
\* 15 s ends it whatever it is waiting for.
TxTimeout(w) ==
    /\ req[w].at \in {"dupChecked", "offerRead", "selectCleared"} \cup CancelStages
    /\ Abandon(w)

Arrive(w) ==
    \E o \in Orders :
        \/ InitiatePurchaseRead(w, o)
        \/ VerifyPurchasePaymentRead(w, o)
        \/ VerifyPurchaseRead(w, o)
        \/ PaystackWebhookRead(w, o)
        \/ ClaimPaymentRead(w, o)
        \/ RejectPurchasePaymentRead(w, o)
        \/ SellerHandoverRead(w, o)
        \/ OpenDisputeRead(w, o)
        \/ ResolveDisputeRead(w, o)
        \/ ConfirmReceivedRead(w, o)
        \/ ConfirmHandoverRead(w, o)
        \/ SellerCollectedRead(w, o)
        \/ ReleasePayoutRead(w, o)
        \/ CancelPurchaseRead(w, o)
        \/ SelectBuyerRead(w, o)

Serve(w) ==
    \/ DupCheck(w)
    \/ OfferRead(w)
    \/ InitiatePurchaseCommit(w)
    \/ VerifyPurchasePaymentWrite(w)
    \/ VerifyPurchaseWrite(w)
    \/ PaystackWebhookWrite(w)
    \/ OnEscrowFunded(w)
    \/ ClaimPaymentWrite(w)
    \/ RejectPurchasePaymentWrite(w)
    \/ SellerHandoverWrite(w)
    \/ OpenDisputeWrite(w)
    \/ ResolveDisputeWrite(w)
    \/ ConfirmReceivedWrite(w)
    \/ ConfirmHandoverWrite(w)
    \/ SellerCollectedWrite(w)
    \/ ReleasePayoutWrite(w)
    \/ CancelClaim(w)
    \/ CancelCommit(w)
    \/ SelectClear(w)
    \/ SelectCommit(w)

Next ==
    \/ \E w \in Workers : Arrive(w) \/ Serve(w) \/ Abandon(w)
    \/ \E o \in Orders : InitializePurchasePayment(o) \/ PaystackCharge(o)

Spec == Init /\ [][Next]_vars

\* The server goes on with a request that has arrived; PostgreSQL grants a
\* row lock to those who wait in turn (so strong fairness for a step that a
\* lock can disable), and the transaction limit always expires.  Nobody has
\* to send a request.
Fairness ==
    \A w \in Workers : SF_vars(Serve(w)) /\ WF_vars(TxTimeout(w))

FairSpec == Spec /\ Fairness

-----------------------------------------------------------------------------
(* What holds however the requests interleave.                             *)

\* A settled order is never reopened and never settled a second way: the
\* claims of completePurchase, cancelPurchase and resolveDispute exclude one
\* another, and no update by id touches the status.
SettledIsFinal ==
    [][\A o \in Orders : orders[o].status \in Settled
            => orders'[o].status = orders[o].status]_vars

\* A payout is queued or sent exactly for the completed orders of the
\* escrow rails, and those have been paid for; a cash order has none.
PayoutFollowsEscrow ==
    \A o \in Orders :
        /\ (orders[o].payout # "NONE") <=>
               (orders[o].status = "COMPLETED" /\ methodOf[o] # "CASH")
        /\ orders[o].payout # "NONE" => orders[o].paid

\* The administrator's verdict is what happened to the money, also when a
\* cancellation or a confirmation was under way at the same time.
VerdictStands ==
    \A o \in Orders :
        /\ orders[o].dispute = "RESOLVED_BUYER" => orders[o].status = "REFUNDED"
        /\ orders[o].dispute = "RESOLVED_SELLER" => orders[o].payout # "NONE"

\* One receipt per order, and only for money that is in escrow (the test
\* 'Buyer got exactly one receipt email'): of several confirmations of one
\* payment only the claim's winner reaches onEscrowFunded.
ReceiptOnce ==
    \A o \in Orders :
        /\ effects[o].receipts <= 1
        /\ effects[o].receipts = 1 => orders[o].paid

\* Cash orders never enter the escrow machinery, whatever is sent to them.
CashStaysOutside ==
    \A o \in Orders : methodOf[o] = "CASH" =>
        /\ orders[o].status \notin {"AWAITING_PAYMENT", "PAID_HELD", "REFUNDED"}
        /\ orders[o].dispute = "NONE"
        /\ ~orders[o].paid /\ ~orders[o].claimed

\* Within the purchase workflow, a car that is SOLD returns to the market in one
\* way only: in the step in which the administrator refunds an order on it. (The
\* listing endpoints, which can also relist it, are not part of this module.)
SoldUntilRefund ==
    [][\A v \in Vehicles : vehicle[v] = "SOLD" /\ vehicle'[v] # "SOLD" =>
            \E o \in Orders : /\ vehicleOf[o] = v
                              /\ orders[o].status = "PAID_HELD"
                              /\ orders'[o].status = "REFUNDED"]_vars

\* Every request that has been received ends: no set of row locks holds
\* requests up for good.
RequestsEnd == \A w \in Workers : ~At(w, "idle") ~> At(w, "idle")

\* Where the money of an order is.  Money that has come in under a status
\* that does not account for it is "lost", which the ledger does not know.
MoneyOf(o) ==
    CASE ~orders[o].paid                         -> "none"
      [] orders[o].paid /\ orders[o].status = "PAID_HELD" -> "held"
      [] orders[o].paid /\ orders[o].payout = "PENDING"   -> "dueSeller"
      [] orders[o].paid /\ orders[o].payout = "SENT"      -> "sentSeller"
      [] orders[o].paid /\ orders[o].status \in {"CANCELLED", "REFUNDED"}
                                                 -> "dueBuyer"
      [] OTHER                                   -> "lost"

Ledger == INSTANCE EscrowLedger
            WITH Accounts <- Orders, money <- [o \in Orders |-> MoneyOf(o)]

\* The purchase table implements the ledger: the money of an order enters
\* escrow once and is awarded once, whatever races with the award.
ImplementsLedger == Ledger!LedgerSpec

-----------------------------------------------------------------------------
(* Why it holds.  IInv is inductive: beside the properties above it says   *)
(* what a row of the purchase table can look like, and what a request that *)
(* is suspended may still rely on, however long ago it read its order.     *)

\* A row of an order whose method is m.
RowInv(row, m) ==
    /\ row.status \in {"AWAITING_PAYMENT", "PAID_HELD", "REFUNDED"} => m # "CASH"
    /\ row.status \in {"HANDOVER_PENDING", "DELIVERED"} => m = "CASH"
    /\ row.status \in {"PAID_HELD", "REFUNDED"} => row.paid
    /\ row.status \in {"ABSENT", "AWAITING_PAYMENT"} => ~row.paid
    /\ row.status = "COMPLETED" /\ m # "CASH" => row.paid
    /\ (row.payout # "NONE") <=> (row.status = "COMPLETED" /\ m # "CASH")
    /\ row.paid => m # "CASH"
    /\ row.dispute # "NONE" => row.paid
    /\ row.dispute = "RESOLVED_BUYER" => row.status = "REFUNDED"
    /\ row.dispute = "RESOLVED_SELLER" => row.payout # "NONE"
    /\ row.claimed => m \in TransferRails

\* What a suspended request can rely on when its order has become row.
RelyInv(at, row, m) ==
    /\ at \in InitiateStages =>
           row.status = "ABSENT" /\ m \in PURCHASE_METHODS
    /\ at = "claimPayment" => m \in TransferRails
    /\ at \in {"openDispute", "onEscrowFunded"} => row.paid
    /\ at = "releasePayout" => row.payout # "NONE"
    /\ at \in CancelStages => row.status \in Open

\* Two requests that cannot work on the same order: an attempt is one
\* request, a row lock has one owner, a claim has one winner.
ExclusionInv ==
    \A u, w \in Workers :
        u # w /\ req[u].order = req[w].order =>
            /\ ~(req[u].at \in InitiateStages /\ req[w].at \in InitiateStages)
            /\ ~(req[u].at \in CancelStages /\ req[w].at \in CancelStages)
            /\ ~(At(u, "onEscrowFunded") /\ At(w, "onEscrowFunded"))

ReceiptInv ==
    /\ \A o \in Orders :
          /\ effects[o].receipts <= 1
          /\ effects[o].receipts = 1 => orders[o].paid
    /\ \A w \in Workers :
          At(w, "onEscrowFunded") => effects[req[w].order].receipts = 0

BusyHasOrder == \A w \in Workers : ~At(w, "idle") => req[w].order \in Orders

AllRowsInv == \A o \in Orders : RowInv(orders[o], methodOf[o])

AllRelyInv ==
    \A w \in Workers : ~At(w, "idle") =>
        RelyInv(req[w].at, orders[req[w].order], methodOf[req[w].order])

IInv ==
    /\ TypeOK
    /\ BusyHasOrder
    /\ AllRowsInv
    /\ AllRelyInv
    /\ ExclusionInv
    /\ ReceiptInv

-----------------------------------------------------------------------------
(* What holds when requests are handled one at a time.                     *)

\* An open dispute freezes the money: the order leaves PAID_HELD only with
\* the administrator's verdict.
DisputeFreezes ==
    [][\A o \in Orders :
            orders[o].dispute = "OPEN" /\ orders[o].status = "PAID_HELD" =>
                \/ orders'[o].status = "PAID_HELD"
                \/ orders'[o].dispute \in {"RESOLVED_BUYER", "RESOLVED_SELLER"}
      ]_vars

\* Only escrowed money is in dispute, so that every dispute can be resolved.
DisputeIsOnEscrow ==
    \A o \in Orders :
        orders[o].dispute = "OPEN" => orders[o].status = "PAID_HELD"

\* The administrator is told at most once that a payout has been recorded.
PayoutSentOnce == \A o \in Orders : effects[o].releases <= 1

\* A buyer has at most one open order on a car.
OneOpenOrderPerBuyer ==
    \A o, x \in Orders :
        /\ o # x /\ vehicleOf[o] = vehicleOf[x] /\ buyerOf[o] = buyerOf[x]
        /\ orders[o].status \in Open
        => orders[x].status \notin Open

\* At most one of the orders waiting for a car is the chosen one.
OneChosenBuyer ==
    \A o, x \in Orders :
        /\ o # x /\ vehicleOf[o] = vehicleOf[x]
        /\ orders[o].status \in Unpaid /\ orders[o].selected
        => ~(orders[x].status \in Unpaid /\ orders[x].selected)

\* An agreed price is used for one order.
AgreedPriceUsedOnce ==
    \A o, x \in Orders :
        o # x /\ orders[o].deal # NoOffer => orders[x].deal # orders[o].deal

\* A RESERVED car is held by an order that is paid for or delivered: a
\* cancellation never leaves a car off the market for nobody.
ReservationHasHolder ==
    \A v \in Vehicles : vehicle[v] = "RESERVED" =>
        \E o \in Orders : vehicleOf[o] = v /\ orders[o].status \in Confirmed

\* All of these invariants, one request at a time.
OrdersOneByOne ==
    /\ DisputeIsOnEscrow
    /\ PayoutSentOnce
    /\ OneOpenOrderPerBuyer
    /\ OneChosenBuyer
    /\ AgreedPriceUsedOnce
    /\ ReservationHasHolder

-----------------------------------------------------------------------------
(* What does not hold even then: see the findings in README.md.            *)

\* A car whose buyer's money is in escrow is not offered to others.
HeldCarOffMarket ==
    \A o \in Orders :
        orders[o].status \in Confirmed => vehicle[vehicleOf[o]] # "AVAILABLE"

\* The car of a cancelled order is on sale again, as the page of the order
\* says (PurchaseDetail.jsx:626).
CancelledIsBackOnSale ==
    \A o \in Orders :
        orders[o].status = "CANCELLED" => vehicle[vehicleOf[o]] = "AVAILABLE"

\* The car of an order is RESERVED from the moment the order is created
\* (Checkout.jsx:11-13).
OrderReservesCar ==
    \A o \in Orders :
        orders[o].status \in Open => vehicle[vehicleOf[o]] # "AVAILABLE"
=============================================================================

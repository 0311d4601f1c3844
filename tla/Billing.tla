------------------------------ MODULE Billing ------------------------------
(***************************************************************************)
(* Plan payments of one seller: backend/src/controllers/                   *)
(* billingController.js, the payment queue of adminController.js, the      *)
(* subscription part of jobs/expiry.js, the expiry date that createVehicle *)
(* gives a free listing, and the page Paystack sends the customer back to  *)
(* (frontend/src/pages/BillingCallback.jsx).                               *)
(*                                                                         *)
(* The webhook, the page's verify call and an administrator all end in     *)
(* applyVerifiedPayment: a transaction that claims the PENDING row, reads  *)
(* the subscription without a lock, and writes it from what it has read.   *)
(* A worker is a request in flight; its claim locks the payment row until  *)
(* the transaction commits or the process is lost.                         *)
(*                                                                         *)
(* Time is counted in days; all plans last equally long (PLANS).           *)
(***************************************************************************)
EXTENDS Naturals, FiniteSets

CONSTANTS
    Payments,       \* payment rows the seller may create
    Workers,        \* requests that can be in flight at once
    Duration,       \* durationDays of a plan
    FreeDays,       \* days a free listing stays visible
    LastDay,        \* bound on the clock
    Outcomes        \* how a charge may end

BillingConstants ==
    /\ IsFiniteSet(Payments) /\ Payments # {}
    /\ Duration \in Nat \ {0}
    /\ FreeDays \in Nat \ {0}
    /\ LastDay \in Nat
    /\ Outcomes \subseteq {"success", "short", "failed"}

VARIABLES
    today,      \* new Date(), in days
    payment,    \* Payment rows
    charge,     \* what Paystack knows of a payment's reference
    hook,       \* whether Paystack still has to deliver charge.success
    sub,        \* the Subscription row
    lapse,      \* Vehicle.expiresAt of the seller's listing; 0 for null
    page,       \* the callback page of a payment
    work        \* requests in flight

bvars == <<today, payment, charge, hook, sub, lapse, page, work>>

PaymentStatus == {"none", "PENDING", "VERIFIED", "REJECTED"}
ChargeStatus  == {"none", "pending", "success", "short", "failed"}
PageStates    == {"away", "verifying", "success", "pending", "failed"}
Attempts      == 0..2

WorkStages == {"idle", "asked", "apply", "claimed", "listing"}
Work ==
    [at   : WorkStages,
     by   : {"page", "hook", "admin", "seller"},
     pay  : Payments,
     base : Nat,         \* where the new period starts
     free : BOOLEAN]     \* createVehicle found no subscription

BTypeOK ==
    /\ today \in 0..LastDay
    /\ payment \in [Payments -> [status : PaymentStatus, applied : BOOLEAN]]
    /\ charge \in [Payments -> ChargeStatus]
    /\ hook \in [Payments -> BOOLEAN]
    /\ sub \in [status : {"none", "ACTIVE", "EXPIRED"}, end : Nat]
    /\ lapse \in Nat
    /\ page \in [Payments -> [state : PageStates, attempt : Attempts]]
    /\ work \in [Workers -> Work]

NoWork == [at |-> "idle", by |-> "seller", pay |-> CHOOSE p \in Payments : TRUE,
         base |-> 0, free |-> FALSE]

BInit ==
    /\ today = 0
    /\ payment = [p \in Payments |-> [status |-> "none", applied |-> FALSE]]
    /\ charge = [p \in Payments |-> "none"]
    /\ hook = [p \in Payments |-> FALSE]
    /\ sub = [status |-> "none", end |-> 0]
    /\ lapse = 0
    /\ page = [p \in Payments |-> [state |-> "away", attempt |-> 0]]
    /\ work = [w \in Workers |-> NoWork]

-----------------------------------------------------------------------------
\* getActiveSubscription: the status and the clock decide.
Active == sub.status = "ACTIVE" /\ sub.end > today

Doing(w, stage) == work[w].at = stage
Begin(w, by, p, stage) ==
    /\ Doing(w, "idle")
    /\ work' = [work EXCEPT ![w] = [NoWork EXCEPT !.at = stage, !.by = by,
                                                !.pay = p]]
Done(w) == work' = [work EXCEPT ![w] = NoWork]

\* A row that a claim has updated and not committed.
LockedPayment(p) == \E w \in Workers : Doing(w, "claimed") /\ work[w].pay = p

SetPayment(p, status) == payment' = [payment EXCEPT ![p].status = status]
SetPage(p, state) == page' = [page EXCEPT ![p].state = state]

-----------------------------------------------------------------------------
(* The seller pays.                                                        *)

CreatePayment(p) ==
    /\ payment[p].status = "none"
    /\ SetPayment(p, "PENDING")
    /\ UNCHANGED <<today, charge, hook, sub, lapse, page, work>>

\* Any payment that is not VERIFIED can be sent to Paystack.
InitializePayment(p) ==
    /\ payment[p].status \in {"PENDING", "REJECTED"}
    /\ charge[p] = "none"
    /\ charge' = [charge EXCEPT ![p] = "pending"]
    /\ UNCHANGED <<today, payment, hook, sub, lapse, page, work>>

\* Paystack charges the customer, or does not; it reports a success.
Charge(p, outcome) ==
    /\ charge[p] = "pending"
    /\ charge' = [charge EXCEPT ![p] = outcome]
    /\ hook' = [hook EXCEPT ![p] = outcome \in {"success", "short"}]
    /\ UNCHANGED <<today, payment, sub, lapse, page, work>>

\* Paystack redirects the customer to the callback page.
OpenPage(p) ==
    /\ charge[p] # "none"
    /\ page[p].state # "verifying"
    /\ page' = [page EXCEPT ![p] = [state |-> "verifying", attempt |-> 0]]
    /\ UNCHANGED <<today, payment, charge, hook, sub, lapse, work>>

-----------------------------------------------------------------------------
(* The three callers of applyVerifiedPayment.                              *)

\* verifyPayment: a VERIFIED payment is answered at once.
VerifyRead(w, p) ==
    /\ page[p].state = "verifying"
    /\ payment[p].status # "none"
    /\ \A v \in Workers : ~(work[v].by = "page" /\ work[v].pay = p)
    /\ \/ /\ payment[p].status = "VERIFIED"
          /\ SetPage(p, "success")
          /\ UNCHANGED work
       \/ /\ payment[p].status # "VERIFIED"
          /\ Begin(w, "page", p, "asked")
          /\ UNCHANGED page
    /\ UNCHANGED <<today, payment, charge, hook, sub, lapse>>

\* The answer of Paystack's verify endpoint, and what the page makes of it.
VerifyAnswer(w) ==
    LET p == work[w].pay
    IN  /\ Doing(w, "asked")
        /\ \/ /\ charge[p] = "success"
              /\ work' = [work EXCEPT ![w].at = "apply"]
              /\ UNCHANGED page
           \/ /\ charge[p] \in {"short", "failed"}
              /\ SetPage(p, "failed")
              /\ Done(w)
           \/ /\ charge[p] = "pending"
              /\ Done(w)
              /\ page' = IF page[p].attempt < 2
                         THEN [page EXCEPT ![p].attempt = @ + 1]
                         ELSE [page EXCEPT ![p].state = "pending"]
        /\ UNCHANGED <<today, payment, charge, hook, sub, lapse>>

\* paystackWebhook: a payment that is VERIFIED, or paid short, is only
\* acknowledged.
HookRead(w, p) ==
    /\ hook[p]
    /\ \/ /\ payment[p].status # "VERIFIED"
          /\ charge[p] = "success"
          /\ Begin(w, "hook", p, "apply")
          /\ UNCHANGED hook
       \/ /\ payment[p].status = "VERIFIED" \/ charge[p] = "short"
          /\ Doing(w, "idle")
          /\ hook' = [hook EXCEPT ![p] = FALSE]
          /\ UNCHANGED work
    /\ UNCHANGED <<today, payment, charge, sub, lapse, page>>

\* adminController.verifyPayment: money seen on the statement.
AdminVerifyRead(w, p) ==
    /\ payment[p].status \in {"PENDING", "REJECTED"}
    /\ Begin(w, "admin", p, "apply")
    /\ UNCHANGED <<today, payment, charge, hook, sub, lapse, page>>

\* adminController.rejectPayment looks at nothing.
RejectPayment(p) ==
    /\ payment[p].status # "none"
    /\ ~LockedPayment(p)
    /\ SetPayment(p, "REJECTED")
    /\ UNCHANGED <<today, charge, hook, sub, lapse, page, work>>

-----------------------------------------------------------------------------
(* applyVerifiedPayment.                                                   *)

\* What the caller does with the result, null or not: the page shows
\* success, the webhook is acknowledged.
Respond(w) ==
    LET p == work[w].pay
    IN  /\ Done(w)
        /\ hook' = IF work[w].by = "hook" THEN [hook EXCEPT ![p] = FALSE] ELSE hook
        /\ page' = IF work[w].by = "page" THEN [page EXCEPT ![p].state = "success"]
                                          ELSE page

\* Variant: every period starts today.
PeriodBaseToday == today

\* 'Extend from the current period if the subscription is still active'.
PeriodBase == IF Active THEN sub.end ELSE today

\* Variant: the status guard of the claim is gone.
ClaimAny(w) ==
    LET p == work[w].pay
    IN  /\ Doing(w, "apply")
        /\ ~LockedPayment(p)
        /\ work' = [work EXCEPT ![w].at = "claimed", ![w].base = PeriodBase]
        /\ UNCHANGED <<today, payment, charge, hook, sub, lapse, page>>

\* The claim, and the read of the subscription that follows it.
Claim(w) ==
    LET p == work[w].pay
    IN  /\ Doing(w, "apply")
        /\ ~LockedPayment(p)
        /\ \/ /\ payment[p].status = "PENDING"
              /\ work' = [work EXCEPT ![w].at = "claimed", ![w].base = PeriodBase]
              /\ UNCHANGED <<hook, page>>
           \/ /\ payment[p].status # "PENDING"
              /\ Respond(w)
        /\ UNCHANGED <<today, payment, charge, sub, lapse>>

\* Variant: the plan is paid for and not extended.
CommitNoPlan(w) ==
    /\ Doing(w, "claimed")
    /\ Respond(w)
    /\ UNCHANGED <<today, payment, charge, sub, lapse>>

\* Variant: the listings keep their expiry date.
CommitKeepExpiry(w) ==
    LET p == work[w].pay
    IN  /\ Doing(w, "claimed")
        /\ payment' = [payment EXCEPT ![p] = [status |-> "VERIFIED", applied |-> TRUE]]
        /\ sub' = [status |-> "ACTIVE", end |-> work[w].base + Duration]
        /\ Respond(w)
        /\ UNCHANGED <<today, charge, lapse>>

\* The subscription, the listings and the payment are written together.
CommitPlan(w) ==
    LET p == work[w].pay
    IN  /\ Doing(w, "claimed")
        /\ payment' = [payment EXCEPT ![p] = [status |-> "VERIFIED", applied |-> TRUE]]
        /\ sub' = [status |-> "ACTIVE", end |-> work[w].base + Duration]
        /\ lapse' = 0
        /\ Respond(w)
        /\ UNCHANGED <<today, charge>>

\* The process dies or the database fails: the transaction is rolled back,
\* Paystack will deliver again, the page shows the error.
Lose(w) ==
    LET p == work[w].pay
    IN  /\ ~Doing(w, "idle")
        /\ Done(w)
        /\ page' = IF work[w].by = "page" THEN [page EXCEPT ![p].state = "failed"]
                                          ELSE page
        /\ UNCHANGED <<today, payment, charge, hook, sub, lapse>>

-----------------------------------------------------------------------------
(* createVehicle: the subscription is read before the listing is inserted. *)

CreateListingRead(w) ==
    /\ Doing(w, "idle")
    /\ lapse = 0
    /\ work' = [work EXCEPT ![w] = [NoWork EXCEPT !.at = "listing", !.free = ~Active]]
    /\ UNCHANGED <<today, payment, charge, hook, sub, lapse, page>>

CreateListingWrite(w) ==
    /\ Doing(w, "listing")
    /\ lapse' = IF work[w].free THEN today + FreeDays ELSE 0
    /\ Done(w)
    /\ UNCHANGED <<today, payment, charge, hook, sub, page>>

-----------------------------------------------------------------------------
(* The clock, and the daily sweep over ended subscriptions.                *)

\* A transaction lives for seconds: the day does not turn within one.
Day ==
    /\ today < LastDay
    /\ \A w \in Workers : ~Doing(w, "claimed")
    /\ today' = today + 1
    /\ UNCHANGED <<payment, charge, hook, sub, lapse, page, work>>

SweepSubscriptions ==
    /\ sub.status = "ACTIVE"
    /\ sub.end <= today
    /\ sub' = [sub EXCEPT !.status = "EXPIRED"]
    /\ UNCHANGED <<today, payment, charge, hook, lapse, page, work>>

BNext ==
    \/ \E p \in Payments :
          \/ CreatePayment(p)
          \/ InitializePayment(p)
          \/ \E outcome \in Outcomes : Charge(p, outcome)
          \/ OpenPage(p)
          \/ RejectPayment(p)
          \/ \E w \in Workers :
                \/ VerifyRead(w, p)
                \/ HookRead(w, p)
                \/ AdminVerifyRead(w, p)
    \/ \E w \in Workers :
          \/ VerifyAnswer(w)
          \/ Claim(w)
          \/ CommitPlan(w)
          \/ Lose(w)
          \/ CreateListingRead(w)
          \/ CreateListingWrite(w)
    \/ Day
    \/ SweepSubscriptions

BSpec == BInit /\ [][BNext]_bvars

\* Paystack delivers again until it is acknowledged, and a request that is
\* tried again and again is not lost every time.
PlanFairness ==
    /\ \A p \in Payments, w \in Workers : SF_bvars(HookRead(w, p))
    /\ \A w \in Workers : /\ WF_bvars(VerifyAnswer(w))
                          /\ SF_bvars(Claim(w))
                          /\ SF_bvars(CommitPlan(w))
                          /\ WF_bvars(CreateListingWrite(w))

-----------------------------------------------------------------------------
(* However the requests interleave.                                        *)

\* The days a seller has left.
DaysLeft == IF Active THEN sub.end - today ELSE 0

Applied == {p \in Payments : payment[p].applied}

\* 'two concurrent webhook + verify calls can never double-extend': nobody
\* has more days left than the applied payments have bought.
NoDoubleExtend == DaysLeft <= Duration * Cardinality(Applied)

\* A charge that Paystack has made activates the plan in the end, however
\* often a delivery is lost, unless an administrator has rejected the payment.
ChargeActivates ==
    \A p \in Payments :
        charge[p] = "success" ~> payment[p].applied \/ payment[p].status = "REJECTED"

(* One request at a time.                                                  *)

\* Every applied payment adds its days to those that were left.
Credit == INSTANCE PlanCredit WITH credit <- DaysLeft
AddsUp == Credit!CSpec

\* 'applyVerifiedPayment clears expiresAt on upgrade, which is what brings a
\* listing back': no listing of a subscriber has an expiry date.
SubscriberNeverLapses == Active => lapse = 0

(* What does not hold.                                                     *)

\* Two payments of one seller: each adds its days.
PaymentAdds ==
    \A p \in Payments :
        ~payment[p].applied /\ payment'[p].applied =>
            sub'.end >= sub.end + Duration

EachPaymentAdds == [][PaymentAdds]_bvars

\* 'Your plan is now active': the page says so of an applied payment.
ShownActiveIsActive ==
    \A p \in Payments : page[p].state = "success" => payment[p].applied
=============================================================================

--------------------------- MODULE BillingProofs ---------------------------
(***************************************************************************)
(* Theorems about Billing for every number of payments and requests and    *)
(* every length of a plan, and about ExpirySweep, which tells sellers that *)
(* their listings have lapsed, for every number of processes and restarts. *)
(***************************************************************************)
EXTENDS Billing, ExpirySweep, FiniteSetTheorems, TLAPS

-----------------------------------------------------------------------------
(* However the requests interleave.                                        *)

Claimed(w) == work[w].at = "claimed"

\* A payment that is open has not been applied; a claim holds an open payment,
\* and holds it alone.
ClaimInv ==
    /\ \A p \in Payments : payment[p].status \in {"none", "PENDING"} => ~payment[p].applied
    /\ \A w \in Workers : Claimed(w) => payment[work[w].pay].status = "PENDING"
    /\ \A w, v \in Workers : Claimed(w) /\ Claimed(v) /\ work[v].pay = work[w].pay => v = w

\* The days that the applied payments have bought.
Bought == Duration * Cardinality(Applied)

\* A period ends, or the next one starts, no later than they reach.
EndInv ==
    /\ sub.end <= today + Bought
    /\ \A w \in Workers : Claimed(w) => work[w].base <= today + Bought
    /\ sub.status = "EXPIRED" => sub.end <= today

BInv == BTypeOK /\ ClaimInv /\ EndInv

LEMMA NoWorkType == BillingConstants => NoWork \in Work /\ NoWork.at = "idle"
  BY DEF BillingConstants, NoWork, Work, WorkStages

LEMMA BoughtType ==
    ASSUME BillingConstants
    PROVE  IsFiniteSet(Applied) /\ Cardinality(Applied) \in Nat /\ Bought \in Nat
  <1>1. IsFiniteSet(Applied)
    BY FS_Subset DEF Applied, BillingConstants
  <1>2. Cardinality(Applied) \in Nat
    BY <1>1, FS_CardinalityType
  <1> QED
    BY <1>1, <1>2 DEF Bought, BillingConstants

LEMMA BInvInit == BillingConstants /\ BInit => BInv
  <1> SUFFICES ASSUME BillingConstants, BInit PROVE BInv
    OBVIOUS
  <1>1. BTypeOK
    BY NoWorkType DEF BInit, BTypeOK, BillingConstants, PaymentStatus, ChargeStatus,
                      PageStates, Attempts
  <1>2. \A w \in Workers : ~Claimed(w)
    BY NoWorkType DEF BInit, Claimed
  <1>3. ClaimInv
    BY <1>2 DEF BInit, ClaimInv
  <1>4. EndInv
    BY <1>2, BoughtType DEF BInit, EndInv
  <1> QED
    BY <1>1, <1>3, <1>4 DEF BInv

\* A request moves, but not into a claim.
LEMMA WorkInv ==
    ASSUME BInv, NEW w \in Workers, NEW r \in Work, work' = [work EXCEPT ![w] = r],
           r.at # "claimed", UNCHANGED <<today, payment, charge, sub>>,
           hook' \in [Payments -> BOOLEAN], lapse' \in Nat,
           page' \in [Payments -> [state : PageStates, attempt : Attempts]]
    PROVE  BInv'
  <1>1. /\ work' \in [Workers -> Work] /\ work'[w] = r
        /\ \A v \in Workers \ {w} : work'[v] = work[v]
    BY DEF BInv, BTypeOK
  <1>2. \A v \in Workers : Claimed(v)' => v # w /\ Claimed(v) /\ work'[v] = work[v]
    BY <1>1 DEF Claimed
  <1>3. BTypeOK'
    BY <1>1 DEF BInv, BTypeOK
  <1>4. ClaimInv'
    BY <1>2 DEF BInv, ClaimInv
  <1>5. Bought' = Bought
    BY DEF Bought, Applied
  <1>6. EndInv'
    BY <1>2, <1>5 DEF BInv, EndInv
  <1> QED
    BY <1>3, <1>4, <1>6 DEF BInv

\* Paystack and the page move.
LEMMA OutsideInv ==
    ASSUME BInv, UNCHANGED <<today, payment, sub, lapse, work>>,
           charge' \in [Payments -> ChargeStatus], hook' \in [Payments -> BOOLEAN],
           page' \in [Payments -> [state : PageStates, attempt : Attempts]]
    PROVE  BInv'
  <1>1. Bought' = Bought
    BY DEF Bought, Applied
  <1> QED
    BY <1>1 DEF BInv, BTypeOK, ClaimInv, EndInv, Claimed

\* A payment that no claim holds gets a status.
LEMMA PaymentInv ==
    ASSUME BInv, NEW p \in Payments, NEW status \in PaymentStatus, SetPayment(p, status),
           \A w \in Workers : ~(Claimed(w) /\ work[w].pay = p),
           status = "PENDING" => ~payment[p].applied, status # "none",
           UNCHANGED <<today, charge, hook, sub, lapse, page, work>>
    PROVE  BInv'
  <1>1. /\ payment' \in [Payments -> [status : PaymentStatus, applied : BOOLEAN]]
        /\ payment'[p].status = status
        /\ \A q \in Payments \ {p} : payment'[q] = payment[q]
        /\ \A q \in Payments : payment'[q].applied = payment[q].applied
    BY DEF BInv, BTypeOK, SetPayment
  <1>2. Bought' = Bought
    BY <1>1 DEF Bought, Applied
  <1>3. BTypeOK'
    BY <1>1 DEF BInv, BTypeOK
  <1>4. ClaimInv'
    <2>1. \A w \in Workers : Claimed(w) => work[w].pay \in Payments \ {p}
      BY DEF BInv, BTypeOK, Work
    <2> QED
      BY <1>1, <2>1 DEF BInv, ClaimInv, Claimed
  <1>5. EndInv'
    BY <1>2 DEF BInv, EndInv, Claimed
  <1> QED
    BY <1>3, <1>4, <1>5 DEF BInv

LEMMA PageType ==
    ASSUME BTypeOK, NEW p, NEW state \in PageStates,
           page' = [page EXCEPT ![p].state = state]
    PROVE  page' \in [Payments -> [state : PageStates, attempt : Attempts]]
  BY DEF BTypeOK

LEMMA DoneFacts ==
    ASSUME BillingConstants, BTypeOK, NEW w \in Workers, Done(w)
    PROVE  /\ work' = [work EXCEPT ![w] = NoWork]
           /\ work'[w].at = "idle"
           /\ \A v \in Workers \ {w} : work'[v] = work[v]
  BY NoWorkType DEF Done, BTypeOK

LEMMA BeginFacts ==
    ASSUME BillingConstants, BTypeOK, NEW w \in Workers, NEW p \in Payments,
           NEW by \in {"page", "hook", "admin"}, NEW stage \in {"asked", "apply"},
           Begin(w, by, p, stage)
    PROVE  \E r \in Work : work' = [work EXCEPT ![w] = r] /\ r.at = stage
  <1> DEFINE r == [NoWork EXCEPT !.at = stage, !.by = by, !.pay = p]
  <1>1. r \in Work /\ r.at = stage
    BY NoWorkType DEF Work, WorkStages
  <1>2. work' = [work EXCEPT ![w] = r]
    BY DEF Begin
  <1> QED
    BY <1>1, <1>2

\* The three callers read the payment.
LEMMA CallersInv ==
    ASSUME BillingConstants, BInv, NEW w \in Workers, NEW p \in Payments,
           VerifyRead(w, p) \/ HookRead(w, p) \/ AdminVerifyRead(w, p)
    PROVE  BInv'
  <1>1. BTypeOK
    BY DEF BInv
  <1>2. ASSUME NEW by \in {"page", "hook", "admin"}, NEW stage \in {"asked", "apply"},
               Begin(w, by, p, stage),
               UNCHANGED <<today, payment, charge, hook, sub, lapse, page>>
        PROVE  BInv'
    <2>1. PICK r \in Work : work' = [work EXCEPT ![w] = r] /\ r.at = stage
      BY <1>1, <1>2, BeginFacts
    <2> QED
      BY <1>1, <1>2, <2>1, WorkInv DEF BTypeOK
  <1>3. CASE VerifyRead(w, p)
    <2>1. CASE Begin(w, "page", p, "asked") /\ UNCHANGED page
      BY <1>2, <1>3, <2>1 DEF VerifyRead
    <2>2. CASE SetPage(p, "success") /\ UNCHANGED work
      <3>1. page' \in [Payments -> [state : PageStates, attempt : Attempts]]
        BY <1>1, <2>2, PageType DEF SetPage, PageStates
      <3> QED
        BY <1>1, <1>3, <2>2, <3>1, OutsideInv DEF VerifyRead, BTypeOK
    <2> QED
      BY <1>3, <2>1, <2>2 DEF VerifyRead
  <1>4. CASE HookRead(w, p)
    <2>1. CASE Begin(w, "hook", p, "apply") /\ UNCHANGED hook
      BY <1>2, <1>4, <2>1 DEF HookRead
    <2>2. CASE hook' = [hook EXCEPT ![p] = FALSE] /\ UNCHANGED work
      <3>1. hook' \in [Payments -> BOOLEAN]
        BY <1>1, <2>2 DEF BTypeOK
      <3> QED
        BY <1>1, <1>4, <2>2, <3>1, OutsideInv DEF HookRead, BTypeOK
    <2> QED
      BY <1>4, <2>1, <2>2 DEF HookRead
  <1>5. CASE AdminVerifyRead(w, p)
    BY <1>2, <1>5 DEF AdminVerifyRead
  <1> QED
    BY <1>3, <1>4, <1>5

LEMMA VerifyAnswerInv ==
    ASSUME BillingConstants, BInv, NEW w \in Workers, VerifyAnswer(w)
    PROVE  BInv'
  <1> DEFINE p == work[w].pay
  <1>1. /\ BTypeOK /\ p \in Payments /\ NoWork \in Work /\ NoWork.at = "idle"
        /\ UNCHANGED <<today, payment, charge, hook, sub, lapse>>
        /\ hook' \in [Payments -> BOOLEAN] /\ lapse' \in Nat
    BY NoWorkType DEF BInv, BTypeOK, Work, VerifyAnswer
  <1>2. CASE work' = [work EXCEPT ![w].at = "apply"] /\ UNCHANGED page
    <2> DEFINE r == [work[w] EXCEPT !.at = "apply"]
    <2>1. r \in Work /\ r.at = "apply" /\ work' = [work EXCEPT ![w] = r]
      BY <1>1, <1>2 DEF BTypeOK, Work, WorkStages
    <2> HIDE DEF r
    <2>2. page' \in [Payments -> [state : PageStates, attempt : Attempts]]
      BY <1>1, <1>2 DEF BTypeOK
    <2> QED
      BY <1>1, <2>1, <2>2, WorkInv
  <1>3. CASE Done(w) /\ SetPage(p, "failed")
    <2>1. page' \in [Payments -> [state : PageStates, attempt : Attempts]]
      BY <1>1, <1>3, PageType DEF SetPage, PageStates
    <2> QED
      BY <1>1, <1>3, <2>1, WorkInv DEF Done
  <1>4. CASE /\ Done(w)
             /\ page' = IF page[p].attempt < 2
                        THEN [page EXCEPT ![p].attempt = page[p].attempt + 1]
                        ELSE [page EXCEPT ![p].state = "pending"]
    <2>1. CASE page[p].attempt < 2
      <3>1. page[p].attempt + 1 \in Attempts
        BY <1>1, <2>1 DEF BTypeOK, Attempts
      <3>2. page' \in [Payments -> [state : PageStates, attempt : Attempts]]
        BY <1>1, <1>4, <2>1, <3>1 DEF BTypeOK
      <3> QED
        BY <1>1, <1>4, <3>2, WorkInv DEF Done
    <2>2. CASE ~(page[p].attempt < 2)
      <3>1. page' \in [Payments -> [state : PageStates, attempt : Attempts]]
        BY <1>1, <1>4, <2>2, PageType DEF PageStates
      <3> QED
        BY <1>1, <1>4, <3>1, WorkInv DEF Done
    <2> QED
      BY <2>1, <2>2
  <1> QED
    BY <1>2, <1>3, <1>4 DEF VerifyAnswer

\* The caller is answered: its request is over.
LEMMA RespondFacts ==
    ASSUME BillingConstants, BTypeOK, NEW w \in Workers, Respond(w)
    PROVE  /\ Done(w)
           /\ hook' \in [Payments -> BOOLEAN]
           /\ page' \in [Payments -> [state : PageStates, attempt : Attempts]]
  <1>1. Done(w)
    BY DEF Respond
  <1>2. hook' \in [Payments -> BOOLEAN]
    BY DEF Respond, BTypeOK
  <1>3. page' \in [Payments -> [state : PageStates, attempt : Attempts]]
    <2>1. CASE page' = page
      BY <2>1 DEF BTypeOK
    <2>2. CASE page' = [page EXCEPT ![work[w].pay].state = "success"]
      BY <2>2, PageType DEF PageStates
    <2> QED
      BY <2>1, <2>2 DEF Respond
  <1> QED
    BY <1>1, <1>2, <1>3

\* Where the period of a claim starts.
LEMMA PeriodFacts ==
    ASSUME BillingConstants, BInv
    PROVE  /\ PeriodBase \in Nat /\ DaysLeft \in Nat
           /\ PeriodBase = today + DaysLeft
           /\ PeriodBase <= today + Bought
  <1>1. today \in Nat /\ sub.end \in Nat /\ Bought \in Nat
    BY BoughtType DEF BInv, BTypeOK, BillingConstants
  <1>2. sub.end <= today + Bought
    BY DEF BInv, EndInv
  <1>3. CASE Active
    BY <1>1, <1>2, <1>3 DEF PeriodBase, DaysLeft, Active
  <1>4. CASE ~Active
    BY <1>1, <1>4 DEF PeriodBase, DaysLeft
  <1> QED
    BY <1>3, <1>4

LEMMA ClaimFacts ==
    ASSUME BTypeOK, BillingConstants, BInv, NEW w \in Workers,
           work' = [work EXCEPT ![w].at = "claimed", ![w].base = PeriodBase]
    PROVE  /\ work' \in [Workers -> Work]
           /\ work'[w].at = "claimed" /\ work'[w].base = PeriodBase
           /\ work'[w].pay = work[w].pay
           /\ \A v \in Workers \ {w} : work'[v] = work[v]
  <1> DEFINE r == [work[w] EXCEPT !.at = "claimed", !.base = PeriodBase]
  <1>1. /\ r \in Work /\ r.at = "claimed" /\ r.base = PeriodBase
        /\ r.pay = work[w].pay
    BY PeriodFacts DEF BTypeOK, Work, WorkStages
  <1>2. work' = [work EXCEPT ![w] = r]
    OBVIOUS
  <1> HIDE DEF r
  <1> QED
    BY <1>1, <1>2 DEF BTypeOK

LEMMA ClaimStepInv ==
    ASSUME BillingConstants, BInv, NEW w \in Workers, Claim(w)
    PROVE  BInv'
  <1>1. /\ BTypeOK /\ ~LockedPayment(work[w].pay)
        /\ UNCHANGED <<today, payment, charge, sub, lapse>> /\ lapse' \in Nat
    BY DEF BInv, BTypeOK, Claim
  <1>2. CASE Respond(w)
    BY <1>1, <1>2, RespondFacts, NoWorkType, WorkInv DEF Done
  <1>3. CASE /\ payment[work[w].pay].status = "PENDING"
             /\ work' = [work EXCEPT ![w].at = "claimed", ![w].base = PeriodBase]
             /\ UNCHANGED <<hook, page>>
    <2>1. /\ work' \in [Workers -> Work]
          /\ work'[w].base = PeriodBase /\ work'[w].pay = work[w].pay
          /\ \A v \in Workers \ {w} : work'[v] = work[v]
      BY <1>1, <1>3, ClaimFacts
    <2>2. \A v \in Workers : Claimed(v) => work[v].pay # work[w].pay
      BY <1>1 DEF LockedPayment, Doing, Claimed
    <2>3. \A v \in Workers \ {w} : Claimed(v)' <=> Claimed(v)
      BY <2>1 DEF Claimed
    <2>4. BTypeOK'
      BY <1>1, <1>3, <2>1 DEF BTypeOK
    <2>5. ClaimInv'
      BY <1>1, <1>3, <2>1, <2>2, <2>3 DEF BInv, ClaimInv
    <2>6. Bought' = Bought
      BY <1>1 DEF Bought, Applied
    <2>7. EndInv'
      BY <1>1, <2>1, <2>3, <2>6, PeriodFacts DEF BInv, EndInv
    <2> QED
      BY <2>4, <2>5, <2>7 DEF BInv
  <1> QED
    BY <1>2, <1>3 DEF Claim

\* A payment that is applied is applied for the first time.
LEMMA CommitFacts ==
    ASSUME BillingConstants, BInv, NEW w \in Workers, CommitPlan(w)
    PROVE  /\ Claimed(w) /\ work[w].pay \in Payments /\ work[w].base \in Nat
           /\ payment' \in [Payments -> [status : PaymentStatus, applied : BOOLEAN]]
           /\ payment'[work[w].pay].status = "VERIFIED"
           /\ \A q \in Payments \ {work[w].pay} : payment'[q] = payment[q]
           /\ sub'.status = "ACTIVE" /\ sub'.end = work[w].base + Duration
           /\ lapse' = 0 /\ Respond(w) /\ UNCHANGED <<today, charge>>
           /\ Bought' = Bought + Duration
  <1> DEFINE p == work[w].pay
  <1>1. /\ Claimed(w) /\ p \in Payments /\ work[w].base \in Nat
        /\ payment' = [payment EXCEPT ![p] = [status |-> "VERIFIED", applied |-> TRUE]]
        /\ sub' = [status |-> "ACTIVE", end |-> work[w].base + Duration]
        /\ lapse' = 0 /\ Respond(w) /\ UNCHANGED <<today, charge>>
    BY DEF CommitPlan, Doing, Claimed, BInv, BTypeOK, Work
  <1>2. /\ payment' \in [Payments -> [status : PaymentStatus, applied : BOOLEAN]]
        /\ payment'[p].status = "VERIFIED" /\ payment'[p].applied
        /\ \A q \in Payments \ {p} : payment'[q] = payment[q]
    BY <1>1 DEF BInv, BTypeOK, PaymentStatus
  <1>3. ~payment[p].applied
    BY <1>1 DEF BInv, ClaimInv
  <1>4. Applied' = Applied \cup {p} /\ p \notin Applied
    BY <1>1, <1>2, <1>3 DEF Applied
  <1>5. Cardinality(Applied') = Cardinality(Applied) + 1
    BY <1>4, BoughtType, FS_AddElement
  <1>6. Bought' = Bought + Duration
    <2>1. Cardinality(Applied) \in Nat /\ Duration \in Nat
      BY BoughtType DEF BillingConstants
    <2>2. Duration * (Cardinality(Applied) + 1) = Duration * Cardinality(Applied) + Duration
      BY <2>1
    <2> QED
      BY <1>5, <2>2 DEF Bought
  <1> QED
    BY <1>1, <1>2, <1>6

LEMMA CommitInv ==
    ASSUME BillingConstants, BInv, NEW w \in Workers, CommitPlan(w)
    PROVE  BInv'
  <1>1. /\ Claimed(w) /\ work[w].pay \in Payments /\ work[w].base \in Nat
        /\ payment' \in [Payments -> [status : PaymentStatus, applied : BOOLEAN]]
        /\ payment'[work[w].pay].status = "VERIFIED"
        /\ \A q \in Payments \ {work[w].pay} : payment'[q] = payment[q]
        /\ sub'.status = "ACTIVE" /\ sub'.end = work[w].base + Duration
        /\ lapse' = 0 /\ Respond(w) /\ UNCHANGED <<today, charge>>
        /\ Bought' = Bought + Duration
    BY CommitFacts
  <1>2. /\ BTypeOK /\ Duration \in Nat /\ Bought \in Nat /\ today \in Nat
        /\ NoWork \in Work
    BY BoughtType, NoWorkType DEF BInv, BTypeOK, BillingConstants
  <1>3. /\ Done(w) /\ hook' \in [Payments -> BOOLEAN]
        /\ page' \in [Payments -> [state : PageStates, attempt : Attempts]]
    BY <1>1, <1>2, RespondFacts
  <1>4. /\ work'[w].at = "idle" /\ \A v \in Workers \ {w} : work'[v] = work[v]
        /\ work' \in [Workers -> Work]
    BY <1>2, <1>3, DoneFacts DEF BTypeOK
  <1>5. \A v \in Workers : Claimed(v)' => v # w /\ Claimed(v) /\ work'[v] = work[v]
    BY <1>4 DEF Claimed
  <1>6. BTypeOK'
    <2>1. sub' \in [status : {"none", "ACTIVE", "EXPIRED"}, end : Nat]
      BY <1>1, <1>2 DEF CommitPlan
    <2> QED
      BY <1>1, <1>2, <1>3, <1>4, <2>1 DEF BTypeOK
  <1>7. ClaimInv'
    <2>1. \A v \in Workers : Claimed(v)' => work[v].pay # work[w].pay /\ work[v].pay \in Payments
      BY <1>1, <1>5 DEF BInv, BTypeOK, ClaimInv, Work
    <2> QED
      BY <1>1, <1>5, <2>1 DEF BInv, ClaimInv
  <1>8. EndInv'
    <2>1. work[w].base <= today + Bought
      BY <1>1 DEF BInv, EndInv
    <2>2. sub'.end <= today' + Bought'
      BY <1>1, <1>2, <2>1
    <2>3. \A v \in Workers : Claimed(v)' => work'[v].base <= today' + Bought'
      <3>1. \A v \in Workers : work[v].base \in Nat
        BY <1>2 DEF BTypeOK, Work
      <3> QED
        BY <1>1, <1>2, <1>5, <3>1 DEF BInv, EndInv
    <2> QED
      BY <1>1, <2>2, <2>3 DEF EndInv
  <1> QED
    BY <1>6, <1>7, <1>8 DEF BInv

LEMMA DoneInv ==
    ASSUME BillingConstants, BInv, NEW w \in Workers, Lose(w) \/ CreateListingWrite(w)
    PROVE  BInv'
  <1>1. BTypeOK /\ NoWork \in Work /\ NoWork.at = "idle"
    BY NoWorkType DEF BInv
  <1>2. CASE Lose(w)
    <2>1. page' \in [Payments -> [state : PageStates, attempt : Attempts]]
      <3>1. CASE page' = page
        BY <1>1, <3>1 DEF BTypeOK
      <3>2. CASE page' = [page EXCEPT ![work[w].pay].state = "failed"]
        BY <1>1, <3>2, PageType DEF PageStates
      <3> QED
        BY <1>2, <3>1, <3>2 DEF Lose
    <2> QED
      BY <1>1, <1>2, <2>1, WorkInv DEF Lose, Done, BTypeOK
  <1>3. CASE CreateListingWrite(w)
    <2>1. lapse' \in Nat
      BY <1>1, <1>3 DEF CreateListingWrite, BTypeOK, BillingConstants
    <2> QED
      BY <1>1, <1>3, <2>1, WorkInv DEF CreateListingWrite, Done, BTypeOK
  <1> QED
    BY <1>2, <1>3

LEMMA ListingFacts ==
    ASSUME BillingConstants, BTypeOK, NEW w \in Workers, CreateListingRead(w)
    PROVE  \E r \in Work : /\ work' = [work EXCEPT ![w] = r]
                           /\ r.at = "listing" /\ (r.free <=> ~Active)
  <1> DEFINE r == [NoWork EXCEPT !.at = "listing", !.free = ~Active]
  <1>1. Active \in BOOLEAN
    BY DEF Active
  <1>2. r \in Work /\ r.at = "listing" /\ r.free = ~Active
    BY <1>1, NoWorkType DEF Work, WorkStages
  <1>3. work' = [work EXCEPT ![w] = r]
    BY DEF CreateListingRead
  <1> QED
    BY <1>2, <1>3

LEMMA ClockInv ==
    ASSUME BillingConstants, BInv, Day \/ SweepSubscriptions
    PROVE  BInv'
  <1>1. Bought' = Bought /\ Bought \in Nat
    BY BoughtType DEF Bought, Applied, Day, SweepSubscriptions
  <1>2. CASE Day
    <2>1. /\ today < LastDay /\ today' = today + 1
          /\ \A w \in Workers : ~Claimed(w)
          /\ UNCHANGED <<payment, charge, hook, sub, lapse, page, work>>
      BY <1>2 DEF Day, Doing, Claimed
    <2>2. BTypeOK'
      BY <2>1 DEF BInv, BTypeOK, BillingConstants
    <2>3. ClaimInv'
      BY <2>1 DEF BInv, ClaimInv, Claimed
    <2>4. EndInv'
      <3>1. today \in Nat /\ sub.end \in Nat
        BY DEF BInv, BTypeOK, BillingConstants
      <3> QED
        BY <1>1, <2>1, <3>1 DEF BInv, EndInv, Claimed
    <2> QED
      BY <2>2, <2>3, <2>4 DEF BInv
  <1>3. CASE SweepSubscriptions
    <2>1. /\ sub.end <= today /\ sub' = [sub EXCEPT !.status = "EXPIRED"]
          /\ UNCHANGED <<today, payment, charge, hook, lapse, page, work>>
      BY <1>3 DEF SweepSubscriptions
    <2>2. /\ sub' \in [status : {"none", "ACTIVE", "EXPIRED"}, end : Nat]
          /\ sub'.end = sub.end
      BY <2>1 DEF BInv, BTypeOK
    <2>3. BTypeOK'
      BY <2>1, <2>2 DEF BInv, BTypeOK
    <2>4. ClaimInv' /\ EndInv'
      BY <1>1, <2>1, <2>2 DEF BInv, ClaimInv, EndInv, Claimed
    <2> QED
      BY <2>3, <2>4 DEF BInv
  <1> QED
    BY <1>2, <1>3

LEMMA SellerInv ==
    ASSUME BillingConstants, BInv, NEW p \in Payments,
           \/ CreatePayment(p) \/ InitializePayment(p)
           \/ \E outcome \in Outcomes : Charge(p, outcome)
           \/ OpenPage(p) \/ RejectPayment(p)
    PROVE  BInv'
  <1>1. BTypeOK
    BY DEF BInv
  <1>2. CASE CreatePayment(p)
    <2>1. \A w \in Workers : ~(Claimed(w) /\ work[w].pay = p)
      BY <1>2 DEF CreatePayment, BInv, ClaimInv
    <2>2. ~payment[p].applied
      BY <1>2 DEF CreatePayment, BInv, ClaimInv
    <2> QED
      BY <1>2, <2>1, <2>2, PaymentInv DEF CreatePayment, PaymentStatus
  <1>3. CASE InitializePayment(p)
    <2>1. charge' \in [Payments -> ChargeStatus]
      BY <1>1, <1>3 DEF InitializePayment, BTypeOK, ChargeStatus
    <2> QED
      BY <1>1, <1>3, <2>1, OutsideInv DEF InitializePayment, BTypeOK
  <1>4. ASSUME NEW outcome \in Outcomes, Charge(p, outcome) PROVE BInv'
    <2>1. outcome \in ChargeStatus
      BY DEF BillingConstants, ChargeStatus
    <2>2. charge' \in [Payments -> ChargeStatus] /\ hook' \in [Payments -> BOOLEAN]
      BY <1>1, <1>4, <2>1 DEF Charge, BTypeOK
    <2> QED
      BY <1>1, <1>4, <2>2, OutsideInv DEF Charge, BTypeOK
  <1>5. CASE OpenPage(p)
    <2>1. page' \in [Payments -> [state : PageStates, attempt : Attempts]]
      BY <1>1, <1>5 DEF OpenPage, BTypeOK, PageStates, Attempts
    <2> QED
      BY <1>1, <1>5, <2>1, OutsideInv DEF OpenPage, BTypeOK
  <1>6. CASE RejectPayment(p)
    <2>1. \A w \in Workers : ~(Claimed(w) /\ work[w].pay = p)
      BY <1>6 DEF RejectPayment, LockedPayment, Doing, Claimed
    <2> QED
      BY <1>6, <2>1, PaymentInv DEF RejectPayment, PaymentStatus
  <1> QED
    BY <1>2, <1>3, <1>4, <1>5, <1>6

LEMMA BInvNext == BillingConstants /\ BInv /\ [BNext]_bvars => BInv'
  <1> SUFFICES ASSUME BillingConstants, BInv, [BNext]_bvars PROVE BInv'
    OBVIOUS
  <1>1. ASSUME NEW w \in Workers, CreateListingRead(w) PROVE BInv'
    <2>1. BTypeOK /\ UNCHANGED <<today, payment, charge, hook, sub, lapse, page>>
      BY <1>1 DEF BInv, CreateListingRead
    <2>2. PICK r \in Work : work' = [work EXCEPT ![w] = r] /\ r.at = "listing"
      BY <1>1, <2>1, ListingFacts
    <2> QED
      BY <2>1, <2>2, WorkInv DEF BTypeOK
  <1>2. CASE UNCHANGED bvars
    BY <1>2, OutsideInv DEF bvars, BInv, BTypeOK
  <1> QED
    BY <1>1, <1>2, SellerInv, CallersInv, VerifyAnswerInv, ClaimStepInv, CommitInv,
       DoneInv, ClockInv DEF BNext

\* Types of the rows, the page and the requests (billingController.js,
\* BillingCallback.jsx).
THEOREM BillingTypes ==
    ASSUME BillingConstants
    PROVE  BSpec => []BTypeOK
  <1>1. BInv => BTypeOK
    BY DEF BInv
  <1> QED
    BY <1>1, BInvInit, BInvNext, PTL DEF BSpec

\* Whatever races with what, and whatever is delivered twice, nobody has more
\* days left than the applied payments have bought (applyVerifiedPayment).
THEOREM NeverDoubled ==
    ASSUME BillingConstants
    PROVE  BSpec => []NoDoubleExtend
  <1>1. BInv => NoDoubleExtend
    <2> SUFFICES ASSUME BInv PROVE DaysLeft <= Bought
      BY DEF NoDoubleExtend, Bought
    <2>1. today \in Nat /\ sub.end \in Nat /\ Bought \in Nat
      BY BoughtType DEF BInv, BTypeOK, BillingConstants
    <2>2. sub.end <= today + Bought
      BY DEF BInv, EndInv
    <2> QED
      BY <2>1, <2>2 DEF DaysLeft, Active
  <1> QED
    BY <1>1, BInvInit, BInvNext, PTL DEF BSpec

-----------------------------------------------------------------------------
(* One request at a time.                                                  *)

OneRequest == \A w, v \in Workers : ~Doing(w, "idle") /\ ~Doing(v, "idle") => v = w

\* A listing that was found without a subscription is still without one, and
\* a claim starts its period where the days that are left end.
ReadInv ==
    \A w \in Workers :
        /\ work[w].at = "listing" /\ work[w].free => ~Active
        /\ Claimed(w) => work[w].base = today + DaysLeft

SerialInv == BInv /\ ReadInv /\ SubscriberNeverLapses

LEMMA SerialInit == BillingConstants /\ BInit => SerialInv
  <1> SUFFICES ASSUME BillingConstants, BInit PROVE SerialInv
    OBVIOUS
  <1>1. lapse = 0 /\ \A w \in Workers : work[w].at = "idle"
    BY NoWorkType DEF BInit
  <1> QED
    BY <1>1, BInvInit DEF SerialInv, ReadInv, Claimed, SubscriberNeverLapses

\* What every step does to the days left and to what has been read of them.
Extends(w) ==
    /\ Claimed(w)
    /\ DaysLeft' = DaysLeft + Duration
    /\ lapse' = 0

\* A step that leaves the subscription and the clock.
LEMMA SameDays ==
    ASSUME UNCHANGED <<sub, today>>
    PROVE  DaysLeft' = DaysLeft /\ (Active' <=> Active)
  BY DEF DaysLeft, Active

LEMMA SerialMove ==
    ASSUME SerialInv, BInv', UNCHANGED <<sub, today>>, NEW w \in Workers, NEW r \in Work,
           work' = [work EXCEPT ![w] = r],
           r.at = "listing" => (r.free <=> ~Active),
           r.at = "claimed" => r.base = today + DaysLeft,
           Active => lapse' = 0
    PROVE  SerialInv'
  <1>1. work'[w] = r /\ \A v \in Workers \ {w} : work'[v] = work[v]
    BY DEF SerialInv, BInv, BTypeOK
  <1>2. ReadInv'
    BY <1>1, SameDays DEF SerialInv, ReadInv, Claimed
  <1>3. SubscriberNeverLapses'
    BY SameDays DEF SubscriberNeverLapses
  <1> QED
    BY <1>2, <1>3 DEF SerialInv

LEMMA SerialSame ==
    ASSUME SerialInv, BInv', UNCHANGED <<sub, today, work, lapse>>
    PROVE  SerialInv'
  BY SameDays DEF SerialInv, ReadInv, Claimed, SubscriberNeverLapses

\* The steps that leave the subscription and the clock.
LEMMA SerialRequests ==
    ASSUME BillingConstants, SerialInv, BInv', NEW w \in Workers,
           \/ \E p \in Payments :
                 VerifyRead(w, p) \/ HookRead(w, p) \/ AdminVerifyRead(w, p)
           \/ VerifyAnswer(w) \/ Claim(w) \/ Lose(w)
           \/ CreateListingRead(w) \/ CreateListingWrite(w)
    PROVE  SerialInv' /\ UNCHANGED <<sub, today>>
  <1>1. /\ BInv /\ BTypeOK /\ NoWork \in Work /\ NoWork.at = "idle"
        /\ Active => lapse = 0
    BY NoWorkType DEF SerialInv, BInv, SubscriberNeverLapses
  <1>2. ASSUME NEW p \in Payments,
               VerifyRead(w, p) \/ HookRead(w, p) \/ AdminVerifyRead(w, p)
        PROVE  SerialInv' /\ UNCHANGED <<sub, today>>
    <2>1. UNCHANGED <<sub, today, lapse>>
      BY <1>2 DEF VerifyRead, HookRead, AdminVerifyRead
    <2>2. \/ UNCHANGED work
          \/ \E by \in {"page", "hook", "admin"}, stage \in {"asked", "apply"} :
                Begin(w, by, p, stage)
      BY <1>2 DEF VerifyRead, HookRead, AdminVerifyRead
    <2>3. CASE UNCHANGED work
      BY <2>1, <2>3, SerialSame
    <2>4. ASSUME NEW by \in {"page", "hook", "admin"}, NEW stage \in {"asked", "apply"},
                 Begin(w, by, p, stage)
          PROVE  SerialInv'
      <3>1. PICK r \in Work : work' = [work EXCEPT ![w] = r] /\ r.at = stage
        BY <1>1, <2>4, BeginFacts
      <3> QED
        BY <1>1, <2>1, <3>1, SerialMove
    <2> QED
      BY <2>1, <2>2, <2>3, <2>4
  <1>3. CASE VerifyAnswer(w)
    <2>1. UNCHANGED <<sub, today, lapse>>
      BY <1>3 DEF VerifyAnswer
    <2>2. CASE work' = [work EXCEPT ![w].at = "apply"]
      <3> DEFINE r == [work[w] EXCEPT !.at = "apply"]
      <3>1. r \in Work /\ r.at = "apply" /\ work' = [work EXCEPT ![w] = r]
        BY <1>1, <2>2 DEF BTypeOK, Work, WorkStages
      <3> HIDE DEF r
      <3> QED
        BY <1>1, <2>1, <3>1, SerialMove
    <2>3. CASE Done(w)
      BY <1>1, <2>1, <2>3, SerialMove DEF Done
    <2> QED
      BY <1>3, <2>1, <2>2, <2>3 DEF VerifyAnswer
  <1>4. CASE Claim(w)
    <2>1. UNCHANGED <<sub, today, lapse>>
      BY <1>4 DEF Claim
    <2>2. CASE work' = [work EXCEPT ![w].at = "claimed", ![w].base = PeriodBase]
      <3> DEFINE r == [work[w] EXCEPT !.at = "claimed", !.base = PeriodBase]
      <3>1. /\ r \in Work /\ r.at = "claimed" /\ r.base = PeriodBase
            /\ work' = [work EXCEPT ![w] = r]
        BY <1>1, <2>2, PeriodFacts DEF BTypeOK, Work, WorkStages
      <3> HIDE DEF r
      <3> QED
        BY <1>1, <2>1, <3>1, PeriodFacts, SerialMove
    <2>3. CASE Respond(w)
      BY <1>1, <2>1, <2>3, SerialMove DEF Respond, Done
    <2> QED
      BY <1>4, <2>1, <2>2, <2>3 DEF Claim
  <1>5. CASE Lose(w)
    BY <1>1, <1>5, SerialMove DEF Lose, Done
  <1>6. CASE CreateListingRead(w)
    <2>1. UNCHANGED <<sub, today, lapse>>
      BY <1>6 DEF CreateListingRead
    <2>2. PICK r \in Work : /\ work' = [work EXCEPT ![w] = r]
                            /\ r.at = "listing" /\ (r.free <=> ~Active)
      BY <1>1, <1>6, ListingFacts
    <2> QED
      BY <1>1, <2>1, <2>2, SerialMove
  <1>7. CASE CreateListingWrite(w)
    <2>1. /\ UNCHANGED <<sub, today>> /\ Done(w) /\ work[w].at = "listing"
          /\ lapse' = IF work[w].free THEN today + FreeDays ELSE 0
      BY <1>7 DEF CreateListingWrite, Doing
    <2>2. Active => ~work[w].free
      BY <2>1 DEF SerialInv, ReadInv
    <2> QED
      BY <1>1, <2>1, <2>2, SerialMove DEF Done
  <1> QED
    BY <1>2, <1>3, <1>4, <1>5, <1>6, <1>7

\* A payment that is applied adds its days.
LEMMA SerialCommit ==
    ASSUME BillingConstants, SerialInv, BInv', OneRequest, NEW w \in Workers, CommitPlan(w)
    PROVE  SerialInv' /\ Extends(w)
  <1>1. /\ Claimed(w) /\ sub'.status = "ACTIVE" /\ sub'.end = work[w].base + Duration
        /\ lapse' = 0 /\ Respond(w) /\ UNCHANGED today
    BY CommitFacts DEF SerialInv
  <1>2. work[w].base = today + DaysLeft /\ DaysLeft \in Nat
    BY <1>1, PeriodFacts DEF SerialInv, ReadInv
  <1>3. today \in Nat /\ Duration \in Nat /\ Duration > 0
    BY DEF SerialInv, BInv, BTypeOK, BillingConstants
  <1>4. DaysLeft' = DaysLeft + Duration
    BY <1>1, <1>2, <1>3 DEF DaysLeft, Active
  <1>5. \A v \in Workers : work'[v].at = "idle"
    <2>1. /\ work'[w].at = "idle" /\ \A v \in Workers \ {w} : work'[v] = work[v]
      BY <1>1, DoneFacts DEF SerialInv, BInv, Respond
    <2> QED
      BY <1>1, <2>1 DEF OneRequest, Doing, Claimed
  <1>6. ReadInv'
    BY <1>5 DEF ReadInv, Claimed
  <1> QED
    BY <1>1, <1>4, <1>6 DEF SerialInv, SubscriberNeverLapses, Extends

\* The clock takes a day, if one is left.
LEMMA SerialClock ==
    ASSUME BillingConstants, SerialInv, BInv', Day \/ SweepSubscriptions
    PROVE  SerialInv' /\ (DaysLeft' = DaysLeft \/ (DaysLeft > 0 /\ DaysLeft' = DaysLeft - 1))
  <1>1. today \in Nat /\ sub.end \in Nat /\ sub'.end \in Nat
    BY DEF SerialInv, BInv, BTypeOK, BillingConstants
  <1>2. CASE Day
    <2>1. /\ today' = today + 1 /\ UNCHANGED <<sub, lapse, work>>
          /\ \A w \in Workers : ~Claimed(w)
      BY <1>2 DEF Day, Doing, Claimed
    <2>2. Active' => Active
      BY <1>1, <2>1 DEF Active
    <2>3. ReadInv' /\ SubscriberNeverLapses'
      BY <2>1, <2>2 DEF SerialInv, ReadInv, SubscriberNeverLapses, Claimed
    <2>4. DaysLeft' = DaysLeft \/ (DaysLeft > 0 /\ DaysLeft' = DaysLeft - 1)
      BY <1>1, <2>1 DEF DaysLeft, Active
    <2> QED
      BY <2>3, <2>4 DEF SerialInv
  <1>3. CASE SweepSubscriptions
    <2>1. /\ sub.end <= today /\ sub' = [sub EXCEPT !.status = "EXPIRED"]
          /\ UNCHANGED <<today, lapse, work>>
      BY <1>3 DEF SweepSubscriptions
    <2>2. sub'.status = "EXPIRED"
      BY <2>1 DEF SerialInv, BInv, BTypeOK
    <2>3. ~Active /\ ~Active'
      BY <1>1, <2>1, <2>2 DEF Active
    <2>4. DaysLeft' = DaysLeft
      BY <2>3 DEF DaysLeft
    <2>5. ReadInv' /\ SubscriberNeverLapses'
      BY <2>1, <2>3, <2>4 DEF SerialInv, ReadInv, SubscriberNeverLapses, Claimed
    <2> QED
      BY <2>4, <2>5 DEF SerialInv
  <1> QED
    BY <1>2, <1>3

LEMMA SerialStep ==
    ASSUME BillingConstants, SerialInv, OneRequest, [BNext]_bvars
    PROVE  SerialInv' /\ [Credit!CNext]_DaysLeft
  <1>1. BInv'
    BY BInvNext DEF SerialInv
  <1>2. CASE \/ \E p \in Payments :
                   \/ CreatePayment(p) \/ InitializePayment(p)
                   \/ \E outcome \in Outcomes : Charge(p, outcome)
                   \/ OpenPage(p) \/ RejectPayment(p)
             \/ UNCHANGED bvars
    <2>1. UNCHANGED <<sub, today, work, lapse>>
      BY <1>2 DEF CreatePayment, InitializePayment, Charge, OpenPage, RejectPayment, bvars
    <2> QED
      BY <1>1, <2>1, SerialSame, SameDays
  <1>3. ASSUME NEW w \in Workers,
               \/ \E p \in Payments :
                     VerifyRead(w, p) \/ HookRead(w, p) \/ AdminVerifyRead(w, p)
               \/ VerifyAnswer(w) \/ Claim(w) \/ Lose(w)
               \/ CreateListingRead(w) \/ CreateListingWrite(w)
        PROVE  SerialInv' /\ [Credit!CNext]_DaysLeft
    BY <1>1, <1>3, SerialRequests, SameDays
  <1>4. ASSUME NEW w \in Workers, CommitPlan(w)
        PROVE  SerialInv' /\ [Credit!CNext]_DaysLeft
    BY <1>1, <1>4, SerialCommit DEF Extends, Credit!CNext, Credit!Buy
  <1>5. CASE Day \/ SweepSubscriptions
    BY <1>1, <1>5, SerialClock DEF Credit!CNext, Credit!DayPasses
  <1> QED
    BY <1>2, <1>3, <1>4, <1>5 DEF BNext

\* While requests are served one at a time, no listing of a subscriber has an
\* expiry date (createVehicle sets one only without a subscription, and
\* applyVerifiedPayment clears them).
THEOREM NeverLapses ==
    ASSUME BillingConstants
    PROVE  BSpec /\ []OneRequest => []SubscriberNeverLapses
  <1>1. SerialInv => SubscriberNeverLapses
    BY DEF SerialInv
  <1>2. SerialInv /\ OneRequest /\ [BNext]_bvars => SerialInv'
    BY SerialStep
  <1>3. BInit => SerialInv
    BY SerialInit
  <1> QED
    BY <1>1, <1>2, <1>3, PTL DEF BSpec

\* While requests are served one at a time, the payments implement what a plan
\* promises: each adds its days to those that are left, and a day that passes
\* takes one (PLANS of config/plans.js, applyVerifiedPayment).
THEOREM PaymentsAddUp ==
    ASSUME BillingConstants
    PROVE  BSpec /\ []OneRequest => AddsUp
  <1>1. BInit => Credit!CInit
    BY DEF BInit, Credit!CInit, DaysLeft, Active
  <1>2. SerialInv /\ OneRequest /\ [BNext]_bvars => SerialInv' /\ [Credit!CNext]_DaysLeft
    BY SerialStep
  <1>3. BInit => SerialInv
    BY SerialInit
  <1> QED
    BY <1>1, <1>2, <1>3, PTL DEF BSpec, AddsUp, Credit!CSpec

-----------------------------------------------------------------------------
(* The sweep of expired listings.                                          *)

LEMMA SweepTypeInit == ASSUME SweepConstants PROVE SInit => STypeOK
  BY DEF SweepConstants, SInit, STypeOK

LEMMA SweepTypeNext ==
    ASSUME SweepConstants, STypeOK, [SNext]_svars
    PROVE  STypeOK'
  <1> USE DEF STypeOK
  <1>1. ASSUME NEW p \in Processes, Sweep(p) PROVE STypeOK'
    BY <1>1 DEF Sweep, SweepConstants
  <1>2. ASSUME NEW p \in Processes, RestartProcess(p) PROVE STypeOK'
    BY <1>2 DEF RestartProcess, SweepConstants
  <1>3. CASE Upgrade
    BY <1>3 DEF Upgrade, SweepConstants
  <1>4. CASE ClockTick
    BY <1>4 DEF ClockTick, SweepConstants
  <1>5. ASSUME NEW on \in BOOLEAN, SetListed(on) PROVE STypeOK'
    BY <1>5 DEF SetListed
  <1>6. CASE UNCHANGED svars
    BY <1>6 DEF svars
  <1> QED
    BY <1>1, <1>2, <1>3, <1>4, <1>5, <1>6 DEF SNext

\* The clock, the listing and the timers are well typed (jobs/expiry.js).
THEOREM SweepTypes == ASSUME SweepConstants PROVE SSpec => []STypeOK
  BY SweepTypeInit, SweepTypeNext, PTL DEF SSpec

-----------------------------------------------------------------------------
(* Who has told.                                                           *)

\* A process whose next sweep comes too late for the listing: it has told
\* the seller, or has nothing to tell until it is restarted.
TooLate == {p \in Processes : timer[p] >= expiresAt + DayTicks}

SInv ==
    /\ STypeOK
    /\ notices <= Cardinality(TooLate) + restarts

LEMMA TooLateFinite ==
    ASSUME SweepConstants
    PROVE  IsFiniteSet(TooLate) /\ Cardinality(TooLate) \in Nat
           /\ Cardinality(TooLate) <= Cardinality(Processes)
           /\ Cardinality(Processes) \in Nat
  <1>1. TooLate \subseteq Processes /\ IsFiniteSet(Processes)
    BY DEF TooLate, SweepConstants
  <1> QED
    BY <1>1, FS_Subset, FS_CardinalityType

LEMMA SweepInv ==
    ASSUME SweepConstants, SInv, NEW p \in Processes, Sweep(p)
    PROVE  notices' <= Cardinality(TooLate') + restarts'
  <1> USE DEF SInv, STypeOK
  <1>1. clock \in Nat /\ expiresAt \in Nat /\ DayTicks \in Nat \ {0}
        /\ restarts \in Nat /\ notices \in Nat
    BY DEF SweepConstants
  <1>2. /\ timer' = [timer EXCEPT ![p] = clock + DayTicks]
        /\ clock >= timer[p] /\ UNCHANGED <<clock, expiresAt, restarts>>
    BY DEF Sweep
  <1>3. TooLate \subseteq TooLate'
    BY <1>1, <1>2 DEF TooLate
  <1>4. IsFiniteSet(TooLate') /\ Cardinality(TooLate') \in Nat
    BY FS_Subset, FS_CardinalityType DEF TooLate, SweepConstants
  <1>5. Cardinality(TooLate) <= Cardinality(TooLate') /\ Cardinality(TooLate) \in Nat
    BY <1>3, <1>4, FS_Subset, TooLateFinite
  <1>6. CASE Lapsed
    <2>1. p \notin TooLate /\ p \in TooLate'
      BY <1>1, <1>2, <1>6 DEF Lapsed, TooLate
    <2>2. Cardinality(TooLate) < Cardinality(TooLate')
      BY <1>3, <1>4, <2>1, FS_Subset, TooLateFinite
    <2>3. notices' = notices + 1
      BY <1>6 DEF Sweep
    <2> QED
      BY <1>1, <1>2, <1>4, <1>5, <2>2, <2>3
  <1>7. CASE ~Lapsed
    <2>1. notices' = notices
      BY <1>7 DEF Sweep
    <2> QED
      BY <1>1, <1>2, <1>4, <1>5, <2>1
  <1> QED
    BY <1>6, <1>7

LEMMA RemoveOne ==
    ASSUME NEW S, IsFiniteSet(S), NEW x
    PROVE  /\ Cardinality(S \ {x}) >= Cardinality(S) - 1
           /\ Cardinality(S \ {x}) \in Nat
  <1>1. Cardinality(S) \in Nat
    BY FS_CardinalityType
  <1>2. CASE x \in S
    <2>1. Cardinality(S \ {x}) = Cardinality(S) - 1 /\ IsFiniteSet(S \ {x})
      BY <1>2, FS_RemoveElement
    <2>2. Cardinality(S \ {x}) \in Nat
      BY <2>1, FS_CardinalityType
    <2> QED
      BY <1>1, <2>1, <2>2
  <1>3. CASE x \notin S
    <2>1. S \ {x} = S
      BY <1>3
    <2> QED
      BY <1>1, <2>1
  <1> QED
    BY <1>2, <1>3

LEMMA RestartInv ==
    ASSUME SweepConstants, SInv, NEW p \in Processes, RestartProcess(p)
    PROVE  notices' <= Cardinality(TooLate') + restarts'
  <1> USE DEF SInv, STypeOK
  <1>1. restarts \in Nat /\ notices \in Nat
    BY DEF SweepConstants
  <1>2. /\ timer' = [timer EXCEPT ![p] = clock + BootDelay]
        /\ restarts' = restarts + 1 /\ UNCHANGED <<clock, expiresAt, notices>>
    BY DEF RestartProcess
  <1>3. TooLate \ {p} \subseteq TooLate'
    BY <1>2 DEF TooLate
  <1>4. IsFiniteSet(TooLate') /\ Cardinality(TooLate') \in Nat
    BY FS_Subset, FS_CardinalityType DEF TooLate, SweepConstants
  <1>5. IsFiniteSet(TooLate) /\ Cardinality(TooLate) \in Nat
    BY TooLateFinite
  <1>6. /\ Cardinality(TooLate \ {p}) >= Cardinality(TooLate) - 1
        /\ Cardinality(TooLate \ {p}) \in Nat
    BY <1>5, RemoveOne
  <1>7. Cardinality(TooLate \ {p}) <= Cardinality(TooLate')
    BY <1>3, <1>4, FS_Subset
  <1> QED
    BY <1>1, <1>2, <1>4, <1>5, <1>6, <1>7

LEMMA UpgradeInv ==
    ASSUME SweepConstants, SInv, Upgrade
    PROVE  notices' <= Cardinality(TooLate') + restarts'
  <1> USE DEF SInv, STypeOK
  <1>1. restarts \in Nat /\ notices \in Nat /\ DayTicks \in Nat /\ expiresAt \in Nat
    BY DEF SweepConstants
  <1>2. expiresAt' = 0 /\ UNCHANGED <<notices, timer, restarts>>
    BY DEF Upgrade
  <1>3. TooLate \subseteq TooLate'
    BY <1>1, <1>2 DEF TooLate
  <1>4. IsFiniteSet(TooLate') /\ Cardinality(TooLate') \in Nat
    BY FS_Subset, FS_CardinalityType DEF TooLate, SweepConstants
  <1>5. Cardinality(TooLate) <= Cardinality(TooLate') /\ Cardinality(TooLate) \in Nat
    BY <1>3, <1>4, FS_Subset, TooLateFinite
  <1> QED
    BY <1>1, <1>2, <1>4, <1>5

LEMMA SInvNext ==
    ASSUME SweepConstants, SInv, [SNext]_svars
    PROVE  SInv'
  <1>1. STypeOK'
    BY SweepTypeNext DEF SInv
  <1>2. CASE ClockTick \/ (\E on \in BOOLEAN : SetListed(on)) \/ UNCHANGED svars
    <2>1. UNCHANGED <<expiresAt, notices, timer, restarts>>
      BY <1>2 DEF ClockTick, SetListed, svars
    <2>2. TooLate' = TooLate
      BY <2>1 DEF TooLate
    <2> QED
      BY <1>1, <2>1, <2>2 DEF SInv
  <1> QED
    BY <1>1, <1>2, SweepInv, RestartInv, UpgradeInv DEF SNext, SInv

\* Each process tells at most once from one start to the next, so a seller
\* gets no more notices than there are processes and restarts, however late
\* the timers fire (jobs/expiry.js remembers nothing of what it has sent).
THEOREM NoticesCounted == ASSUME SweepConstants PROVE SSpec => []NoticesBounded
  <1>1. SInit => SInv
    <2> SUFFICES ASSUME SInit PROVE SInv
      OBVIOUS
    <2>1. notices = 0 /\ restarts = 0
      BY DEF SInit
    <2> QED
      BY <2>1, SweepTypeInit, TooLateFinite DEF SInv
  <1>2. SInv /\ [SNext]_svars => SInv'
    BY SInvNext
  <1>3. SInv => NoticesBounded
    <2> SUFFICES ASSUME SInv PROVE NoticesBounded
      OBVIOUS
    <2>1. notices \in Nat /\ restarts \in Nat
      BY DEF SInv, STypeOK, SweepConstants
    <2> QED
      BY <2>1, TooLateFinite DEF SInv, NoticesBounded
  <1> QED
    BY <1>1, <1>2, <1>3, PTL DEF SSpec
=============================================================================

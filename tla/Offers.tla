------------------------------- MODULE Offers -------------------------------
(***************************************************************************)
(* The price negotiation of one buyer about one listing:                   *)
(* backend/src/controllers/offerController.js, the use of an accepted      *)
(* price by initiatePurchase (purchaseController.js), and what the panel   *)
(* of the chat shows (frontend/src/components/OfferPanel.jsx).             *)
(*                                                                         *)
(* An offer is a row; offers is the sequence of the rows in the order of   *)
(* their ids.  Every answer reads the offer, checks that it is PENDING and *)
(* updates it by id, so between the two the other side may have answered.  *)
(* makeOffer withdraws the pending rows and inserts its own in one         *)
(* transaction.  Its UPDATE finds the rows when it starts and waits for    *)
(* those that are locked: a row inserted meanwhile is not among them, one  *)
(* that is no longer PENDING is passed over.  The rows it has withdrawn    *)
(* are locked and still PENDING for everybody else until it commits.       *)
(*                                                                         *)
(* stamp orders the rows by updatedAt as far as checkout looks at it: the  *)
(* accepted row with the largest stamp is the latest.  Notices are left    *)
(* out; prices are small numbers.                                          *)
(***************************************************************************)
EXTENDS Naturals, Sequences, FiniteSets

CONSTANTS
    Callers,        \* offer requests that can be in flight at once
    Prices,         \* asking prices and offers
    Asking,         \* the price the listing starts with
    MaxOffers,      \* bound on the rows
    NoAmount        \* no price

OfferConstants ==
    /\ Prices \subseteq Nat
    /\ Asking \in Prices
    /\ MaxOffers \in Nat
    /\ NoAmount \notin Prices

VARIABLES
    offers,     \* the PriceOffer rows
    asking,     \* Vehicle.price
    onMarket,   \* Vehicle.status = 'AVAILABLE'
    subscribed, \* whether the seller has an active subscription
    order,      \* the price of the buyer's open order, or NoAmount
    oreq        \* requests in flight

ovars == <<offers, asking, onMarket, subscribed, order, oreq>>

Sides == {"BUYER", "SELLER"}
OtherSide(side) == IF side = "BUYER" THEN "SELLER" ELSE "BUYER"

OfferStatus ==
    {"PENDING", "COUNTERED", "ACCEPTED", "DECLINED", "WITHDRAWN", "USED"}

PriceOffer ==
    [amount     : Prices,
     proposedBy : Sides,
     status     : OfferStatus,
     parent     : Nat,      \* parentId; 0 for none
     stamp      : Nat]      \* updatedAt

OfferStages ==
    {"idle", "makeOffer", "makeFound", "makeWithdrawn", "accept", "decline",
     "counter", "withdraw", "offerRead"}

OfferRequest ==
    [at      : OfferStages,
     offer   : Nat,             \* the offer it is about
     amount  : Prices \cup {NoAmount},
     cleared : SUBSET Nat]      \* the rows its UPDATE has found

NoCall == [at |-> "idle", offer |-> 0, amount |-> NoAmount, cleared |-> {}]

OTypeOK ==
    /\ offers \in Seq(PriceOffer)
    /\ asking \in Prices
    /\ onMarket \in BOOLEAN
    /\ subscribed \in BOOLEAN
    /\ order \in Prices \cup {NoAmount}
    /\ oreq \in [Callers -> OfferRequest]

OInit ==
    /\ offers = <<>>
    /\ asking = Asking
    /\ onMarket = TRUE
    /\ subscribed = TRUE
    /\ order = NoAmount
    /\ oreq = [c \in Callers |-> NoCall]

-----------------------------------------------------------------------------
Ids == DOMAIN offers
Pending  == {i \in Ids : offers[i].status = "PENDING"}
Accepted == {i \in Ids : offers[i].status = "ACCEPTED"}

Free(c) == oreq[c].at = "idle"
Calling(c, stage) == oreq[c].at = stage
Answer(c) == oreq' = [oreq EXCEPT ![c] = NoCall]

Call(c, stage, i, price) ==
    /\ Free(c)
    /\ oreq' = [oreq EXCEPT ![c] = [NoCall EXCEPT !.at = stage, !.offer = i,
                                                  !.amount = price]]
    /\ UNCHANGED <<offers, asking, onMarket, subscribed, order>>

\* A row that a makeOffer has withdrawn and not committed.
LockedOffer(i) ==
    \E c \in Callers : Calling(c, "makeWithdrawn") /\ i \in oreq[c].cleared

LastStamp ==
    LET stamps == {0} \cup {offers[i].stamp : i \in Ids}
    IN  CHOOSE s \in stamps : \A t \in stamps : t <= s

NewOffer(price, side, parent) ==
    [amount |-> price, proposedBy |-> side, status |-> "PENDING",
     parent |-> parent, stamp |-> 0]

SetOffer(i, status) == [offers EXCEPT ![i].status = status]

-----------------------------------------------------------------------------
(* makeOffer.                                                              *)

MakeOfferRead(c, price) ==
    /\ onMarket
    /\ price < asking
    /\ Call(c, "makeOffer", 0, price)

\* The UPDATE starts: these are the rows it is going to look at.
MakeOfferFind(c) ==
    /\ Calling(c, "makeOffer")
    /\ oreq' = [oreq EXCEPT ![c].at = "makeFound", ![c].cleared = Pending]
    /\ UNCHANGED <<offers, asking, onMarket, subscribed, order>>

\* It has waited for those that another makeOffer held, and takes the ones
\* that are still open.
MakeOfferWithdraw(c) ==
    /\ Calling(c, "makeFound")
    /\ \A i \in oreq[c].cleared : ~LockedOffer(i)
    /\ oreq' = [oreq EXCEPT ![c].at = "makeWithdrawn",
                            ![c].cleared = @ \cap Pending]
    /\ UNCHANGED <<offers, asking, onMarket, subscribed, order>>

\* Variant: the earlier offers stay.
MakeOfferKeepOld(c) ==
    /\ Calling(c, "makeWithdrawn")
    /\ Len(offers) < MaxOffers
    /\ offers' = Append(offers, NewOffer(oreq[c].amount, "BUYER", 0))
    /\ Answer(c)
    /\ UNCHANGED <<asking, onMarket, subscribed, order>>

MakeOfferCommit(c) ==
    /\ Calling(c, "makeWithdrawn")
    /\ Len(offers) < MaxOffers
    /\ offers' = Append(
            [i \in Ids |-> IF i \in oreq[c].cleared
                           THEN [offers[i] EXCEPT !.status = "WITHDRAWN"]
                           ELSE offers[i]],
            NewOffer(oreq[c].amount, "BUYER", 0))
    /\ Answer(c)
    /\ UNCHANGED <<asking, onMarket, subscribed, order>>

-----------------------------------------------------------------------------
(* respondToOffer and withdrawOffer: the side an offer sits with is the    *)
(* one that did not propose it; only the proposer withdraws it.            *)

\* Variant: any offer can be accepted.
AcceptAnyRead(c, i) == i \in Ids /\ Call(c, "accept", i, NoAmount)

AcceptRead(c, i)  == i \in Pending /\ Call(c, "accept", i, NoAmount)
DeclineRead(c, i) == i \in Pending /\ Call(c, "decline", i, NoAmount)

\* A counter stays below the asking price, and the seller needs a plan.
CounterRead(c, i, price) ==
    /\ i \in Pending
    /\ price < asking
    /\ offers[i].proposedBy = "BUYER" => subscribed
    /\ Call(c, "counter", i, price)

WithdrawRead(c, i) == i \in Pending /\ Call(c, "withdraw", i, NoAmount)

\* The answer an offer gets, by id.
AnswerOffer(c, stage, status) ==
    LET i == oreq[c].offer
    IN  /\ Calling(c, stage)
        /\ ~LockedOffer(i)
        /\ offers' = SetOffer(i, status)
        /\ Answer(c)
        /\ UNCHANGED <<asking, onMarket, subscribed, order>>

AcceptWrite(c) ==
    LET i == oreq[c].offer
    IN  /\ Calling(c, "accept")
        /\ ~LockedOffer(i)
        /\ offers' = [offers EXCEPT ![i].status = "ACCEPTED",
                                    ![i].stamp = LastStamp + 1]
        /\ Answer(c)
        /\ UNCHANGED <<asking, onMarket, subscribed, order>>

DeclineWrite(c)  == AnswerOffer(c, "decline", "DECLINED")
WithdrawWrite(c) == AnswerOffer(c, "withdraw", "WITHDRAWN")

\* Variant: the offer that is countered stays open.
CounterKeepOpen(c) ==
    LET i == oreq[c].offer
    IN  /\ Calling(c, "counter")
        /\ ~LockedOffer(i)
        /\ Len(offers) < MaxOffers
        /\ offers' = Append(offers, NewOffer(oreq[c].amount,
                                OtherSide(offers[i].proposedBy), i))
        /\ Answer(c)
        /\ UNCHANGED <<asking, onMarket, subscribed, order>>

CounterWrite(c) ==
    LET i == oreq[c].offer
    IN  /\ Calling(c, "counter")
        /\ ~LockedOffer(i)
        /\ Len(offers) < MaxOffers
        /\ offers' = Append(SetOffer(i, "COUNTERED"),
                            NewOffer(oreq[c].amount,
                                     OtherSide(offers[i].proposedBy), i))
        /\ Answer(c)
        /\ UNCHANGED <<asking, onMarket, subscribed, order>>

-----------------------------------------------------------------------------
(* Checkout: the latest accepted offer is the price, and is sealed.        *)

LatestAccepted ==
    {i \in Accepted : \A j \in Accepted : offers[j].stamp <= offers[i].stamp}

\* What getPayablePrice answers and initiatePurchase charges.
PayablePrice ==
    IF Accepted = {} THEN asking
    ELSE LET i == CHOOSE i \in LatestAccepted : TRUE IN offers[i].amount

CheckoutRead(c) ==
    /\ onMarket
    /\ order = NoAmount
    /\ Call(c, "offerRead",
            IF Accepted = {} THEN 0 ELSE CHOOSE i \in LatestAccepted : TRUE,
            PayablePrice)

\* The order of checkouts of the same buyer is the subject of Purchases:
\* here the second one fails.
CheckoutCommit(c) ==
    LET i == oreq[c].offer
    IN  /\ Calling(c, "offerRead")
        /\ ~LockedOffer(i)
        /\ order = NoAmount
        /\ order' = oreq[c].amount
        /\ offers' = IF i = 0 THEN offers ELSE SetOffer(i, "USED")
        /\ Answer(c)
        /\ UNCHANGED <<asking, onMarket, subscribed>>

\* The order is cancelled; its offer stays USED.
CancelOrder ==
    /\ order # NoAmount
    /\ order' = NoAmount
    /\ UNCHANGED <<offers, asking, onMarket, subscribed, oreq>>

-----------------------------------------------------------------------------
(* What else moves: the listing and the seller's plan, and lost requests.  *)

SetAsking(price) ==
    /\ asking' = price
    /\ UNCHANGED <<offers, onMarket, subscribed, order, oreq>>

SetMarket(available) ==
    /\ onMarket' = available
    /\ UNCHANGED <<offers, asking, subscribed, order, oreq>>

SetPlan(active) ==
    /\ subscribed' = active
    /\ UNCHANGED <<offers, asking, onMarket, order, oreq>>

Drop(c) ==
    /\ ~Free(c)
    /\ Answer(c)
    /\ UNCHANGED <<offers, asking, onMarket, subscribed, order>>

ONext ==
    \/ \E c \in Callers :
          \/ \E price \in Prices : MakeOfferRead(c, price)
          \/ MakeOfferFind(c)
          \/ MakeOfferWithdraw(c)
          \/ MakeOfferCommit(c)
          \/ \E i \in Ids :
                \/ AcceptRead(c, i)
                \/ DeclineRead(c, i)
                \/ WithdrawRead(c, i)
                \/ \E price \in Prices : CounterRead(c, i, price)
          \/ AcceptWrite(c)
          \/ DeclineWrite(c)
          \/ WithdrawWrite(c)
          \/ CounterWrite(c)
          \/ CheckoutRead(c)
          \/ CheckoutCommit(c)
          \/ Drop(c)
    \/ CancelOrder
    \/ \E price \in Prices : SetAsking(price)
    \/ \E b \in BOOLEAN : SetMarket(b) \/ SetPlan(b)

OSpec == OInit /\ [][ONext]_ovars

-----------------------------------------------------------------------------
(* However the requests interleave.                                        *)

\* A chain of counters alternates between the two sides, and an offer that
\* has been countered is never open again, whoever answered at the same time.
RepliesCloseOffers ==
    \A i \in Ids : offers[i].parent # 0 =>
        LET p == offers[i].parent
        IN  /\ p \in 1..(i - 1)
            /\ offers[p].status # "PENDING"
            /\ offers[p].proposedBy # offers[i].proposedBy

(* One request at a time.                                                  *)

\* 'One negotiation per buyer per vehicle': at most one offer is open.
OneLiveOffer == \A i, j \in Pending : i = j

\* An answered offer keeps its answer ('This offer is already ...'); an
\* accepted one can only be used, once, and a used one is spent.
AnswerStays ==
    \A i \in Ids : offers[i].status # "PENDING" =>
        \/ offers'[i].status = offers[i].status
        \/ offers[i].status = "ACCEPTED" /\ offers'[i].status = "USED"

AnsweredOnce == [][AnswerStays]_ovars

(* What does not hold even then.                                           *)

FirstIn(S) == CHOOSE i \in S : \A j \in S : i <= j

\* The panel: 'Price agreed ... Buy Now at ...', shown while no offer is
\* open, from getOfferThread's first accepted or used row.
Agreed == {i \in Ids : offers[i].status \in {"ACCEPTED", "USED"}}
ShownPrice ==
    IF Pending = {} /\ Agreed # {} THEN offers[FirstIn(Agreed)].amount
                                   ELSE NoAmount

\* 'This price is locked for you': a buyer who can check out is charged the
\* price the panel shows.
ShownPriceIsCharged ==
    ShownPrice # NoAmount /\ order = NoAmount => PayablePrice = ShownPrice

\* 'Best payable price': never more than what everybody else pays.
PayableIsBest == PayablePrice <= asking
=============================================================================

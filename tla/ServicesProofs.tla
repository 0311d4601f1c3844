--------------------------- MODULE ServicesProofs ---------------------------
(***************************************************************************)
(* Theorems about three of the components beside the orders: Offers, for   *)
(* every set of prices, every number of requests in flight and every bound *)
(* on the rows; ListingCache, for every set of cars, queries and bounds;   *)
(* and Reviews, for every set of orders and tabs (what Average computes is *)
(* not looked at).                                                         *)
(***************************************************************************)
EXTENDS Offers, ListingCache, Reviews, NaturalsInduction,
        WellFoundedInduction, FiniteSetTheorems, TLAPS

-----------------------------------------------------------------------------
(* Offers: the rows.                                                       *)

NumOffers == Len(offers)

\* One of the rows has the largest stamp, if there is a row.
StampInv ==
    \E n \in Nat : /\ n = 0 \/ \E i \in Ids : offers[i].stamp = n
                   /\ \A i \in Ids : offers[i].stamp <= n

LEMMA IdsAre ==
    ASSUME offers \in Seq(PriceOffer)
    PROVE  /\ NumOffers \in Nat /\ Ids = 1..NumOffers
           /\ \A i \in Ids : offers[i] \in PriceOffer
  BY DEF Ids, NumOffers

LEMMA LastStampFacts ==
    ASSUME offers \in Seq(PriceOffer), StampInv
    PROVE  LastStamp \in Nat /\ \A i \in Ids : offers[i].stamp <= LastStamp
  <1> DEFINE stamps == {0} \cup {offers[i].stamp : i \in Ids}
  <1>1. PICK n \in Nat : /\ n = 0 \/ \E i \in Ids : offers[i].stamp = n
                         /\ \A i \in Ids : offers[i].stamp <= n
    BY DEF StampInv
  <1>2. \A i \in Ids : offers[i].stamp \in Nat
    BY IdsAre DEF PriceOffer
  <1>3. n \in stamps /\ \A t \in stamps : t <= n
    BY <1>1, <1>2
  <1>4. stamps \subseteq Nat
    BY <1>2
  <1>5. LastStamp \in stamps /\ \A t \in stamps : t <= LastStamp
    BY <1>3 DEF LastStamp
  <1> QED
    BY <1>4, <1>5

\* Of two numbers below a bound the nearer is the larger.
LEMMA NearerIsLarger ==
    ASSUME NEW bound \in Nat, NEW x \in Nat, NEW y \in Nat, ~(bound - y < bound - x)
    PROVE  y <= x
  OBVIOUS

\* The latest accepted row exists: the stamps are bounded, so one of the
\* accepted rows has the smallest distance from the bound.
LEMMA LatestExists ==
    ASSUME offers \in Seq(PriceOffer), StampInv, Accepted # {}
    PROVE  LatestAccepted # {}
  <1> DEFINE d(i) == LastStamp - offers[i].stamp
             T == {d(i) : i \in Accepted}
             R == OpToRel(<, Nat)
  <1>1. \A i \in Accepted : i \in Ids /\ offers[i].stamp \in Nat /\ d(i) \in Nat
    <2>1. \A i \in Ids : offers[i].stamp \in Nat
      BY IdsAre DEF PriceOffer
    <2> QED
      BY <2>1, LastStampFacts DEF Accepted
  <1>2. T \subseteq Nat /\ T # {}
    BY <1>1
  <1>3. PICK m \in T : \A k \in T : ~(<<k, m>> \in R)
    <2>1. IsWellFoundedOn(R, Nat)
      BY NatLessThanWellFounded
    <2> HIDE DEF T, R
    <2> QED
      BY <1>2, <2>1, WFMin
  <1>4. \A k \in T : ~(k < m)
    BY <1>2, <1>3 DEF OpToRel
  <1>5. PICK i \in Accepted : m = d(i)
    OBVIOUS
  <1>6. \A j \in Accepted : offers[j].stamp <= offers[i].stamp
    <2> SUFFICES ASSUME NEW j \in Accepted PROVE offers[j].stamp <= offers[i].stamp
      OBVIOUS
    <2>1. ~(d(j) < d(i)) /\ d(j) \in Nat /\ d(i) \in Nat
      BY <1>1, <1>4, <1>5
    <2> HIDE DEF T, R
    <2>2. LastStamp \in Nat /\ offers[i].stamp \in Nat /\ offers[j].stamp \in Nat
      BY <1>1, LastStampFacts
    <2> QED
      BY <2>1, <2>2, NearerIsLarger
  <1> QED
    BY <1>6 DEF LatestAccepted

\* A row changes in place.
LEMMA RowFacts ==
    ASSUME offers \in Seq(PriceOffer), NEW i \in Ids, NEW r \in PriceOffer
    PROVE  LET rows == [offers EXCEPT ![i] = r]
           IN  /\ rows \in Seq(PriceOffer) /\ Len(rows) = NumOffers
               /\ rows[i] = r
               /\ \A j \in Ids \ {i} : rows[j] = offers[j]
  BY DEF Ids, NumOffers

\* The answer an offer gets leaves what it says.
LEMMA StatusFacts ==
    ASSUME offers \in Seq(PriceOffer), NEW i \in Ids, NEW reply \in OfferStatus
    PROVE  /\ SetOffer(i, reply) \in Seq(PriceOffer)
           /\ Len(SetOffer(i, reply)) = NumOffers
           /\ SetOffer(i, reply)[i].status = reply
           /\ SetOffer(i, reply)[i].parent = offers[i].parent
           /\ SetOffer(i, reply)[i].proposedBy = offers[i].proposedBy
           /\ SetOffer(i, reply)[i].stamp = offers[i].stamp
           /\ \A j \in Ids \ {i} : SetOffer(i, reply)[j] = offers[j]
  <1> DEFINE r == [offers[i] EXCEPT !.status = reply]
  <1>1. /\ r \in PriceOffer /\ r.status = reply /\ r.parent = offers[i].parent
        /\ r.proposedBy = offers[i].proposedBy /\ r.stamp = offers[i].stamp
    BY IdsAre DEF PriceOffer
  <1>2. SetOffer(i, reply) = [offers EXCEPT ![i] = r]
    BY DEF SetOffer
  <1> HIDE DEF r
  <1>3. /\ SetOffer(i, reply) \in Seq(PriceOffer)
        /\ Len(SetOffer(i, reply)) = NumOffers
        /\ SetOffer(i, reply)[i] = r
        /\ \A j \in Ids \ {i} : SetOffer(i, reply)[j] = offers[j]
    BY <1>1, <1>2, RowFacts
  <1> QED
    BY <1>1, <1>3

\* A new row is open and comes last.
LEMMA NewOfferFacts ==
    ASSUME NEW price \in Prices, NEW side \in Sides, NEW parent \in Nat
    PROVE  LET r == NewOffer(price, side, parent)
           IN  /\ r \in PriceOffer /\ r.status = "PENDING"
               /\ r.proposedBy = side /\ r.parent = parent /\ r.stamp = 0
  BY DEF NewOffer, PriceOffer, OfferStatus

LEMMA AppendFacts ==
    ASSUME offers \in Seq(PriceOffer), NEW rows \in Seq(PriceOffer), Len(rows) = NumOffers,
           NEW r \in PriceOffer
    PROVE  /\ Append(rows, r) \in Seq(PriceOffer)
           /\ DOMAIN Append(rows, r) = 1..(NumOffers + 1)
           /\ Append(rows, r)[NumOffers + 1] = r
           /\ \A j \in Ids : Append(rows, r)[j] = rows[j]
  BY IdsAre

\* What makeOffer makes of the rows.
ClearedRows(S) ==
    [i \in Ids |-> IF i \in S THEN [offers[i] EXCEPT !.status = "WITHDRAWN"]
                              ELSE offers[i]]

LEMMA ClearedFacts ==
    ASSUME offers \in Seq(PriceOffer), NEW S
    PROVE  /\ ClearedRows(S) \in Seq(PriceOffer) /\ Len(ClearedRows(S)) = NumOffers
           /\ \A i \in Ids :
                 /\ ClearedRows(S)[i].parent = offers[i].parent
                 /\ ClearedRows(S)[i].proposedBy = offers[i].proposedBy
                 /\ ClearedRows(S)[i].stamp = offers[i].stamp
                 /\ ClearedRows(S)[i].status =
                       IF i \in S THEN "WITHDRAWN" ELSE offers[i].status
  <1> DEFINE r(i) == IF i \in S THEN [offers[i] EXCEPT !.status = "WITHDRAWN"]
                                ELSE offers[i]
  <1>1. NumOffers \in Nat /\ Ids = 1..NumOffers
    BY IdsAre
  <1>2. \A i \in Ids :
           /\ r(i) \in PriceOffer /\ r(i).parent = offers[i].parent
           /\ r(i).proposedBy = offers[i].proposedBy /\ r(i).stamp = offers[i].stamp
           /\ r(i).status = IF i \in S THEN "WITHDRAWN" ELSE offers[i].status
    BY IdsAre DEF PriceOffer, OfferStatus
  <1>3. ClearedRows(S) = [i \in 1..NumOffers |-> r(i)]
    BY <1>1 DEF ClearedRows
  <1> HIDE DEF r
  <1> QED
    BY <1>1, <1>2, <1>3

-----------------------------------------------------------------------------
(* However the requests interleave.                                        *)

\* A request is about a row that exists, and has a price where it needs one.
AboutInv ==
    \A c \in Callers :
        /\ oreq[c].at \in {"accept", "decline", "counter", "withdraw"} =>
               oreq[c].offer \in Ids
        /\ oreq[c].at = "offerRead" => oreq[c].offer \in Ids \cup {0}
        /\ oreq[c].at \in {"makeOffer", "makeFound", "makeWithdrawn", "counter",
                         "offerRead"} =>
               oreq[c].amount \in Prices

OInv == OTypeOK /\ StampInv /\ AboutInv /\ RepliesCloseOffers

\* What no step does to a row.
RowsKept ==
    /\ offers' \in Seq(PriceOffer)
    /\ Ids \subseteq Ids'
    /\ \A i \in Ids : /\ offers'[i].parent = offers[i].parent
                      /\ offers'[i].proposedBy = offers[i].proposedBy
                      /\ offers[i].status # "PENDING" => offers'[i].status # "PENDING"

LEMMA NoCallType == NoCall \in OfferRequest /\ NoCall.at = "idle" /\ NoCall.cleared = {}
  BY DEF NoCall, OfferRequest, OfferStages

LEMMA OInvInit == OfferConstants /\ OInit => OInv
  <1> SUFFICES ASSUME OfferConstants, OInit PROVE OInv
    OBVIOUS
  <1>1. OTypeOK
    BY NoCallType DEF OInit, OTypeOK, OfferConstants
  <1>2. Ids = {} /\ \A c \in Callers : oreq[c].at = "idle"
    BY NoCallType DEF OInit, Ids
  <1> QED
    BY <1>1, <1>2 DEF OInv, StampInv, AboutInv, RepliesCloseOffers

LEMMA CallFacts ==
    ASSUME OTypeOK, NEW c \in Callers, NEW stage \in OfferStages, NEW i \in Nat,
           NEW price \in Prices \cup {NoAmount}, Call(c, stage, i, price)
    PROVE  /\ oreq' \in [Callers -> OfferRequest]
           /\ oreq'[c].at = stage /\ oreq'[c].offer = i /\ oreq'[c].amount = price
           /\ oreq'[c].cleared = {}
           /\ \A d \in Callers \ {c} : oreq'[d] = oreq[d]
  <1> DEFINE r == [NoCall EXCEPT !.at = stage, !.offer = i, !.amount = price]
  <1>1. oreq' = [oreq EXCEPT ![c] = r]
    BY DEF Call
  <1>2. /\ r \in OfferRequest /\ r.at = stage /\ r.offer = i /\ r.amount = price
        /\ r.cleared = {}
    BY DEF NoCall, OfferRequest
  <1> HIDE DEF r
  <1> QED
    BY <1>1, <1>2 DEF OTypeOK

LEMMA AnswerFacts ==
    ASSUME OTypeOK, NEW c \in Callers, Answer(c)
    PROVE  /\ oreq' \in [Callers -> OfferRequest]
           /\ oreq'[c].at = "idle" /\ oreq'[c].cleared = {}
           /\ \A d \in Callers \ {c} : oreq'[d] = oreq[d]
  BY NoCallType DEF OTypeOK, Answer

\* A request starts.
LEMMA CallInv ==
    ASSUME OInv, NEW c \in Callers, NEW stage \in OfferStages, NEW i \in Nat,
           NEW price \in Prices \cup {NoAmount}, Call(c, stage, i, price),
           stage \notin {"makeFound", "makeWithdrawn"},
           stage \in {"accept", "decline", "counter", "withdraw"} => i \in Ids,
           stage = "offerRead" => i \in Ids \cup {0},
           stage \in {"makeOffer", "counter", "offerRead"} => price \in Prices
    PROVE  OInv'
  <1>1. UNCHANGED <<offers, asking, onMarket, subscribed, order>>
    BY DEF Call
  <1>2. /\ oreq' \in [Callers -> OfferRequest]
        /\ oreq'[c].at = stage /\ oreq'[c].offer = i /\ oreq'[c].amount = price
        /\ \A d \in Callers \ {c} : oreq'[d] = oreq[d]
    BY CallFacts DEF OInv
  <1>3. OTypeOK' /\ StampInv' /\ RepliesCloseOffers'
    BY <1>1, <1>2 DEF OInv, OTypeOK, StampInv, RepliesCloseOffers, Ids
  <1>4. AboutInv'
    BY <1>1, <1>2 DEF OInv, AboutInv, Ids
  <1> QED
    BY <1>3, <1>4 DEF OInv

\* A request is answered.
LEMMA AnswerInv ==
    ASSUME OInv, NEW c \in Callers, Answer(c), RowsKept, StampInv',
           RepliesCloseOffers', order' \in Prices \cup {NoAmount},
           UNCHANGED <<asking, onMarket, subscribed>>
    PROVE  OInv'
  <1>1. /\ oreq' \in [Callers -> OfferRequest]
        /\ oreq'[c].at = "idle"
        /\ \A d \in Callers \ {c} : oreq'[d] = oreq[d]
    BY AnswerFacts DEF OInv
  <1>2. OTypeOK'
    BY <1>1 DEF OInv, OTypeOK, RowsKept
  <1>3. AboutInv'
    BY <1>1 DEF OInv, AboutInv, RowsKept
  <1> QED
    BY <1>2, <1>3 DEF OInv

\* The rows stay as many.
LEMMA InPlaceInv ==
    ASSUME OInv, RowsKept, Len(offers') = NumOffers
    PROVE  RepliesCloseOffers'
  <1>1. Ids' = Ids
    BY IdsAre DEF OInv, OTypeOK, RowsKept, Ids, NumOffers
  <1>2. \A i \in Ids : 1..(i - 1) \subseteq Ids
    BY IdsAre DEF OInv, OTypeOK
  <1> QED
    BY <1>1, <1>2 DEF OInv, RepliesCloseOffers, RowsKept

\* One row gets a status and keeps its stamp.
LEMMA StatusInv ==
    ASSUME OInv, NEW i \in Ids, NEW reply \in OfferStatus \ {"PENDING"},
           offers' = SetOffer(i, reply)
    PROVE  RowsKept /\ StampInv' /\ RepliesCloseOffers'
  <1>1. offers \in Seq(PriceOffer)
    BY DEF OInv, OTypeOK
  <1>2. /\ offers' \in Seq(PriceOffer) /\ Len(offers') = NumOffers
        /\ offers'[i].status = reply /\ offers'[i].parent = offers[i].parent
        /\ offers'[i].proposedBy = offers[i].proposedBy
        /\ offers'[i].stamp = offers[i].stamp
        /\ \A j \in Ids \ {i} : offers'[j] = offers[j]
    BY <1>1, StatusFacts
  <1>3. Ids' = Ids
    BY <1>1, <1>2, IdsAre DEF Ids, NumOffers
  <1>4. RowsKept
    BY <1>2, <1>3 DEF RowsKept
  <1>5. \A j \in Ids : offers'[j].stamp = offers[j].stamp
    BY <1>2
  <1>6. StampInv'
    BY <1>3, <1>5 DEF OInv, StampInv
  <1> QED
    BY <1>2, <1>4, <1>6, InPlaceInv

LEMMA LongerFacts ==
    ASSUME offers \in Seq(PriceOffer), NEW rows \in Seq(PriceOffer), Len(rows) = NumOffers,
           NEW price \in Prices, NEW side \in Sides, NEW parent \in Nat,
           offers' = Append(rows, NewOffer(price, side, parent))
    PROVE  /\ offers' \in Seq(PriceOffer) /\ Ids' = 1..(NumOffers + 1)
           /\ \A j \in Ids : offers'[j] = rows[j]
           /\ offers'[NumOffers + 1].status = "PENDING"
           /\ offers'[NumOffers + 1].parent = parent
           /\ offers'[NumOffers + 1].proposedBy = side
           /\ offers'[NumOffers + 1].stamp = 0
  <1> DEFINE r == NewOffer(price, side, parent)
  <1>1. /\ r \in PriceOffer /\ r.status = "PENDING"
        /\ r.proposedBy = side /\ r.parent = parent /\ r.stamp = 0
    BY NewOfferFacts
  <1>2. offers' = Append(rows, r)
    OBVIOUS
  <1> HIDE DEF r
  <1>3. /\ Append(rows, r) \in Seq(PriceOffer)
        /\ DOMAIN Append(rows, r) = 1..(NumOffers + 1)
        /\ Append(rows, r)[NumOffers + 1] = r
        /\ \A j \in Ids : Append(rows, r)[j] = rows[j]
    BY <1>1, AppendFacts
  <1> QED
    BY <1>1, <1>2, <1>3 DEF Ids

\* A row comes after rows that keep their stamps.
LEMMA LongerInv ==
    ASSUME OInv, NEW rows \in Seq(PriceOffer), Len(rows) = NumOffers,
           NEW price \in Prices, NEW side \in Sides, NEW parent \in Nat,
           offers' = Append(rows, NewOffer(price, side, parent)),
           \A i \in Ids : /\ rows[i].parent = offers[i].parent
                          /\ rows[i].proposedBy = offers[i].proposedBy
                          /\ rows[i].stamp = offers[i].stamp
                          /\ offers[i].status # "PENDING" => rows[i].status # "PENDING",
           parent # 0 => /\ parent \in Ids /\ rows[parent].status # "PENDING"
                         /\ rows[parent].proposedBy # side
    PROVE  RowsKept /\ StampInv' /\ RepliesCloseOffers'
  <1>1. offers \in Seq(PriceOffer)
    BY DEF OInv, OTypeOK
  <1>2. NumOffers \in Nat /\ Ids = 1..NumOffers
    BY <1>1, IdsAre
  <1>3. /\ offers' \in Seq(PriceOffer) /\ Ids' = 1..(NumOffers + 1)
        /\ \A j \in Ids : offers'[j] = rows[j]
    BY <1>1, LongerFacts
  <1>4. RowsKept
    BY <1>2, <1>3 DEF RowsKept
  <1>5. /\ offers'[NumOffers + 1].parent = parent
        /\ offers'[NumOffers + 1].proposedBy = side
        /\ offers'[NumOffers + 1].stamp = 0
    BY <1>1, LongerFacts
  <1>6. StampInv'
    <2>1. PICK n \in Nat : /\ n = 0 \/ \E i \in Ids : offers[i].stamp = n
                           /\ \A i \in Ids : offers[i].stamp <= n
      BY DEF OInv, StampInv
    <2>2. n = 0 \/ \E i \in Ids' : offers'[i].stamp = n
      BY <1>2, <1>3, <2>1
    <2>3. \A i \in Ids' : offers'[i].stamp <= n
      BY <1>2, <1>3, <1>5, <2>1
    <2> QED
      BY <2>2, <2>3 DEF StampInv
  <1>7. RepliesCloseOffers'
    <2> SUFFICES ASSUME NEW i \in Ids', offers'[i].parent # 0
                 PROVE  /\ offers'[i].parent \in 1..(i - 1)
                        /\ offers'[offers'[i].parent].status # "PENDING"
                        /\ offers'[offers'[i].parent].proposedBy # offers'[i].proposedBy
      BY DEF RepliesCloseOffers
    <2>1. CASE i = NumOffers + 1
      BY <1>2, <1>3, <1>5, <2>1
    <2>2. CASE i # NumOffers + 1
      <3>1. i \in Ids /\ offers'[i].parent = offers[i].parent
            /\ offers'[i].proposedBy = offers[i].proposedBy
        BY <1>2, <1>3, <2>2
      <3>2. /\ offers[i].parent \in 1..(i - 1) /\ offers[i].parent \in Ids
            /\ offers[offers[i].parent].status # "PENDING"
            /\ offers[offers[i].parent].proposedBy # offers[i].proposedBy
        BY <1>2, <3>1 DEF OInv, RepliesCloseOffers
      <3> QED
        BY <1>3, <3>1, <3>2
    <2> QED
      BY <2>1, <2>2
  <1> QED
    BY <1>4, <1>6, <1>7

-----------------------------------------------------------------------------
LEMMA MakeInv ==
    ASSUME OInv, NEW c \in Callers, MakeOfferCommit(c)
    PROVE  OInv'
  <1>1. /\ oreq[c].at = "makeWithdrawn" /\ Answer(c)
        /\ offers' = Append(ClearedRows(oreq[c].cleared),
                            NewOffer(oreq[c].amount, "BUYER", 0))
        /\ UNCHANGED <<asking, onMarket, subscribed, order>>
    BY DEF MakeOfferCommit, Calling, ClearedRows
  <1>2. oreq[c].amount \in Prices /\ "BUYER" \in Sides /\ offers \in Seq(PriceOffer)
    BY <1>1 DEF OInv, OTypeOK, AboutInv, Sides
  <1> DEFINE rows == ClearedRows(oreq[c].cleared)
  <1>3. /\ rows \in Seq(PriceOffer) /\ Len(rows) = NumOffers
        /\ \A i \in Ids : /\ rows[i].parent = offers[i].parent
                          /\ rows[i].proposedBy = offers[i].proposedBy
                          /\ rows[i].stamp = offers[i].stamp
                          /\ offers[i].status # "PENDING" => rows[i].status # "PENDING"
    BY <1>2, ClearedFacts
  <1>4. offers' = Append(rows, NewOffer(oreq[c].amount, "BUYER", 0))
    BY <1>1
  <1> HIDE DEF rows
  <1>5. RowsKept /\ StampInv' /\ RepliesCloseOffers'
    BY <1>2, <1>3, <1>4, LongerInv
  <1> QED
    BY <1>1, <1>5, AnswerInv DEF OInv, OTypeOK

LEMMA AcceptInv ==
    ASSUME OInv, NEW c \in Callers, AcceptWrite(c)
    PROVE  /\ OInv'
           /\ oreq[c].offer \in Ids /\ Ids' = Ids
           /\ offers'[oreq[c].offer].status = "ACCEPTED"
           /\ \A j \in Ids \ {oreq[c].offer} : offers'[j] = offers[j]
  <1> DEFINE i == oreq[c].offer
             r == [offers[i] EXCEPT !.status = "ACCEPTED", !.stamp = LastStamp + 1]
  <1>1. /\ oreq[c].at = "accept" /\ Answer(c)
        /\ offers' = [offers EXCEPT ![i].status = "ACCEPTED", ![i].stamp = LastStamp + 1]
        /\ UNCHANGED <<asking, onMarket, subscribed, order>>
    BY DEF AcceptWrite, Calling
  <1>2. i \in Ids /\ offers \in Seq(PriceOffer) /\ StampInv
    BY <1>1 DEF OInv, OTypeOK, AboutInv
  <1>3. LastStamp \in Nat /\ \A j \in Ids : offers[j].stamp <= LastStamp
    BY <1>2, LastStampFacts
  <1>4. /\ r \in PriceOffer /\ r.status = "ACCEPTED" /\ r.stamp = LastStamp + 1
        /\ r.parent = offers[i].parent /\ r.proposedBy = offers[i].proposedBy
    <2>1. offers[i] \in PriceOffer /\ LastStamp + 1 \in Nat
      BY <1>2, <1>3, IdsAre
    <2> QED
      BY <2>1 DEF PriceOffer, OfferStatus
  <1>5. offers' = [offers EXCEPT ![i] = r]
    BY <1>1
  <1> HIDE DEF r, i
  <1>6. /\ offers' \in Seq(PriceOffer) /\ Len(offers') = NumOffers /\ offers'[i] = r
        /\ \A j \in Ids \ {i} : offers'[j] = offers[j]
    BY <1>2, <1>4, <1>5, RowFacts
  <1>7. Ids' = Ids
    BY <1>2, <1>6, IdsAre DEF Ids, NumOffers
  <1>8. RowsKept
    BY <1>4, <1>6, <1>7 DEF RowsKept
  <1>9. StampInv'
    <2>1. /\ LastStamp + 1 \in Nat /\ offers'[i].stamp = LastStamp + 1
          /\ \A j \in Ids : offers'[j].stamp <= LastStamp + 1
      <3>1. \A j \in Ids : offers[j].stamp \in Nat
        BY <1>2, IdsAre DEF PriceOffer
      <3> QED
        BY <1>3, <1>4, <1>6, <3>1
    <2> QED
      BY <1>2, <1>7, <2>1 DEF StampInv
  <1>10. OInv'
    BY <1>1, <1>6, <1>8, <1>9, InPlaceInv, AnswerInv DEF OInv, OTypeOK
  <1> QED
    BY <1>2, <1>4, <1>6, <1>7, <1>10 DEF i

LEMMA AnswerOfferInv ==
    ASSUME OInv, NEW c \in Callers, NEW stage \in {"decline", "withdraw"},
           NEW reply \in {"DECLINED", "WITHDRAWN"}, AnswerOffer(c, stage, reply)
    PROVE  OInv'
  <1>1. /\ oreq[c].at = stage /\ Answer(c) /\ offers' = SetOffer(oreq[c].offer, reply)
        /\ UNCHANGED <<asking, onMarket, subscribed, order>>
    BY DEF AnswerOffer, Calling
  <1>2. oreq[c].offer \in Ids /\ reply \in OfferStatus \ {"PENDING"}
    BY <1>1 DEF OInv, AboutInv, OfferStatus
  <1> QED
    BY <1>1, <1>2, StatusInv, AnswerInv DEF OInv, OTypeOK

LEMMA CounterInv ==
    ASSUME OInv, NEW c \in Callers, CounterWrite(c)
    PROVE  OInv'
  <1> DEFINE i == oreq[c].offer
             rows == SetOffer(i, "COUNTERED")
             side == OtherSide(offers[i].proposedBy)
  <1>1. /\ oreq[c].at = "counter" /\ Answer(c)
        /\ offers' = Append(rows, NewOffer(oreq[c].amount, side, i))
        /\ UNCHANGED <<asking, onMarket, subscribed, order>>
    BY DEF CounterWrite, Calling
  <1>2. /\ i \in Ids /\ i \in Nat /\ offers \in Seq(PriceOffer)
        /\ oreq[c].amount \in Prices /\ "COUNTERED" \in OfferStatus
    BY <1>1, IdsAre DEF OInv, OTypeOK, AboutInv, OfferStatus
  <1>3. /\ rows \in Seq(PriceOffer) /\ Len(rows) = NumOffers
        /\ rows[i].status = "COUNTERED"
        /\ \A j \in Ids : /\ rows[j].parent = offers[j].parent
                          /\ rows[j].proposedBy = offers[j].proposedBy
                          /\ rows[j].stamp = offers[j].stamp
                          /\ offers[j].status # "PENDING" => rows[j].status # "PENDING"
    <2>1. /\ rows \in Seq(PriceOffer) /\ Len(rows) = NumOffers
          /\ rows[i].status = "COUNTERED"
          /\ rows[i].parent = offers[i].parent
          /\ rows[i].proposedBy = offers[i].proposedBy
          /\ rows[i].stamp = offers[i].stamp
          /\ \A j \in Ids \ {i} : rows[j] = offers[j]
      <3> HIDE DEF i
      <3> QED
        BY <1>2, StatusFacts
    <2> HIDE DEF rows, i
    <2> QED
      BY <2>1
  <1>4. side \in Sides /\ rows[i].proposedBy # side
    <2>1. offers[i].proposedBy \in Sides
      BY <1>2, IdsAre DEF PriceOffer
    <2> QED
      BY <1>2, <1>3, <2>1 DEF OtherSide, Sides
  <1> HIDE DEF rows, side, i
  <1>5. RowsKept /\ StampInv' /\ RepliesCloseOffers'
    BY <1>1, <1>2, <1>3, <1>4, LongerInv
  <1> QED
    BY <1>1, <1>5, AnswerInv DEF OInv, OTypeOK

\* What checkout reads.
LEMMA PayableFacts ==
    ASSUME OInv
    PROVE  /\ PayablePrice \in Prices
           /\ Accepted # {} => (CHOOSE i \in LatestAccepted : TRUE) \in Accepted
  <1>1. offers \in Seq(PriceOffer) /\ asking \in Prices /\ StampInv
    BY DEF OInv, OTypeOK
  <1>2. CASE Accepted = {}
    BY <1>1, <1>2 DEF PayablePrice
  <1>3. CASE Accepted # {}
    <2> DEFINE i == CHOOSE i \in LatestAccepted : TRUE
    <2>1. i \in LatestAccepted
      BY <1>1, <1>3, LatestExists
    <2>2. PayablePrice = offers[i].amount
      BY <1>3 DEF PayablePrice
    <2> HIDE DEF i
    <2>3. i \in Accepted /\ i \in Ids
      BY <2>1 DEF LatestAccepted, Accepted
    <2>4. offers[i].amount \in Prices
      BY <1>1, <2>3, IdsAre DEF PriceOffer
    <2> QED
      BY <2>2, <2>3, <2>4 DEF i
  <1> QED
    BY <1>2, <1>3

LEMMA CheckoutInv ==
    ASSUME OInv, NEW c \in Callers, CheckoutCommit(c)
    PROVE  OInv'
  <1>1. /\ oreq[c].at = "offerRead" /\ Answer(c) /\ order' = oreq[c].amount
        /\ offers' = IF oreq[c].offer = 0 THEN offers ELSE SetOffer(oreq[c].offer, "USED")
        /\ UNCHANGED <<asking, onMarket, subscribed>>
    BY DEF CheckoutCommit, Calling
  <1>2. /\ oreq[c].offer \in Ids \cup {0} /\ oreq[c].amount \in Prices
        /\ "USED" \in OfferStatus \ {"PENDING"}
    BY <1>1 DEF OInv, AboutInv, OfferStatus
  <1>3. RowsKept /\ StampInv' /\ RepliesCloseOffers'
    <2>1. CASE oreq[c].offer = 0
      BY <1>1, <2>1 DEF RowsKept, OInv, OTypeOK, StampInv, RepliesCloseOffers, Ids
    <2>2. CASE oreq[c].offer # 0
      BY <1>1, <1>2, <2>2, StatusInv
    <2> QED
      BY <2>1, <2>2
  <1> QED
    BY <1>1, <1>2, <1>3, AnswerInv

\* The reads of an offer.
LEMMA ReadInv ==
    ASSUME OfferConstants, OInv, NEW c \in Callers,
           \/ \E price \in Prices : MakeOfferRead(c, price)
           \/ \E i \in Ids :
                 \/ AcceptRead(c, i) \/ DeclineRead(c, i) \/ WithdrawRead(c, i)
                 \/ \E price \in Prices : CounterRead(c, i, price)
           \/ CheckoutRead(c)
    PROVE  OInv'
  <1>1. Ids \subseteq Nat /\ 0 \in Nat
    BY IdsAre DEF OInv, OTypeOK
  <1>2. {"makeOffer", "accept", "decline", "withdraw", "counter", "offerRead"}
            \subseteq OfferStages
    BY DEF OfferStages
  <1>3. ASSUME NEW price \in Prices, MakeOfferRead(c, price) PROVE OInv'
    BY <1>1, <1>2, <1>3, CallInv DEF MakeOfferRead
  <1>4. ASSUME NEW i \in Ids, NEW stage \in {"accept", "decline", "withdraw"},
               Call(c, stage, i, NoAmount)
        PROVE  OInv'
    BY <1>1, <1>2, <1>4, CallInv
  <1>5. ASSUME NEW i \in Ids, NEW price \in Prices, CounterRead(c, i, price) PROVE OInv'
    BY <1>1, <1>2, <1>5, CallInv DEF CounterRead
  <1>6. CASE CheckoutRead(c)
    <2> DEFINE i == IF Accepted = {} THEN 0 ELSE CHOOSE i \in LatestAccepted : TRUE
    <2>1. Call(c, "offerRead", i, PayablePrice)
      BY <1>6 DEF CheckoutRead
    <2>2. i \in Ids \cup {0} /\ i \in Nat /\ PayablePrice \in Prices
      BY <1>1, PayableFacts DEF Accepted
    <2> HIDE DEF i
    <2> QED
      BY <1>2, <2>1, <2>2, CallInv
  <1> QED
    BY <1>3, <1>4, <1>5, <1>6 DEF AcceptRead, DeclineRead, WithdrawRead

LEMMA OthersInv ==
    ASSUME OInv,
           \/ CancelOrder
           \/ \E price \in Prices : SetAsking(price)
           \/ \E b \in BOOLEAN : SetMarket(b) \/ SetPlan(b)
           \/ UNCHANGED ovars
    PROVE  OInv'
  <1>1. /\ UNCHANGED <<offers, oreq>>
        /\ asking' \in Prices /\ onMarket' \in BOOLEAN /\ subscribed' \in BOOLEAN
        /\ order' \in Prices \cup {NoAmount}
    BY DEF OInv, OTypeOK, CancelOrder, SetAsking, SetMarket, SetPlan, ovars
  <1> QED
    BY <1>1 DEF OInv, OTypeOK, StampInv, AboutInv, RepliesCloseOffers, Ids

\* What the UPDATE of makeOffer finds, and what it takes.
LEMMA WithdrawFacts ==
    ASSUME OInv, NEW c \in Callers, MakeOfferFind(c) \/ MakeOfferWithdraw(c)
    PROVE  /\ oreq' \in [Callers -> OfferRequest]
           /\ \/ /\ oreq[c].at = "makeOffer" /\ oreq'[c].at = "makeFound"
                 /\ oreq'[c].cleared = Pending
              \/ /\ oreq[c].at = "makeFound" /\ oreq'[c].at = "makeWithdrawn"
                 /\ oreq'[c].cleared = oreq[c].cleared \cap Pending
           /\ oreq'[c].amount = oreq[c].amount
           /\ \A d \in Callers \ {c} : oreq'[d] = oreq[d]
           /\ UNCHANGED <<offers, asking, onMarket, subscribed, order>>
  <1>1. Pending \subseteq Nat /\ oreq[c] \in OfferRequest
    BY IdsAre DEF Pending, OInv, OTypeOK
  <1>2. CASE MakeOfferFind(c)
    <2> DEFINE r == [oreq[c] EXCEPT !.at = "makeFound", !.cleared = Pending]
    <2>1. /\ oreq[c].at = "makeOffer" /\ oreq' = [oreq EXCEPT ![c] = r]
          /\ UNCHANGED <<offers, asking, onMarket, subscribed, order>>
      BY <1>2 DEF MakeOfferFind, Calling
    <2>2. /\ r \in OfferRequest /\ r.at = "makeFound" /\ r.cleared = Pending
          /\ r.amount = oreq[c].amount
      BY <1>1 DEF OfferRequest, OfferStages
    <2> HIDE DEF r
    <2> QED
      BY <2>1, <2>2 DEF OInv, OTypeOK
  <1>3. CASE MakeOfferWithdraw(c)
    <2> DEFINE kept == oreq[c].cleared \cap Pending
               r == [oreq[c] EXCEPT !.at = "makeWithdrawn", !.cleared = kept]
    <2>1. /\ oreq[c].at = "makeFound" /\ oreq' = [oreq EXCEPT ![c] = r]
          /\ UNCHANGED <<offers, asking, onMarket, subscribed, order>>
      BY <1>3 DEF MakeOfferWithdraw, Calling
    <2>2. /\ r \in OfferRequest /\ r.at = "makeWithdrawn" /\ r.cleared = kept
          /\ r.amount = oreq[c].amount
      BY <1>1 DEF OfferRequest, OfferStages
    <2> HIDE DEF r
    <2> QED
      BY <2>1, <2>2 DEF OInv, OTypeOK
  <1> QED
    BY <1>2, <1>3

LEMMA OInvNext == OfferConstants /\ OInv /\ [ONext]_ovars => OInv'
  <1> SUFFICES ASSUME OfferConstants, OInv, [ONext]_ovars PROVE OInv'
    OBVIOUS
  <1>1. ASSUME NEW c \in Callers, MakeOfferFind(c) \/ MakeOfferWithdraw(c) PROVE OInv'
    <2>1. /\ oreq[c].at \in {"makeOffer", "makeFound"}
          /\ oreq' \in [Callers -> OfferRequest]
          /\ oreq'[c].at \in {"makeFound", "makeWithdrawn"}
          /\ oreq'[c].amount = oreq[c].amount
          /\ \A d \in Callers \ {c} : oreq'[d] = oreq[d]
          /\ UNCHANGED <<offers, asking, onMarket, subscribed, order>>
      BY <1>1, WithdrawFacts
    <2> QED
      BY <2>1 DEF OInv, OTypeOK, StampInv, AboutInv, RepliesCloseOffers, Ids
  <1>2. ASSUME NEW c \in Callers, Drop(c) PROVE OInv'
    <2>1. Answer(c) /\ UNCHANGED <<offers, asking, onMarket, subscribed, order>>
      BY <1>2 DEF Drop
    <2>2. RowsKept /\ StampInv' /\ RepliesCloseOffers'
      BY <2>1 DEF RowsKept, OInv, OTypeOK, StampInv, RepliesCloseOffers, Ids
    <2> QED
      BY <2>1, <2>2, AnswerInv DEF OInv, OTypeOK
  <1> QED
    BY <1>1, <1>2, ReadInv, MakeInv, AcceptInv, AnswerOfferInv, CounterInv, CheckoutInv,
       OthersInv DEF ONext, DeclineWrite, WithdrawWrite

\* Types of the rows and the requests (offerController.js): a checkout finds
\* the latest accepted offer whenever there is one.
THEOREM OfferTypes ==
    ASSUME OfferConstants
    PROVE  OSpec => []OTypeOK
  <1>1. OInv => OTypeOK
    BY DEF OInv
  <1> QED
    BY <1>1, OInvInit, OInvNext, PTL DEF OSpec

\* Whatever races with a counter, the offer it answers is closed for good and
\* was the other side's (counterOffer of offerController.js).
THEOREM RepliesClose ==
    ASSUME OfferConstants
    PROVE  OSpec => []RepliesCloseOffers
  <1>1. OInv => RepliesCloseOffers
    BY DEF OInv
  <1> QED
    BY <1>1, OInvInit, OInvNext, PTL DEF OSpec

-----------------------------------------------------------------------------
(* One request at a time.                                                  *)

OneRequest == \A c, d \in Callers : ~Free(c) /\ ~Free(d) => c = d

\* What a request has read is still so.
FreshInv ==
    \A c \in Callers :
        /\ oreq[c].at \in {"accept", "decline", "counter", "withdraw"} =>
               oreq[c].offer \in Pending
        /\ oreq[c].at \in {"makeFound", "makeWithdrawn"} => oreq[c].cleared = Pending
        /\ oreq[c].at = "offerRead" => oreq[c].offer \in Accepted \cup {0}

SerialInv == OInv /\ FreshInv /\ OneLiveOffer

LEMMA SerialInit == OfferConstants /\ OInit => SerialInv
  <1> SUFFICES ASSUME OfferConstants, OInit PROVE SerialInv
    OBVIOUS
  <1>1. Pending = {} /\ \A c \in Callers : oreq[c].at = "idle"
    BY NoCallType DEF OInit, Ids, Pending
  <1> QED
    BY <1>1, OInvInit DEF SerialInv, FreshInv, OneLiveOffer

\* A write leaves no request in flight.
LEMMA SerialWrite ==
    ASSUME SerialInv, OneRequest, NEW c \in Callers, ~Free(c), Answer(c), OInv',
           OneLiveOffer'
    PROVE  SerialInv'
  <1>1. \A d \in Callers : oreq'[d].at = "idle"
    BY AnswerFacts DEF SerialInv, OInv, OneRequest, Free
  <1> QED
    BY <1>1 DEF SerialInv, FreshInv

\* An open row is answered, or an accepted one used.
LEMMA AnsweredFacts ==
    ASSUME SerialInv, NEW i \in Ids, Ids' = Ids,
           \A j \in Ids \ {i} : offers'[j].status = offers[j].status,
           \/ i \in Pending /\ offers'[i].status # "PENDING"
           \/ i \in Accepted /\ offers'[i].status = "USED"
    PROVE  OneLiveOffer' /\ AnswerStays
  <1>1. Pending' \subseteq Pending
    BY DEF Pending, Accepted
  <1>2. OneLiveOffer'
    BY <1>1 DEF SerialInv, OneLiveOffer
  <1>3. AnswerStays
    BY DEF AnswerStays, Pending, Accepted
  <1> QED
    BY <1>2, <1>3

LEMMA SameOffers ==
    ASSUME SerialInv, UNCHANGED offers
    PROVE  OneLiveOffer' /\ AnswerStays
  BY DEF SerialInv, OneLiveOffer, Pending, Ids, AnswerStays

\* A row is added, and no other is open.
LEMMA AddedFacts ==
    ASSUME SerialInv, Ids' = 1..(NumOffers + 1),
           \A j \in Ids : /\ offers'[j].status # "PENDING"
                          /\ j \notin Pending => offers'[j].status = offers[j].status
    PROVE  OneLiveOffer' /\ AnswerStays
  <1>1. NumOffers \in Nat /\ Ids = 1..NumOffers
    BY IdsAre DEF SerialInv, OInv, OTypeOK
  <1>2. \A i \in Pending' : i = NumOffers + 1
    BY <1>1 DEF Pending
  <1>3. OneLiveOffer'
    BY <1>2 DEF OneLiveOffer
  <1>4. AnswerStays
    BY DEF AnswerStays, Pending
  <1> QED
    BY <1>3, <1>4

\* The writes.
LEMMA SerialMake ==
    ASSUME SerialInv, NEW c \in Callers, MakeOfferCommit(c)
    PROVE  OneLiveOffer' /\ AnswerStays
  <1> DEFINE rows == ClearedRows(oreq[c].cleared)
  <1>1. /\ oreq[c].at = "makeWithdrawn"
        /\ offers' = Append(rows, NewOffer(oreq[c].amount, "BUYER", 0))
    BY DEF MakeOfferCommit, Calling, ClearedRows
  <1>2. /\ oreq[c].amount \in Prices /\ "BUYER" \in Sides /\ offers \in Seq(PriceOffer)
        /\ oreq[c].cleared = Pending
    BY <1>1 DEF SerialInv, OInv, OTypeOK, AboutInv, FreshInv, Sides
  <1>3. /\ rows \in Seq(PriceOffer) /\ Len(rows) = NumOffers
        /\ \A j \in Ids : rows[j].status = IF j \in Pending THEN "WITHDRAWN"
                                                            ELSE offers[j].status
    BY <1>2, ClearedFacts
  <1> HIDE DEF rows
  <1>4. Ids' = 1..(NumOffers + 1) /\ \A j \in Ids : offers'[j] = rows[j]
    BY <1>1, <1>2, <1>3, LongerFacts
  <1>5. \A j \in Ids : /\ offers'[j].status # "PENDING"
                       /\ j \notin Pending => offers'[j].status = offers[j].status
    BY <1>3, <1>4 DEF Pending
  <1> QED
    BY <1>4, <1>5, AddedFacts

LEMMA SerialCounter ==
    ASSUME SerialInv, NEW c \in Callers, CounterWrite(c)
    PROVE  OneLiveOffer' /\ AnswerStays
  <1> DEFINE i == oreq[c].offer
             rows == SetOffer(i, "COUNTERED")
             side == OtherSide(offers[i].proposedBy)
  <1>1. /\ oreq[c].at = "counter"
        /\ offers' = Append(rows, NewOffer(oreq[c].amount, side, i))
    BY DEF CounterWrite, Calling
  <1>2. /\ i \in Pending /\ i \in Ids /\ i \in Nat /\ offers \in Seq(PriceOffer)
        /\ oreq[c].amount \in Prices /\ side \in Sides /\ "COUNTERED" \in OfferStatus
    BY <1>1, IdsAre DEF SerialInv, OInv, OTypeOK, AboutInv, FreshInv, OfferStatus,
                        OtherSide, Sides
  <1>3. /\ rows \in Seq(PriceOffer) /\ Len(rows) = NumOffers
        /\ rows[i].status = "COUNTERED" /\ \A j \in Ids \ {i} : rows[j] = offers[j]
    <2> HIDE DEF i
    <2> QED
      BY <1>2, StatusFacts
  <1> HIDE DEF i, rows, side
  <1>4. Ids' = 1..(NumOffers + 1) /\ \A j \in Ids : offers'[j] = rows[j]
    BY <1>1, <1>2, <1>3, LongerFacts
  <1>5. \A j \in Ids \ {i} : j \notin Pending
    BY <1>2 DEF SerialInv, OneLiveOffer
  <1>6. \A j \in Ids : /\ offers'[j].status # "PENDING"
                       /\ j \notin Pending => offers'[j].status = offers[j].status
    BY <1>2, <1>3, <1>4, <1>5 DEF Pending
  <1> QED
    BY <1>4, <1>6, AddedFacts

LEMMA SerialAnswer ==
    ASSUME SerialInv, NEW i \in Ids, NEW reply \in OfferStatus \ {"PENDING"},
           offers' = SetOffer(i, reply),
           i \in Pending \/ (i \in Accepted /\ reply = "USED")
    PROVE  OneLiveOffer' /\ AnswerStays
  <1>1. offers \in Seq(PriceOffer)
    BY DEF SerialInv, OInv, OTypeOK
  <1>2. /\ offers' \in Seq(PriceOffer) /\ Len(offers') = NumOffers
        /\ offers'[i].status = reply
        /\ \A j \in Ids \ {i} : offers'[j] = offers[j]
    BY <1>1, StatusFacts
  <1>3. Ids' = Ids
    BY <1>1, <1>2, IdsAre DEF Ids, NumOffers
  <1> QED
    BY <1>2, <1>3, AnsweredFacts

\* Every step: what is open and what is answered.
LEMMA SerialStays ==
    ASSUME OfferConstants, SerialInv, [ONext]_ovars
    PROVE  OneLiveOffer' /\ AnswerStays
  <1>1. OInv
    BY DEF SerialInv
  <1>2. ASSUME NEW c \in Callers, AcceptWrite(c) PROVE OneLiveOffer' /\ AnswerStays
    <2>1. oreq[c].offer \in Pending
      BY <1>2 DEF SerialInv, FreshInv, AcceptWrite, Calling
    <2>2. /\ oreq[c].offer \in Ids /\ Ids' = Ids
          /\ offers'[oreq[c].offer].status = "ACCEPTED"
          /\ \A j \in Ids \ {oreq[c].offer} : offers'[j] = offers[j]
      BY <1>1, <1>2, AcceptInv
    <2> QED
      BY <2>1, <2>2, AnsweredFacts
  <1>3. ASSUME NEW c \in Callers, DeclineWrite(c) \/ WithdrawWrite(c)
        PROVE  OneLiveOffer' /\ AnswerStays
    <2>1. /\ oreq[c].at \in {"decline", "withdraw"}
          /\ \/ offers' = SetOffer(oreq[c].offer, "DECLINED")
             \/ offers' = SetOffer(oreq[c].offer, "WITHDRAWN")
      BY <1>3 DEF DeclineWrite, WithdrawWrite, AnswerOffer, Calling
    <2>2. oreq[c].offer \in Pending /\ oreq[c].offer \in Ids
      BY <2>1 DEF SerialInv, FreshInv, Pending
    <2> QED
      BY <2>1, <2>2, SerialAnswer DEF OfferStatus
  <1>4. ASSUME NEW c \in Callers, CheckoutCommit(c) PROVE OneLiveOffer' /\ AnswerStays
    <2>1. /\ oreq[c].at = "offerRead"
          /\ offers' = IF oreq[c].offer = 0 THEN offers ELSE SetOffer(oreq[c].offer, "USED")
      BY <1>4 DEF CheckoutCommit, Calling
    <2>2. oreq[c].offer \in Accepted \cup {0} /\ (oreq[c].offer \in Accepted => oreq[c].offer \in Ids)
      BY <2>1 DEF SerialInv, FreshInv, Accepted
    <2> QED
      BY <2>1, <2>2, SerialAnswer, SameOffers DEF OfferStatus
  <1>5. ASSUME NEW c \in Callers, NEW stage, NEW i, NEW price,
               \/ Call(c, stage, i, price)
               \/ MakeOfferFind(c) \/ MakeOfferWithdraw(c) \/ Drop(c)
        PROVE  OneLiveOffer' /\ AnswerStays
    BY <1>5, SameOffers DEF Call, MakeOfferFind, MakeOfferWithdraw, Drop
  <1>6. ASSUME NEW c \in Callers,
               \/ \E price \in Prices : MakeOfferRead(c, price)
               \/ \E i \in Ids :
                     \/ AcceptRead(c, i) \/ DeclineRead(c, i) \/ WithdrawRead(c, i)
                     \/ \E price \in Prices : CounterRead(c, i, price)
               \/ CheckoutRead(c)
        PROVE  OneLiveOffer' /\ AnswerStays
    BY <1>5, <1>6 DEF MakeOfferRead, AcceptRead, DeclineRead, WithdrawRead, CounterRead,
                      CheckoutRead
  <1>7. CASE \/ CancelOrder
             \/ \E price \in Prices : SetAsking(price)
             \/ \E b \in BOOLEAN : SetMarket(b) \/ SetPlan(b)
             \/ UNCHANGED ovars
    BY <1>7, SameOffers DEF CancelOrder, SetAsking, SetMarket, SetPlan, ovars
  <1> QED
    BY <1>2, <1>3, <1>4, <1>5, <1>6, <1>7, SerialMake, SerialCounter DEF ONext

LEMMA SerialStep ==
    ASSUME OfferConstants, SerialInv, OneRequest, OneRequest', [ONext]_ovars
    PROVE  SerialInv'
  <1>1. OInv /\ OTypeOK /\ OInv' /\ OneLiveOffer'
    BY OInvNext, SerialStays DEF SerialInv, OInv
  <1>2. Ids \subseteq Nat /\ Pending \subseteq Ids /\ 0 \notin Ids
    BY <1>1, IdsAre DEF Pending, OTypeOK
  <1>3. ASSUME NEW c \in Callers, NEW stage \in OfferStages, NEW i \in Nat,
               NEW price \in Prices \cup {NoAmount}, Call(c, stage, i, price),
               stage \notin {"makeFound", "makeWithdrawn"},
               stage \in {"accept", "decline", "counter", "withdraw"} => i \in Pending,
               stage = "offerRead" => i \in Accepted \cup {0}
        PROVE  SerialInv'
    <2>1. /\ oreq'[c].at = stage /\ oreq'[c].offer = i
          /\ \A d \in Callers \ {c} : oreq'[d] = oreq[d]
          /\ UNCHANGED offers
      BY <1>1, <1>3, CallFacts DEF Call
    <2>2. FreshInv'
      BY <1>3, <2>1 DEF SerialInv, FreshInv, Pending, Accepted, Ids
    <2> QED
      BY <1>1, <2>2 DEF SerialInv
  <1>4. ASSUME NEW c \in Callers, NEW price \in Prices, MakeOfferRead(c, price)
        PROVE  SerialInv'
    BY <1>3, <1>4 DEF MakeOfferRead, OfferStages
  <1>5. ASSUME NEW c \in Callers, NEW i \in Ids,
               \/ AcceptRead(c, i) \/ DeclineRead(c, i) \/ WithdrawRead(c, i)
               \/ \E price \in Prices : CounterRead(c, i, price)
        PROVE  SerialInv'
    BY <1>2, <1>3, <1>5 DEF AcceptRead, DeclineRead, WithdrawRead, CounterRead, OfferStages
  <1>6. ASSUME NEW c \in Callers, CheckoutRead(c) PROVE SerialInv'
    <2> DEFINE i == IF Accepted = {} THEN 0 ELSE CHOOSE i \in LatestAccepted : TRUE
    <2>1. Call(c, "offerRead", i, PayablePrice)
      BY <1>6 DEF CheckoutRead
    <2>2. i \in Accepted \cup {0} /\ i \in Nat /\ PayablePrice \in Prices
      BY <1>1, <1>2, PayableFacts DEF Accepted
    <2> HIDE DEF i
    <2> QED
      BY <1>3, <2>1, <2>2 DEF OfferStages
  <1>7. ASSUME NEW c \in Callers, MakeOfferFind(c) \/ MakeOfferWithdraw(c) PROVE SerialInv'
    <2>1. /\ oreq'[c].at \in {"makeFound", "makeWithdrawn"} /\ oreq'[c].cleared = Pending
          /\ \A d \in Callers \ {c} : oreq'[d] = oreq[d]
          /\ UNCHANGED offers
      BY <1>1, <1>7, WithdrawFacts DEF SerialInv, FreshInv
    <2>2. FreshInv'
      BY <2>1 DEF SerialInv, FreshInv, Pending, Accepted, Ids
    <2> QED
      BY <1>1, <2>2 DEF SerialInv
  <1>8. ASSUME NEW c \in Callers,
               \/ MakeOfferCommit(c) \/ AcceptWrite(c) \/ DeclineWrite(c)
               \/ WithdrawWrite(c) \/ CounterWrite(c) \/ CheckoutCommit(c) \/ Drop(c)
        PROVE  SerialInv'
    <2>1. Answer(c) /\ ~Free(c)
      BY <1>8 DEF MakeOfferCommit, AcceptWrite, DeclineWrite, WithdrawWrite, AnswerOffer,
                  CounterWrite, CheckoutCommit, Drop, Calling, Free
    <2> QED
      BY <1>1, <2>1, SerialWrite
  <1>9. CASE \/ CancelOrder
             \/ \E price \in Prices : SetAsking(price)
             \/ \E b \in BOOLEAN : SetMarket(b) \/ SetPlan(b)
             \/ UNCHANGED ovars
    <2>1. UNCHANGED <<offers, oreq>>
      BY <1>9 DEF CancelOrder, SetAsking, SetMarket, SetPlan, ovars
    <2> QED
      BY <1>1, <2>1 DEF SerialInv, FreshInv, Pending, Accepted, Ids
  <1> QED
    BY <1>4, <1>5, <1>6, <1>7, <1>8, <1>9 DEF ONext

\* While requests are served one at a time, at most one offer of a
\* negotiation is open (makeOffer withdraws the pending ones, a counter closes
\* the one it answers).
THEOREM OneOpen ==
    ASSUME OfferConstants
    PROVE  OSpec /\ []OneRequest => []OneLiveOffer
  <1>1. SerialInv => OneLiveOffer
    BY DEF SerialInv
  <1>2. SerialInv /\ OneRequest /\ OneRequest' /\ [ONext]_ovars => SerialInv'
    BY SerialStep
  <1>3. OInit => SerialInv
    BY SerialInit
  <1> QED
    BY <1>1, <1>2, <1>3, PTL DEF OSpec

\* While requests are served one at a time, an answered offer keeps its answer,
\* but for an accepted one that checkout uses (respondToOffer, withdrawOffer,
\* initiatePurchase).
THEOREM AnsweredForGood ==
    ASSUME OfferConstants
    PROVE  OSpec /\ []OneRequest => AnsweredOnce
  <1>1. SerialInv /\ [ONext]_ovars => [AnswerStays]_ovars
    BY SerialStays
  <1>2. SerialInv /\ OneRequest /\ OneRequest' /\ [ONext]_ovars => SerialInv'
    BY SerialStep
  <1>3. OInit => SerialInv
    BY SerialInit
  <1> QED
    BY <1>1, <1>2, <1>3, PTL DEF OSpec, AnsweredOnce

-----------------------------------------------------------------------------
(* The listing cache: the shape of the state.                              *)

Card  == [car : Cars, status : {"AVAILABLE", "HIDDEN"}]
Steps == {"get", "rows", "hydrate", "set", "done"}

ReadRow ==
    [query : Queries, step : Steps, key : Nat, since : Nat,
     rows : SUBSET Cars, shown : SUBSET Card, asOf : Nat]
EntryRow == [key : Nat, query : Queries, shown : SUBSET Card, asOf : Nat]
WriteRow == [number : Nat \ {0}, writer : {"listing", "purchase"}]

\* Every version that was counted up belongs to a write that has been
\* committed.
WriteShape ==
    /\ status \in [Cars -> {"AVAILABLE", "HIDDEN"}]
    /\ up \in BOOLEAN
    /\ commits \in Nat /\ commits <= MaxWrites
    /\ told \in Nat /\ told <= commits
    /\ version \in Nat /\ boots \in Nat
    /\ pending \subseteq WriteRow
    /\ IsFiniteSet(pending)
    /\ \A p \in pending : p.number <= commits
    /\ version + Cardinality(pending) <= commits

\* Every answer that is under way or stored is of some commit.
ReadShape ==
    /\ reads \in Seq(ReadRow)
    /\ \A r \in ReadIds : reads[r].asOf <= commits /\ reads[r].since <= told
    /\ store \subseteq EntryRow
    /\ \A e \in store : e.asOf <= commits

Shape == WriteShape /\ ReadShape

-----------------------------------------------------------------------------
LEMMA ShapeInit == ASSUME ListingCacheConstants PROVE CacheInit => Shape
  BY FS_EmptySet
  DEF CacheInit, Shape, WriteShape, ReadShape, ReadIds, ListingCacheConstants

LEMMA ReadTyped == ASSUME ReadShape PROVE \A r \in ReadIds : reads[r] \in ReadRow
  BY DEF ReadShape, ReadIds

\* What is read and stored stays of some commit while commits are made.
LEMMA KeptReads ==
    ASSUME WriteShape, ReadShape, UNCHANGED <<reads, store>>,
           commits' \in Nat, told' \in Nat, commits <= commits', told <= told'
    PROVE  ReadShape'
  <1>1. \A r \in ReadIds : reads[r].asOf \in Nat /\ reads[r].since \in Nat
    BY ReadTyped DEF ReadRow
  <1>2. \A e \in store : e.asOf \in Nat
    BY DEF ReadShape, EntryRow
  <1> QED
    BY <1>1, <1>2 DEF WriteShape, ReadShape, ReadIds

LEMMA CommitWriteShape ==
    ASSUME ListingCacheConstants, Shape,
           NEW c \in Cars, NEW st \in {"AVAILABLE", "HIDDEN"},
           NEW w \in {"listing", "purchase"}, CommitWrite(c, st, w)
    PROVE  Shape'
  <1> DEFINE p == [number |-> commits + 1, writer |-> w]
  <1> USE DEF Shape
  <1>1. pending' = pending \cup {p} /\ p \notin pending /\ p \in WriteRow
    BY DEF CommitWrite, WriteShape, WriteRow
  <1>2. IsFiniteSet(pending') /\ Cardinality(pending') = Cardinality(pending) + 1
    BY <1>1, FS_AddElement DEF WriteShape
  <1>3. Cardinality(pending) \in Nat
    BY FS_CardinalityType DEF WriteShape
  <1>4. commits' = commits + 1 /\ UNCHANGED <<told, version, boots, up, store, reads>>
    BY DEF CommitWrite
  <1>5. \A q \in pending' : q.number <= commits'
    BY <1>1, <1>4 DEF WriteShape, WriteRow
  <1>6. WriteShape'
    BY <1>1, <1>2, <1>3, <1>4, <1>5
    DEF CommitWrite, WriteShape, ListingCacheConstants
  <1>7. ReadShape'
    BY <1>4, KeptReads DEF WriteShape
  <1> QED
    BY <1>6, <1>7

LEMMA FinishShape ==
    ASSUME Shape, NEW p \in pending,
           FinishListingWrite(p) \/ FinishPurchaseWrite(p)
    PROVE  Shape'
  <1> USE DEF Shape
  <1>1. Answered(p) /\ version' \in {version, version + 1}
    BY DEF FinishListingWrite, FinishPurchaseWrite, Answered, WriteShape
  <1>2. IsFiniteSet(pending') /\ Cardinality(pending') = Cardinality(pending) - 1
    BY <1>1, FS_RemoveElement DEF WriteShape, Answered
  <1>3. Cardinality(pending) \in Nat
    BY FS_CardinalityType DEF WriteShape
  <1>4. p.number \in Nat /\ p.number <= commits
    BY DEF WriteShape, WriteRow
  <1>5. told' \in Nat /\ told' <= commits /\ told <= told'
    BY <1>1, <1>4 DEF WriteShape, Answered
  <1>6. WriteShape'
    BY <1>1, <1>2, <1>3, <1>5 DEF WriteShape, Answered
  <1>7. ReadShape'
    BY <1>1, <1>5, KeptReads DEF WriteShape, Answered
  <1> QED
    BY <1>6, <1>7

LEMMA AskShape ==
    ASSUME Shape, NEW q \in Queries, Ask(q)
    PROVE  /\ Shape'
           /\ ReadIds' = ReadIds \cup {Len(reads) + 1}
           /\ reads'[Len(reads) + 1] = NewRead(q)
           /\ \A r \in ReadIds : reads'[r] = reads[r]
  <1> USE DEF Shape
  <1>1. NewRead(q) \in ReadRow
    BY DEF NewRead, ReadRow, WriteShape, Steps
  <1>2. reads \in Seq(ReadRow) /\ reads' = Append(reads, NewRead(q))
    BY DEF Ask, ReadShape
  <1>3. /\ reads' \in Seq(ReadRow)
        /\ ReadIds' = ReadIds \cup {Len(reads) + 1}
        /\ reads'[Len(reads) + 1] = NewRead(q)
        /\ \A r \in ReadIds : reads'[r] = reads[r]
    BY <1>1, <1>2 DEF ReadIds
  <1>4. NewRead(q).asOf = 0 /\ NewRead(q).since = told
    BY DEF NewRead
  <1>5. WriteShape'
    BY DEF Ask, WriteShape
  <1>6. UNCHANGED <<commits, told, store>>
    BY DEF Ask
  <1>7. ReadShape'
    BY <1>3, <1>4, <1>6 DEF WriteShape, ReadShape
  <1> QED
    BY <1>3, <1>5, <1>7

\* A request that goes on keeps the time it was asked at.
LEMMA BecomesShape ==
    ASSUME Shape, NEW r \in ReadIds, NEW s \in ReadRow, Becomes(r, s),
           s.since = reads[r].since, s.asOf <= commits,
           store' \subseteq EntryRow, \A e \in store' : e.asOf <= commits
    PROVE  /\ Shape'
           /\ ReadIds' = ReadIds
           /\ reads'[r] = s
           /\ \A u \in ReadIds \ {r} : reads'[u] = reads[u]
  <1> USE DEF Shape
  <1>1. /\ reads' \in Seq(ReadRow)
        /\ ReadIds' = ReadIds
        /\ reads'[r] = s
        /\ \A u \in ReadIds \ {r} : reads'[u] = reads[u]
    BY DEF Becomes, ReadShape, ReadIds
  <1>2. WriteShape' /\ UNCHANGED <<commits, told>>
    BY DEF Becomes, WriteShape
  <1>3. ReadShape'
    BY <1>1, <1>2 DEF WriteShape, ReadShape
  <1> QED
    BY <1>1, <1>2, <1>3

\* What a step of a request comes to: nothing found, the rows of now, an
\* entry, or the same answer, which may be stored.
Moves(r, s) ==
    /\ Becomes(r, s)
    /\ s.since = reads[r].since /\ s.key = reads[r].key
    /\ \/ s.step = "rows" /\ s.asOf = reads[r].asOf /\ UNCHANGED store
       \/ s.asOf = commits /\ UNCHANGED store
       \/ /\ \E e \in store : e.key = s.key /\ e.asOf = s.asOf
          /\ UNCHANGED store
       \/ /\ reads[r].step \in {"hydrate", "set"} /\ s.asOf = reads[r].asOf
          /\ store' \subseteq store \cup
                {e \in EntryRow : e.key = s.key /\ e.asOf = s.asOf}

LEMMA ReadStepMoves ==
    ASSUME Shape, NEW r \in ReadIds, ReadStep(r)
    PROVE  \E s \in ReadRow : Moves(r, s)
  <1> USE DEF Shape
  <1>1. reads[r] \in ReadRow /\ commits \in Nat
    BY ReadTyped DEF WriteShape
  <1>2. CASE GetJSON(r)
    <2>1. UNCHANGED store
      BY <1>2 DEF GetJSON
    <2>2. CASE up /\ Entries(r) # {}
      <3>1. PICK e \in Entries(r) :
              Becomes(r, [reads[r] EXCEPT !.shown = e.shown, !.asOf = e.asOf, !.step = "done"])
        BY <1>2, <2>2 DEF GetJSON
      <3>2. e \in EntryRow /\ e \in store /\ e.key = reads[r].key
        BY DEF Entries, ReadShape
      <3> DEFINE s == [reads[r] EXCEPT !.shown = e.shown, !.asOf = e.asOf, !.step = "done"]
      <3>3. /\ s \in ReadRow /\ s.since = reads[r].since /\ s.key = reads[r].key
            /\ s.asOf = e.asOf
        BY <1>1, <3>2 DEF ReadRow, EntryRow, Steps
      <3>4. Becomes(r, s)
        BY <3>1
      <3> HIDE DEF s
      <3> QED
        BY <2>1, <3>2, <3>3, <3>4 DEF Moves
    <2>3. CASE ~(up /\ Entries(r) # {})
      <3> DEFINE s == [reads[r] EXCEPT !.step = "rows"]
      <3>1. Becomes(r, s)
        BY <1>2, <2>3 DEF GetJSON
      <3>2. /\ s \in ReadRow /\ s.since = reads[r].since /\ s.key = reads[r].key
            /\ s.asOf = reads[r].asOf /\ s.step = "rows"
        BY <1>1 DEF ReadRow, Steps
      <3> HIDE DEF s
      <3> QED
        BY <2>1, <3>1, <3>2 DEF Moves
    <2> QED
      BY <2>2, <2>3
  <1>3. CASE ReadRows(r)
    <2> DEFINE found == Candidates(reads[r].query)
               plain == reads[r].query = "sorted"
               cards == IF plain THEN [car : found, status : {"AVAILABLE"}] ELSE {}
               step == IF plain THEN "set" ELSE "hydrate"
               s == [reads[r] EXCEPT !.rows = found, !.asOf = commits,
                                     !.shown = cards, !.step = step]
    <2>1. Becomes(r, s) /\ UNCHANGED store
      BY <1>3 DEF ReadRows
    <2>2. found \in SUBSET Cars
      BY DEF Candidates, OnSale
    <2>3. cards \in SUBSET Card /\ step \in Steps
      BY <2>2 DEF Card, Steps
    <2>4. /\ s \in ReadRow /\ s.since = reads[r].since /\ s.key = reads[r].key
          /\ s.asOf = commits
      <3> HIDE DEF found, cards, step
      <3> QED
        BY <1>1, <2>2, <2>3 DEF ReadRow
    <2> HIDE DEF s
    <2> QED
      BY <2>1, <2>4 DEF Moves
  <1>4. CASE HydrateVehiclesByIds(r)
    <2> DEFINE cards == {[car |-> c, status |-> status[c]] : c \in reads[r].rows}
               s == [reads[r] EXCEPT !.shown = cards, !.step = "set"]
    <2>1. Becomes(r, s) /\ UNCHANGED store /\ reads[r].step = "hydrate"
      BY <1>4 DEF HydrateVehiclesByIds, InStep
    <2>2. cards \in SUBSET Card
      BY <1>1 DEF Card, WriteShape, ReadRow
    <2>3. /\ s \in ReadRow /\ s.since = reads[r].since /\ s.key = reads[r].key
          /\ s.asOf = reads[r].asOf
      <3> HIDE DEF cards
      <3> QED
        BY <1>1, <2>2 DEF ReadRow, Steps
    <2> HIDE DEF s
    <2> QED
      BY <2>1, <2>3 DEF Moves
  <1>5. CASE SetJSON(r)
    <2> DEFINE s == [reads[r] EXCEPT !.step = "done"]
               e == Entry(r, reads[r].key)
    <2>1. Becomes(r, s) /\ reads[r].step = "set"
      BY <1>5 DEF SetJSON, InStep
    <2>2. /\ s \in ReadRow /\ s.since = reads[r].since /\ s.key = reads[r].key
          /\ s.asOf = reads[r].asOf
      BY <1>1 DEF ReadRow, Steps
    <2>3. e \in EntryRow /\ e.key = reads[r].key /\ e.asOf = reads[r].asOf
      BY <1>1 DEF Entry, EntryRow, ReadRow
    <2>4. store' \subseteq store \cup {e}
      BY <1>5 DEF SetJSON
    <2> HIDE DEF s, e
    <2> QED
      BY <2>1, <2>2, <2>3, <2>4 DEF Moves
  <1> QED
    BY <1>2, <1>3, <1>4, <1>5 DEF ReadStep

LEMMA ReadStepShape ==
    ASSUME Shape, NEW r \in ReadIds, ReadStep(r)
    PROVE  Shape'
  <1>1. PICK s \in ReadRow : Moves(r, s)
    BY ReadStepMoves
  <1>2. reads[r].asOf <= commits /\ commits \in Nat
    BY DEF Shape, WriteShape, ReadShape
  <1>3. s.asOf <= commits /\ store' \subseteq EntryRow
    BY <1>1, <1>2 DEF Moves, Shape, ReadShape
  <1>4. \A e \in store' : e.asOf <= commits
    BY <1>1, <1>3 DEF Moves, Shape, ReadShape
  <1> QED
    BY <1>1, <1>3, <1>4, BecomesShape DEF Moves

LEMMA RestartShape ==
    ASSUME Shape, RestartServer
    PROVE  Shape'
  <1> USE DEF Shape
  <1> DEFINE s(r) == [reads[r] EXCEPT !.step = "done", !.asOf = commits, !.shown = {}]
  <1>1. \A r \in ReadIds : s(r) \in ReadRow /\ s(r).asOf = commits /\ s(r).since = reads[r].since
    BY ReadTyped DEF WriteShape, ReadRow, Steps
  <1>2. reads' = [r \in ReadIds |-> s(r)] /\ UNCHANGED <<commits, told, store>>
    BY DEF RestartServer
  <1> HIDE DEF s
  <1>3. reads' \in Seq(ReadRow) /\ ReadIds' = ReadIds
    BY <1>1, <1>2 DEF ReadIds, ReadShape
  <1>4. ReadShape'
    BY <1>1, <1>2, <1>3 DEF ReadShape, WriteShape
  <1>5. WriteShape'
    <2>1. IsFiniteSet({}) /\ Cardinality({}) = 0
      BY FS_EmptySet
    <2>2. /\ UNCHANGED <<status, commits, told>> /\ boots' = boots + 1
          /\ version' = 0 /\ up' = FALSE /\ pending' = {}
      BY DEF RestartServer
    <2>3. /\ IsFiniteSet(pending') /\ Cardinality(pending') = 0
          /\ pending' \subseteq WriteRow /\ \A p \in pending' : p.number <= commits'
      BY <2>1, <2>2
    <2>4. version' \in Nat /\ boots' \in Nat /\ version' + Cardinality(pending') <= commits'
      BY <2>2, <2>3 DEF WriteShape
    <2> QED
      BY <2>2, <2>3, <2>4 DEF WriteShape
  <1> QED
    BY <1>4, <1>5

LEMMA ShapeNext ==
    ASSUME ListingCacheConstants, Shape, [CacheNext]_cacheVars
    PROVE  Shape'
  <1>1. CASE \E c \in Cars, st \in {"AVAILABLE", "HIDDEN"} :
                ListingWrite(c, st) \/ PurchaseWrite(c, st)
    BY <1>1, CommitWriteShape DEF ListingWrite, PurchaseWrite
  <1>2. CASE Finish
    BY <1>2, FinishShape DEF Finish
  <1>3. CASE \E q \in Queries : Ask(q)
    BY <1>3, AskShape
  <1>4. CASE \E r \in ReadIds : ReadStep(r)
    BY <1>4, ReadStepShape
  <1>5. CASE (\E e \in store : Expire(e)) \/ ConnectionChange \/ UNCHANGED cacheVars
    BY <1>5 DEF Expire, ConnectionChange, cacheVars,
                Shape, WriteShape, ReadShape, ReadIds
  <1>6. CASE RestartServer
    BY <1>6, RestartShape
  <1> QED
    BY <1>1, <1>2, <1>3, <1>4, <1>5, <1>6 DEF CacheNext

LEMMA ShapeTypes == Shape => CacheTypeOK
  <1> SUFFICES ASSUME Shape PROVE CacheTypeOK
    OBVIOUS
  <1> USE DEF Shape
  <1>1. \A p \in pending : p.number \in 1 .. commits
    BY DEF WriteShape, WriteRow
  <1>2. version \in 0 .. commits
    BY FS_CardinalityType DEF WriteShape
  <1>3. \A r \in ReadIds : reads[r].asOf \in 0 .. commits /\ reads[r].since \in 0 .. told
    BY ReadTyped DEF WriteShape, ReadShape, ReadRow
  <1>4. \A e \in store : e.asOf \in 0 .. commits
    BY DEF WriteShape, ReadShape, EntryRow
  <1>5. commits \in 0 .. MaxWrites /\ told \in 0 .. commits
    BY DEF WriteShape
  <1> QED
    BY <1>1, <1>2, <1>3, <1>4, <1>5 DEF WriteShape, CacheTypeOK

\* What the cache holds and what is being read is well typed, through any
\* number of boots and with writes of either kind (cache.js,
\* vehicleController.js).
THEOREM CacheTypes ==
    ASSUME ListingCacheConstants
    PROVE  CacheSpec => []CacheTypeOK
  <1>1. CacheInit => Shape
    BY ShapeInit
  <1>2. Shape /\ [CacheNext]_cacheVars => Shape'
    BY ShapeNext
  <1> QED
    BY <1>1, <1>2, ShapeTypes, PTL DEF CacheSpec

-----------------------------------------------------------------------------
(* What the version is for.                                                *)

\* The server has not been restarted, and no write of an order, which bumps
\* nothing, is on its way.
Undisturbed == boots = 0 /\ \A p \in pending : p.writer = "listing"

\* told moves with the version only: all that carries one version has been
\* asked for, or read, since the same answers.
Order ==
    /\ \A r \in ReadIds : reads[r].key <= version
    /\ \A r \in ReadIds : reads[r].key = version => reads[r].since = told
    /\ \A r, u \in ReadIds : reads[r].key = reads[u].key => reads[r].since = reads[u].since
    /\ \A r \in ReadIds : reads[r].step \notin {"get", "rows"} =>
          reads[r].asOf >= reads[r].since
    /\ \A e \in store : e.key <= version /\ (e.key = version => e.asOf >= told)
    /\ \A e \in store, r \in ReadIds : e.key = reads[r].key => e.asOf >= reads[r].since

Fresh == Shape /\ Order

LEMMA FreshWrites ==
    ASSUME Fresh, UNCHANGED <<told, version, reads, store>>
    PROVE  Order'
  BY DEF Fresh, Order, ReadIds

LEMMA FreshFinish ==
    ASSUME Fresh, NEW p \in pending, FinishListingWrite(p)
    PROVE  Order'
  <1>1. version' = version + 1 /\ UNCHANGED <<reads, store>>
    BY DEF FinishListingWrite, Answered
  <1>2. version \in Nat
    BY DEF Fresh, Shape, WriteShape
  <1>3. \A r \in ReadIds : reads[r].key \in Nat /\ reads[r].key < version'
    BY <1>1, <1>2, ReadTyped DEF Fresh, Shape, Order, ReadRow
  <1>4. \A e \in store : e.key \in Nat /\ e.key < version'
    BY <1>1, <1>2 DEF Fresh, Shape, ReadShape, Order, EntryRow
  <1>5. ReadIds' = ReadIds
    BY <1>1 DEF ReadIds
  <1> QED
    BY <1>1, <1>2, <1>3, <1>4, <1>5 DEF Fresh, Order

LEMMA FreshAsk ==
    ASSUME Fresh, NEW q \in Queries, Ask(q)
    PROVE  Order'
  <1> DEFINE n == Len(reads) + 1
  <1>1. /\ ReadIds' = ReadIds \cup {n}
        /\ reads'[n] = NewRead(q)
        /\ \A r \in ReadIds : reads'[r] = reads[r]
    BY AskShape DEF Fresh
  <1>2. n \notin ReadIds
    BY DEF Fresh, Shape, ReadShape, ReadIds
  <1>3. UNCHANGED <<told, version, store>>
    BY DEF Ask
  <1>4. NewRead(q).key = version /\ NewRead(q).since = told /\ NewRead(q).step = "get"
    BY DEF NewRead
  <1>5. version \in Nat
    BY DEF Fresh, Shape, WriteShape
  <1> HIDE DEF n
  <1> QED
    BY <1>1, <1>2, <1>3, <1>4, <1>5 DEF Fresh, Order

\* Whatever a request finds is not older than its question.
LEMMA FreshReadStep ==
    ASSUME Fresh, NEW r \in ReadIds, ReadStep(r)
    PROVE  Order'
  <1> USE DEF Fresh
  <1>1. PICK s \in ReadRow : Moves(r, s)
    BY ReadStepMoves
  <1>2. UNCHANGED <<told, version, commits>>
    BY <1>1 DEF Moves, Becomes
  <1>3. /\ told \in Nat /\ commits \in Nat /\ told <= commits
        /\ reads[r].since \in Nat /\ reads[r].since <= told
    BY ReadTyped DEF Shape, WriteShape, ReadShape, ReadRow
  <1>4. s.step \notin {"get", "rows"} => s.asOf >= s.since
    BY <1>1, <1>3 DEF Moves, Order
  <1>5. /\ ReadIds' = ReadIds
        /\ reads'[r] = s
        /\ \A u \in ReadIds \ {r} : reads'[u] = reads[u]
    BY <1>1 DEF Moves, Becomes, Shape, ReadShape, ReadIds
  <1>6. \A u \in ReadIds : /\ reads'[u].key = reads[u].key
                           /\ reads'[u].since = reads[u].since
    BY <1>1, <1>5 DEF Moves
  <1>7. \A e \in store' \ store : e.key = reads[r].key /\ e.asOf >= reads[r].since
    BY <1>1 DEF Moves, Order
  <1>8. \A e \in store', u \in ReadIds : e.key = reads[u].key => e.asOf >= reads[u].since
    BY <1>7 DEF Order
  <1>9. \A e \in store' : e.key <= version /\ (e.key = version => e.asOf >= told)
    BY <1>7 DEF Order
  <1>10. \A u \in ReadIds : reads'[u].step \notin {"get", "rows"} =>
            reads'[u].asOf >= reads'[u].since
    BY <1>4, <1>5 DEF Order
  <1> QED
    BY <1>2, <1>5, <1>6, <1>8, <1>9, <1>10 DEF Order

LEMMA FreshNext ==
    ASSUME ListingCacheConstants, Fresh, Undisturbed, Undisturbed',
           [CacheNext]_cacheVars
    PROVE  Fresh'
  <1>1. Shape'
    BY ShapeNext DEF Fresh
  <1>2. Order'
    <2>1. CASE \E c \in Cars, st \in {"AVAILABLE", "HIDDEN"} :
                  ListingWrite(c, st) \/ PurchaseWrite(c, st)
      BY <2>1, FreshWrites DEF ListingWrite, PurchaseWrite, CommitWrite
    <2>2. CASE Finish
      BY <2>2, FreshFinish DEF Finish, FinishPurchaseWrite, Undisturbed
    <2>3. CASE \E q \in Queries : Ask(q)
      BY <2>3, FreshAsk
    <2>4. CASE \E r \in ReadIds : ReadStep(r)
      BY <2>4, FreshReadStep
    <2>5. CASE \E e \in store : Expire(e)
      BY <2>5 DEF Expire, Fresh, Order, ReadIds
    <2>6. CASE ConnectionChange \/ UNCHANGED cacheVars
      BY <2>6, FreshWrites DEF ConnectionChange, cacheVars
    <2>7. CASE RestartServer
      <3>1. boots' = boots + 1
        BY <2>7 DEF RestartServer
      <3> QED
        BY <3>1 DEF Undisturbed
    <2> QED
      BY <2>1, <2>2, <2>3, <2>4, <2>5, <2>6, <2>7 DEF CacheNext
  <1> QED
    BY <1>1, <1>2 DEF Fresh

\* Between two boots, an answer is not older than what the writers of
\* listings had been told when it was asked for, whatever Redis does and
\* however reads, writes and bumps interleave (bumpVehicleVersion and setJSON
\* of cache.js under getVehicles and getFeaturedCars).
THEOREM StaleNever ==
    ASSUME ListingCacheConstants
    PROVE  CacheSpec /\ []Undisturbed => []NeverStale
  <1>1. CacheInit => Fresh
    BY ShapeInit DEF Fresh, Order, CacheInit, ReadIds
  <1>2. Fresh /\ Undisturbed /\ Undisturbed' /\ [CacheNext]_cacheVars => Fresh'
    BY FreshNext
  <1>3. Fresh => NeverStale
    BY DEF Fresh, Order, NeverStale, InStep
  <1> QED
    BY <1>1, <1>2, <1>3, PTL DEF CacheSpec

-----------------------------------------------------------------------------
(* Reviews.                                                                *)

Averages == {0} \cup {Average(R) : R \in SUBSET Review}

Form == [on : Orders, screen : Screens, stars : Stars \cup {NoStars}]
Post == [at : PostStages, stars : Stars \cup {NoStars}, average : Averages,
         alone : BOOLEAN]

PostShape ==
    /\ reviews \in SUBSET Review
    /\ form \in [Tabs -> Form]
    /\ post \in [Tabs -> Post]
    /\ \A t \in Tabs : ~PostAt(t, "idle") => post[t].stars \in Stars

\* A transaction holds the key of an order that has no review.
KeyInv ==
    \A t \in Tabs : post[t].at \in InTx =>
        /\ ~Reviewed(form[t].on)
        /\ \A u \in Tabs : post[u].at \in InTx /\ form[u].on = form[t].on => u = t

\* A request that says it is alone is the only one.
AloneInv ==
    \A t, u \in Tabs : Busy(t) /\ post[t].alone /\ Busy(u) => u = t

\* What a request that is alone has counted is what there will be.
CountInv ==
    \A t \in Tabs : post[t].alone /\ post[t].at \in {"counted", "updated"} =>
        post[t].average = Average(reviews \cup {Row(t)})

RInv == PostShape /\ OneReviewPerOrder /\ KeyInv /\ AloneInv /\ CountInv

-----------------------------------------------------------------------------
LEMMA NoPostType == NoPost \in Post
  BY DEF NoPost, Post, PostStages, Averages

LEMMA RInvInit == RInit => RInv
  <1> SUFFICES ASSUME RInit PROVE RInv
    OBVIOUS
  <1>1. /\ reviews = {} /\ post = [t \in Tabs |-> NoPost]
        /\ form \in [Tabs -> [on : Orders, screen : {"closed"}, stars : {NoStars}]]
    BY DEF RInit
  <1>2. form \in [Tabs -> Form]
    BY <1>1 DEF Form, Screens
  <1>3. \A t \in Tabs : post[t].at = "idle"
    BY <1>1 DEF NoPost
  <1> QED
    BY <1>1, <1>2, <1>3, NoPostType
    DEF RInv, PostShape, OneReviewPerOrder, KeyInv, AloneInv, CountInv, PostAt, Busy, InTx

\* The page changes what it shows, not the order it shows it for.
LEMMA FormStep ==
    ASSUME RInv, form' \in [Tabs -> Form], UNCHANGED <<reviews, post>>,
           \A t \in Tabs : form'[t].on = form[t].on
    PROVE  RInv'
  <1>1. \A t \in Tabs : Row(t)' = Row(t)
    BY DEF Row
  <1> QED
    BY <1>1 DEF RInv, PostShape, OneReviewPerOrder, KeyInv, AloneInv, CountInv,
                PostAt, Busy, InTx, Reviewed

\* A request goes on, with what it has read or without.
LEMMA GoOn ==
    ASSUME RInv, NEW t \in Tabs, NEW p \in Post, post' = [post EXCEPT ![t] = p],
           ~PostAt(t, "idle"), p.alone = post[t].alone, p.stars = post[t].stars,
           UNCHANGED <<reviews, form>>,
           p.at \in InTx => \/ post[t].at \in InTx
                            \/ /\ ~Reviewed(form[t].on)
                               /\ \A u \in Tabs : post[u].at \in InTx => form[u].on # form[t].on,
           p.at \in {"counted", "updated"} =>
               \/ p.average = Average(reviews \cup {Row(t)})
               \/ post[t].at \in {"counted", "updated"} /\ p.average = post[t].average
    PROVE  RInv'
  <1>1. post'[t] = p /\ \A u \in Tabs \ {t} : post'[u] = post[u]
    BY DEF RInv, PostShape
  <1>2. \A u \in Tabs : Row(u)' = Row(u)
    BY <1>1 DEF Row
  <1>3. PostShape'
    BY <1>1 DEF RInv, PostShape, PostAt
  <1>4. KeyInv'
    BY <1>1 DEF RInv, KeyInv, Reviewed
  <1>5. AloneInv'
    BY <1>1 DEF RInv, AloneInv, Busy, PostAt
  <1>6. CountInv'
    BY <1>1, <1>2 DEF RInv, CountInv
  <1> QED
    BY <1>3, <1>4, <1>5, <1>6 DEF RInv, OneReviewPerOrder

LEMMA SubmitInv ==
    ASSUME RInv, NEW t \in Tabs, NEW stars \in Stars, Submit(t, stars)
    PROVE  RInv'
  <1> DEFINE new(u) ==
                IF u = t THEN [NoPost EXCEPT !.at = "sent", !.stars = stars,
                                             !.alone = \A v \in Tabs : ~Busy(v)]
                         ELSE [post[u] EXCEPT !.alone = ~Busy(u)]
  <1>1. post' = [u \in Tabs |-> new(u)] /\ UNCHANGED <<reviews, form>> /\ ~Busy(t)
    BY DEF Submit
  <1>2. /\ new(t) \in Post /\ new(t).at = "sent" /\ new(t).stars = stars
        /\ new(t).alone => \A v \in Tabs : ~Busy(v)
    BY NoPostType DEF Post, PostStages, NoPost
  <1>3. \A u \in Tabs \ {t} :
           /\ new(u) \in Post /\ new(u).at = post[u].at /\ new(u).stars = post[u].stars
           /\ new(u).alone => ~Busy(u)
    BY DEF RInv, PostShape, Post
  <1>4. \A u \in Tabs : post'[u] = new(u)
    BY <1>1
  <1> HIDE DEF new
  <1>5. PostShape'
    BY <1>1, <1>2, <1>3, <1>4 DEF RInv, PostShape, PostAt
  <1>6. KeyInv'
    BY <1>1, <1>2, <1>3, <1>4 DEF RInv, KeyInv, Reviewed, InTx
  <1>7. AloneInv'
    BY <1>2, <1>3, <1>4 DEF AloneInv, Busy, PostAt
  <1>8. CountInv'
    BY <1>2, <1>3, <1>4 DEF CountInv, Busy, PostAt
  <1> QED
    BY <1>1, <1>5, <1>6, <1>7, <1>8 DEF RInv, OneReviewPerOrder

LEMMA TakeAnswerInv ==
    ASSUME RInv, NEW t \in Tabs, NEW lost \in BOOLEAN, TakeAnswer(t, lost)
    PROVE  RInv'
  <1>1. /\ post' = [post EXCEPT ![t] = NoPost] /\ UNCHANGED reviews
        /\ post[t].at \in {"created", "refused"}
    BY DEF TakeAnswer
  <1>2. post'[t] = NoPost /\ \A u \in Tabs \ {t} : post'[u] = post[u]
    BY <1>1 DEF RInv, PostShape
  <1>3. form' \in [Tabs -> Form] /\ \A u \in Tabs : form'[u].on = form[u].on
    <2>1. CASE UNCHANGED form
      BY <2>1 DEF RInv, PostShape
    <2>2. CASE form' = [form EXCEPT ![t].screen = "reviewed", ![t].stars = post[t].stars]
      BY <2>2 DEF RInv, PostShape, Form, Post, Screens
    <2> QED
      BY <2>1, <2>2 DEF TakeAnswer
  <1>4. NoPost.at = "idle"
    BY DEF NoPost
  <1>5. \A u \in Tabs \ {t} : Row(u)' = Row(u)
    BY <1>2, <1>3 DEF Row
  <1>6. PostShape'
    BY <1>1, <1>2, <1>3, <1>4, NoPostType DEF RInv, PostShape, PostAt
  <1>7. KeyInv'
    BY <1>1, <1>2, <1>3, <1>4 DEF RInv, KeyInv, Reviewed, InTx
  <1>8. AloneInv'
    BY <1>2, <1>4 DEF RInv, AloneInv, Busy, PostAt
  <1>9. CountInv'
    BY <1>1, <1>2, <1>4, <1>5 DEF RInv, CountInv
  <1> QED
    BY <1>1, <1>6, <1>7, <1>8, <1>9 DEF RInv, OneReviewPerOrder

LEMMA AggregateInv ==
    ASSUME RInv, NEW t \in Tabs, Aggregate(t)
    PROVE  RInv'
  <1> DEFINE a == Average(reviews \cup {Row(t)})
             p == [post[t] EXCEPT !.at = "counted", !.average = a]
  <1>1. Row(t) \in Review
    BY DEF RInv, PostShape, Row, Review, Form, PostAt, Aggregate
  <1>2. a \in Averages
    BY <1>1 DEF RInv, PostShape, Averages
  <1>3. post' = [post EXCEPT ![t] = p] /\ UNCHANGED <<reviews, form>> /\ PostAt(t, "inserted")
    BY DEF Aggregate, RInv, PostShape
  <1>4. /\ p \in Post /\ p.at = "counted" /\ p.average = a
        /\ p.alone = post[t].alone /\ p.stars = post[t].stars
    <2> HIDE DEF a
    <2> QED
      BY <1>2 DEF RInv, PostShape, Post, PostStages, InTx
  <1> HIDE DEF p
  <1> QED
    BY <1>3, <1>4, GoOn DEF PostAt, InTx

\* The other stages: only at changes.
LEMMA GoesInv ==
    ASSUME RInv, NEW t \in Tabs, NEW stage \in PostStages \ {"idle"}, Goes(t, stage),
           ~PostAt(t, "idle"), UNCHANGED <<reviews, form>>,
           stage \in InTx => \/ post[t].at \in InTx
                             \/ /\ ~Reviewed(form[t].on)
                                /\ \A u \in Tabs : post[u].at \in InTx => form[u].on # form[t].on,
           stage \in {"counted", "updated"} => PostAt(t, "counted")
    PROVE  RInv'
  <1> DEFINE p == [post[t] EXCEPT !.at = stage]
  <1>1. post' = [post EXCEPT ![t] = p]
    BY DEF Goes, RInv, PostShape
  <1>2. /\ p \in Post /\ p.at = stage /\ p.average = post[t].average
        /\ p.alone = post[t].alone /\ p.stars = post[t].stars
    BY DEF RInv, PostShape, Post
  <1> HIDE DEF p
  <1> QED
    BY <1>1, <1>2, GoOn DEF PostAt

LEMMA CommitReviewInv ==
    ASSUME RInv, NEW t \in Tabs, CommitReview(t)
    PROVE  RInv'
  <1>1. /\ Row(t) \in Review /\ Row(t).order = form[t].on
        /\ post[t].at = "updated"
    BY DEF RInv, PostShape, Row, Review, Form, PostAt, CommitReview
  <1>2. /\ reviews' = reviews \cup {Row(t)} /\ UNCHANGED form
        /\ post' = [post EXCEPT ![t].at = "created"]
    BY DEF CommitReview, Goes
  <1>3. /\ post' \in [Tabs -> Post]
        /\ post'[t].at = "created" /\ post'[t].stars = post[t].stars
        /\ post'[t].alone = post[t].alone
        /\ \A u \in Tabs \ {t} : post'[u] = post[u]
    BY <1>2 DEF RInv, PostShape, Post, PostStages
  <1>4. ~Reviewed(form[t].on)
    BY <1>1 DEF RInv, KeyInv, InTx
  <1>5. OneReviewPerOrder'
    BY <1>1, <1>2, <1>4 DEF RInv, OneReviewPerOrder, Reviewed
  <1>6. PostShape'
    BY <1>1, <1>2, <1>3 DEF RInv, PostShape, PostAt
  <1>7. KeyInv'
    <2> SUFFICES ASSUME NEW u \in Tabs, post'[u].at \in InTx
                 PROVE  /\ ~Reviewed(form[u].on)'
                        /\ \A x \in Tabs : post'[x].at \in InTx /\ form'[x].on = form'[u].on
                                => x = u
      BY DEF KeyInv
    <2>1. u # t /\ post[u].at \in InTx
      BY <1>3 DEF InTx
    <2>2. form[u].on # form[t].on /\ ~Reviewed(form[u].on)
      BY <1>1, <2>1 DEF RInv, KeyInv, InTx
    <2>3. ~Reviewed(form[u].on)'
      BY <1>1, <1>2, <2>2 DEF Reviewed
    <2>4. \A x \in Tabs : post'[x].at \in InTx => post[x].at \in InTx
      BY <1>1, <1>3 DEF InTx
    <2> QED
      BY <1>2, <2>1, <2>3, <2>4 DEF RInv, KeyInv
  <1>8. AloneInv'
    BY <1>1, <1>3 DEF RInv, AloneInv, Busy, PostAt
  <1>9. CountInv'
    BY <1>1, <1>3 DEF RInv, AloneInv, CountInv, Busy, PostAt
  <1> QED
    BY <1>5, <1>6, <1>7, <1>8, <1>9 DEF RInv

LEMMA RInvNext ==
    ASSUME RInv, [RNext]_rvars
    PROVE  RInv'
  <1> USE DEF PostStages, InTx
  <1>1. ASSUME NEW o \in Orders, Complete(o) PROVE RInv'
    BY <1>1, FormStep DEF Complete, RInv, PostShape
  <1>2. ASSUME NEW t \in Tabs, OpenForm(t) \/ CloseForm(t) \/ \E b \in BOOLEAN : Load(t, b)
        PROVE  RInv'
    <2>1. UNCHANGED <<reviews, post>>
      BY <1>2 DEF OpenForm, CloseForm, Load
    <2>2. form' \in [Tabs -> Form] /\ \A u \in Tabs : form'[u].on = form[u].on
      BY <1>2 DEF OpenForm, CloseForm, Load, RInv, PostShape, Form, Screens
    <2> QED
      BY <2>1, <2>2, FormStep
  <1>3. ASSUME NEW t \in Tabs, Check(t) PROVE RInv'
    BY <1>3, GoesInv DEF Check, PostAt
  <1>4. ASSUME NEW t \in Tabs, Insert(t) PROVE RInv'
    BY <1>4, GoesInv DEF Insert, PostAt
  <1>5. ASSUME NEW t \in Tabs, UpdateRating(t) PROVE RInv'
    BY <1>5, GoesInv DEF UpdateRating, PostAt
  <1>6. ASSUME NEW t \in Tabs, RollBack(t) PROVE RInv'
    BY <1>6, GoesInv DEF RollBack, PostAt
  <1>7. CASE UNCHANGED rvars
    BY <1>7, FormStep DEF rvars, RInv, PostShape
  <1> QED
    BY <1>1, <1>2, <1>3, <1>4, <1>5, <1>6, <1>7,
       SubmitInv, TakeAnswerInv, AggregateInv, CommitReviewInv DEF RNext, Create

\* A review is stored by the commit of its own request.
LEMMA CommitsOnly ==
    ASSUME RInv, [RNext]_rvars, NEW t \in Tabs,
           PostAt(t, "updated"), post'[t].at = "created"
    PROVE  CommitReview(t)
  <1>1. post \in [Tabs -> Post] /\ post[t].at = "updated"
    BY DEF RInv, PostShape, PostAt
  <1>2. ASSUME NEW u \in Tabs, \E b \in BOOLEAN : TakeAnswer(u, b) PROVE FALSE
    BY <1>1, <1>2 DEF TakeAnswer, NoPost
  <1>3. ASSUME NEW u \in Tabs, \E stars \in Stars : Submit(u, stars) PROVE FALSE
    <2>1. u # t
      BY <1>1, <1>3 DEF Submit, Busy, PostAt
    <2>2. post'[t] = [post[t] EXCEPT !.alone = ~Busy(t)]
      BY <1>3, <2>1 DEF Submit
    <2> QED
      BY <1>1, <2>2 DEF Post
  <1>4. ASSUME NEW u \in Tabs, Aggregate(u) PROVE FALSE
    BY <1>1, <1>4 DEF Aggregate, Post
  <1>5. ASSUME NEW u \in Tabs, NEW stage \in PostStages \ {"created"}, Goes(u, stage)
        PROVE  FALSE
    BY <1>1, <1>5 DEF Goes, Post
  <1>6. ASSUME NEW u \in Tabs, CommitReview(u) PROVE u = t
    BY <1>1, <1>6 DEF CommitReview, Goes, Post
  <1>7. ~UNCHANGED post
    BY <1>1
  <1>8. ASSUME NEW u \in Tabs, Check(u) \/ Insert(u) \/ UpdateRating(u) \/ RollBack(u)
        PROVE  FALSE
    BY <1>5, <1>8 DEF Check, Insert, UpdateRating, RollBack, PostStages, InTx
  <1> QED
    BY <1>2, <1>3, <1>4, <1>6, <1>7, <1>8
    DEF RNext, Create, Complete, OpenForm, CloseForm, Load, rvars

-----------------------------------------------------------------------------
\* However many tabs post at once and however their transactions interleave,
\* an order gets one review (the unique key under createReview).
THEOREM OneReview == RSpec => []OneReviewPerOrder
  <1>1. RInv => OneReviewPerOrder
    BY DEF RInv
  <1> QED
    BY <1>1, RInvInit, RInvNext, PTL DEF RSpec

\* A review that is stored with no other in flight leaves the seller with the
\* average of all reviews, whatever races went before (the aggregate and the
\* update of createReview).
THEOREM Healed == RSpec => RaceIsHealed
  <1> DEFINE Heals ==
        \A t \in Tabs :
          PostAt(t, "updated") /\ post'[t].at = "created" /\ post[t].alone
              => rating' = Average(reviews')
  <1>1. RInv /\ [RNext]_rvars => Heals
    <2> SUFFICES ASSUME RInv, [RNext]_rvars, NEW t \in Tabs,
                        PostAt(t, "updated"), post'[t].at = "created", post[t].alone
                 PROVE  rating' = Average(reviews')
      OBVIOUS
    <2>1. CommitReview(t)
      BY CommitsOnly
    <2> QED
      BY <2>1 DEF CommitReview, RInv, CountInv, PostAt
  <1>2. RInv /\ [RNext]_rvars => [Heals]_rvars
    BY <1>1
  <1> QED
    BY <1>2, RInvInit, RInvNext, PTL DEF RSpec, RaceIsHealed
=============================================================================

------------------------------ MODULE Reviews ------------------------------
(***************************************************************************)
(* The reviews of one seller: createReview and getEligibleReviews          *)
(* (backend/src/controllers/reviewController.js) and the form on the page  *)
(* of a completed order (frontend/src/components/ReviewForm.jsx).          *)
(*                                                                         *)
(* A review is stored in a transaction at READ COMMITTED: it sees what has *)
(* been committed and what it wrote itself.  The key of the row (one       *)
(* review per purchase) and the row of the seller are locked until the     *)
(* transaction ends.  Stars are whole numbers, the rating is kept in       *)
(* tenths of a star.                                                       *)
(***************************************************************************)
EXTENDS Naturals, FiniteSets, FiniteSetsExt

CONSTANTS
    Orders,         \* orders of the seller
    Tabs,           \* browser tabs that may show their pages
    Stars           \* ratings given

ReviewConstants == Stars \subseteq 1 .. 5

NoStars == 0

VARIABLES
    completed,      \* orders that are COMPLETED
    reviews,        \* Review rows
    rating,         \* SellerProfile.rating, in tenths
    form,           \* the form in each tab
    post            \* its POST /api/reviews

rvars == <<completed, reviews, rating, form, post>>

Review == [order : Orders, stars : Stars]

Screens == {"closed", "loading", "form", "reviewed"}
InTx    == {"inserted", "counted", "updated"}
PostStages  == {"idle", "sent", "checked", "created", "refused"} \cup InTx

\* alone: no other request has been in flight since this one began.
NoPost == [at |-> "idle", stars |-> NoStars, average |-> 0, alone |-> TRUE]

RInit ==
    /\ completed = {}
    /\ reviews = {}
    /\ rating = 0
    /\ form \in [Tabs -> [on : Orders, screen : {"closed"}, stars : {NoStars}]]
    /\ post = [t \in Tabs |-> NoPost]

-----------------------------------------------------------------------------
PostAt(t, stage) == post[t].at = stage
Busy(t) == ~PostAt(t, "idle")
Goes(t, stage) == post' = [post EXCEPT ![t].at = stage]

\* The row of a request.
Row(t) == [order |-> form[t].on, stars |-> post[t].stars]

Reviewed(o) == \E r \in reviews : r.order = o

\* Math.round of ten times the average; 0 without reviews.
Average(R) ==
    IF R = {} THEN 0
    ELSE (20 * MapThenSumSet(LAMBDA r : r.stars, R) + Cardinality(R))
            \div (2 * Cardinality(R))

-----------------------------------------------------------------------------
(* The page.                                                               *)

Complete(o) ==
    /\ completed' = completed \cup {o}
    /\ UNCHANGED <<reviews, rating, form, post>>

OpenForm(t) ==
    /\ form[t].screen = "closed" /\ form[t].on \in completed
    /\ form' = [form EXCEPT ![t].screen = "loading"]
    /\ UNCHANGED <<completed, reviews, rating, post>>

CloseForm(t) ==
    /\ form[t].screen # "closed" /\ ~Busy(t)
    /\ form' = [form EXCEPT ![t].screen = "closed", ![t].stars = NoStars]
    /\ UNCHANGED <<completed, reviews, rating, post>>

\* load: an order among the reviewed ones shows its review, of which the
\* list of eligible orders gives the id only; a request that fails leaves
\* the form.
Load(t, fails) ==
    /\ form[t].screen = "loading"
    /\ form' = [form EXCEPT ![t].screen =
                    IF Reviewed(form[t].on) /\ ~fails THEN "reviewed" ELSE "form"]
    /\ UNCHANGED <<completed, reviews, rating, post>>

Submit(t, stars) ==
    /\ form[t].screen = "form" /\ ~Busy(t)
    /\ post' = [u \in Tabs |->
                   IF u = t THEN [NoPost EXCEPT !.at = "sent", !.stars = stars,
                                                !.alone = \A v \in Tabs : ~Busy(v)]
                            ELSE [post[u] EXCEPT !.alone = ~Busy(u)]]
    /\ UNCHANGED <<completed, reviews, rating, form>>

\* The page takes the answer, or learns of none.
TakeAnswer(t, lost) ==
    /\ post[t].at \in {"created", "refused"}
    /\ IF PostAt(t, "created") /\ ~lost
          THEN form' = [form EXCEPT ![t].screen = "reviewed",
                                    ![t].stars = post[t].stars]
          ELSE UNCHANGED form
    /\ post' = [post EXCEPT ![t] = NoPost]
    /\ UNCHANGED <<completed, reviews, rating>>

-----------------------------------------------------------------------------
(* createReview.                                                           *)

\* The order is completed and has no review.
Check(t) ==
    /\ PostAt(t, "sent")
    /\ Goes(t, IF form[t].on \in completed /\ ~Reviewed(form[t].on)
                  THEN "checked" ELSE "refused")
    /\ UNCHANGED <<completed, reviews, rating, form>>

\* Variant: without the unique key.
InsertAnyway(t) ==
    /\ PostAt(t, "checked")
    /\ Goes(t, "inserted")
    /\ UNCHANGED <<completed, reviews, rating, form>>

\* review.create waits for another transaction with the same key, and fails
\* if that one has been committed.
Insert(t) ==
    /\ PostAt(t, "checked")
    /\ \A u \in Tabs : post[u].at \in InTx => form[u].on # form[t].on
    /\ Goes(t, IF Reviewed(form[t].on) THEN "refused" ELSE "inserted")
    /\ UNCHANGED <<completed, reviews, rating, form>>

\* Variant: the aggregate leaves out the new row.
AggregateBefore(t) ==
    /\ PostAt(t, "inserted")
    /\ post' = [post EXCEPT ![t].at = "counted", ![t].average = Average(reviews)]
    /\ UNCHANGED <<completed, reviews, rating, form>>

Aggregate(t) ==
    /\ PostAt(t, "inserted")
    /\ post' = [post EXCEPT ![t].at = "counted",
                            ![t].average = Average(reviews \cup {Row(t)})]
    /\ UNCHANGED <<completed, reviews, rating, form>>

\* sellerProfile.update waits for another transaction that has written it.
UpdateRating(t) ==
    /\ PostAt(t, "counted")
    /\ \A u \in Tabs : ~PostAt(u, "updated")
    /\ Goes(t, "updated")
    /\ UNCHANGED <<completed, reviews, rating, form>>

CommitReview(t) ==
    /\ PostAt(t, "updated")
    /\ reviews' = reviews \cup {Row(t)}
    /\ rating' = post[t].average
    /\ Goes(t, "created")
    /\ UNCHANGED <<completed, form>>

\* A failure, or the 15 s of the transaction.
RollBack(t) ==
    /\ post[t].at \in InTx \cup {"checked"}
    /\ Goes(t, "refused")
    /\ UNCHANGED <<completed, reviews, rating, form>>

Create(t) ==
    Check(t) \/ Insert(t) \/ Aggregate(t) \/ UpdateRating(t) \/ CommitReview(t)

RNext ==
    \/ \E o \in Orders : Complete(o)
    \/ \E t \in Tabs :
          \/ OpenForm(t) \/ CloseForm(t)
          \/ \E b \in BOOLEAN : Load(t, b) \/ TakeAnswer(t, b)
          \/ \E stars \in Stars : Submit(t, stars)
          \/ Create(t)
          \/ RollBack(t)

RSpec == RInit /\ [][RNext]_rvars

-----------------------------------------------------------------------------
RTypeOK ==
    /\ completed \subseteq Orders
    /\ reviews \subseteq Review
    /\ rating \in 0 .. 50
    /\ form \in [Tabs -> [on : Orders, screen : Screens, stars : Stars \cup {NoStars}]]
    /\ post \in [Tabs -> [at : PostStages, stars : Stars \cup {NoStars},
                          average : 0 .. 50, alone : BOOLEAN]]

\* 'only one per purchase', also when two tabs post at once.
OneReviewPerOrder == \A r, s \in reviews : r.order = s.order => r = s

\* The rating is computed from the rows and not from itself: a review that
\* is stored while no other is in flight leaves the seller with the average
\* of all, whatever an earlier race has left.
RaceIsHealed ==
    [][\A t \in Tabs :
          PostAt(t, "updated") /\ post'[t].at = "created" /\ post[t].alone
              => rating' = Average(reviews')]_rvars

\* 'Recompute the seller's aggregate rating in one shot': with nothing in
\* flight the rating is the average of the reviews.
RatingIsAverage ==
    (\A t \in Tabs : ~Busy(t)) => rating = Average(reviews)

\* 'Shows existing review if left': with the stars it gave.
ShowsStarsGiven ==
    \A t \in Tabs : form[t].screen = "reviewed" =>
        [order |-> form[t].on, stars |-> form[t].stars] \in reviews
=============================================================================

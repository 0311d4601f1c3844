------------------------------- MODULE MCLive -------------------------------
(***************************************************************************)
(* What must happen: the instances of the server's components and of the   *)
(* pages that TLC checks under fairness.  The pages are the live parts of  *)
(* MCScreens; the server's parts are                                       *)
(*   "live plans"   two requests at a time on one payment;                 *)
(*   "live sweep"   one process, and timers that are on time;              *)
(*   "live cache"   one request, two writes, one restart.                  *)
(***************************************************************************)
EXTENDS MCScreens

VARIABLES
    \* Billing
    today, payment, charge, hook, sub, lapse, page, work,
    \* ExpirySweep
    clock, expiresAt, listed, notices, timer, restarts,
    \* ListingCache
    onSale, commits, answered, pending, version, boots, up, store, reads

plans     == <<today, payment, charge, hook, sub, lapse, page, work>>
sweep     == <<clock, expiresAt, listed, notices, timer, restarts>>
cache     == <<onSale, commits, answered, pending, version, boots, up, store,
               reads>>

liveVars == <<screenVars, plans, sweep, cache>>

-----------------------------------------------------------------------------
B == INSTANCE Billing WITH
    Payments <- {"p1"}, Workers <- {"w1", "w2"}, Duration <- 2, FreeDays <- 3,
    LastDay <- 1, Outcomes <- {"success"}

W == INSTANCE ExpirySweep WITH
    Processes <- {"w1"}, DayTicks <- 4, BootDelay <- 1, Delay <- 0,
    Restarts <- 0, Horizon <- 12

K == INSTANCE ListingCache WITH
    Cars <- {"car"}, Featured <- {"car"}, Queries <- {"ranked"},
    PurchaseWrites <- TRUE, MaxWrites <- 2, MaxReads <- 1, MaxRestarts <- 1,
    status <- onSale, told <- answered

ASSUME /\ B!BillingConstants
       /\ W!SweepConstants
       /\ K!ListingCacheConstants

-----------------------------------------------------------------------------
\* The end of the clock: nothing is due.
NoSweep ==
    /\ clock = 24
    /\ expiresAt = 0
    /\ listed = TRUE
    /\ notices = 0
    /\ timer = [p \in {"w1"} |-> 25]
    /\ restarts = 0

LiveInit ==
    /\ ScreensInit
    /\ B!BInit
    /\ IF part = "live sweep" THEN W!SInit ELSE NoSweep
    /\ K!CacheInit /\ (part # "live cache" => up /\ onSale["car"] = "AVAILABLE")

LiveNext ==
    \/ /\ ScreensNext
       /\ UNCHANGED <<plans, sweep, cache>>
    \/ /\ part = "live plans" /\ B!BNext
       /\ UNCHANGED <<screenVars, sweep, cache>>
    \/ /\ part = "live sweep" /\ W!SNext
       /\ UNCHANGED <<screenVars, plans, cache>>
    \/ /\ part = "live cache" /\ K!CacheNext
       /\ UNCHANGED <<screenVars, plans, sweep>>

\* Requests are served and answers are taken, Paystack and the clock of the
\* sweep go on.  In the parts that a behaviour does not run no fair action is
\* enabled.
LiveSpec ==
    /\ LiveInit /\ [][LiveNext]_liveVars
    /\ ScreensFairness
    /\ B!PlanFairness
    /\ W!SweepFairness
    /\ K!CacheFairness

-----------------------------------------------------------------------------
\* A charge that Paystack has made is turned into a plan, a listing that
\* lapses is announced to its seller, a request to a listing page is
\* answered, and what the cache holds under the current version is what the
\* database says, some time after the last write.
ServerSettles ==
    /\ B!ChargeActivates
    /\ W!Announced
    /\ part = "live cache" => K!RequestsAnswered /\ K!StaleEnds

\* What is unread reaches the badge.
UnreadReachesBadge == CL!UnreadReachesBadge

\* No page waits for ever: buttons, verifications, spinners and pagers.
ScreensSettle ==
    /\ OL!ActingEnds /\ OL!VerifyEnds
    /\ DL!SpinnerEnds
    /\ PP!FetchingEnds
    /\ BL!ButtonsComeBack
=============================================================================

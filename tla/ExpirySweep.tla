---------------------------- MODULE ExpirySweep ----------------------------
(***************************************************************************)
(* backend/src/jobs/expiry.js: the daily sweep that tells sellers their    *)
(* free listings have lapsed.  Each server process runs it BootDelay after *)
(* it has started and every Day from then on; the sweep looks back one Day *)
(* and remembers nothing.  A timer fires up to Delay late, never early.    *)
(* Time is counted in fractions of a day.  The orders and the              *)
(* administrators take the listing off the market and put it back at any   *)
(* time; what they do is the subject of Listings and Marketplace.          *)
(***************************************************************************)
EXTENDS Naturals, FiniteSets

CONSTANTS
    Processes,      \* server processes (ecosystem.config.js, instances)
    DayTicks,       \* the period of the sweep, and what it looks back
    BootDelay,      \* from the start of a process to its first sweep
    Delay,          \* how late a timer may fire
    Restarts,       \* bound on the restarts
    Horizon         \* bound on the clock

SweepConstants ==
    /\ IsFiniteSet(Processes)
    /\ DayTicks \in Nat \ {0}
    /\ {BootDelay, Delay, Restarts, Horizon} \subseteq Nat

VARIABLES
    clock,
    expiresAt,  \* Vehicle.expiresAt of the listing; 0 for null
    listed,     \* Vehicle.status = 'AVAILABLE'
    notices,    \* LISTING_EXPIRED notices its seller has got
    timer,      \* when the next sweep of a process is due
    restarts

svars == <<clock, expiresAt, listed, notices, timer, restarts>>

STypeOK ==
    /\ clock \in 0..Horizon
    /\ expiresAt \in 0..Horizon
    /\ listed \in BOOLEAN
    /\ notices \in Nat
    /\ timer \in [Processes -> Nat]
    /\ restarts \in 0..Restarts

SInit ==
    /\ clock = 0
    /\ expiresAt \in 1..Horizon
    /\ listed = TRUE
    /\ notices = 0
    /\ timer = [p \in Processes |-> BootDelay]
    /\ restarts = 0

\* Variant: the window is closed on both sides.
LapsedClosed ==
    listed /\ expiresAt # 0 /\ expiresAt <= clock /\ expiresAt + DayTicks >= clock

\* Variant: only what lapses at this moment.
LapsedNow == listed /\ expiresAt # 0 /\ expiresAt = clock

\* The query of the sweep: on the market, expiresAt in (now - 24h, now].
Lapsed ==
    listed /\ expiresAt # 0 /\ expiresAt <= clock /\ expiresAt + DayTicks > clock

Sweep(p) ==
    /\ clock >= timer[p]
    /\ notices' = IF Lapsed THEN notices + 1 ELSE notices
    /\ timer' = [timer EXCEPT ![p] = clock + DayTicks]
    /\ UNCHANGED <<clock, expiresAt, listed, restarts>>

\* A deploy or a crash: the timers of the process are lost and set again.
RestartProcess(p) ==
    /\ restarts < Restarts
    /\ restarts' = restarts + 1
    /\ timer' = [timer EXCEPT ![p] = clock + BootDelay]
    /\ UNCHANGED <<clock, expiresAt, listed, notices>>

\* A plan payment clears the expiry date (applyVerifiedPayment).
Upgrade ==
    /\ expiresAt # 0
    /\ expiresAt' = 0
    /\ UNCHANGED <<clock, listed, notices, timer, restarts>>

\* An order or an administrator takes it off the market or puts it back.
SetListed(on) ==
    /\ listed' = on
    /\ UNCHANGED <<clock, expiresAt, notices, timer, restarts>>

ClockTick ==
    /\ clock < Horizon
    /\ \A p \in Processes : clock < timer[p] + Delay
    /\ clock' = clock + 1
    /\ UNCHANGED <<expiresAt, listed, notices, timer, restarts>>

SNext ==
    \/ \E p \in Processes : Sweep(p) \/ RestartProcess(p)
    \/ Upgrade
    \/ \E on \in BOOLEAN : SetListed(on)
    \/ ClockTick

SSpec == SInit /\ [][SNext]_svars

\* The clock goes on, and a timer that is due fires.
SweepFairness ==
    /\ WF_svars(ClockTick)
    /\ \A p \in Processes : WF_svars(Sweep(p))

-----------------------------------------------------------------------------
\* Nothing is remembered, so every process tells, and tells again after a
\* restart, but not more than that.
NoticesBounded == notices <= Cardinality(Processes) + restarts

\* 'each listing is announced exactly once': never twice ...
AnnouncedOnce == notices <= 1

\* ... and, while the clock has a day to go, some time, unless its seller
\* has upgraded or it leaves the market.
Announced ==
    expiresAt # 0 /\ clock < expiresAt /\ expiresAt + DayTicks + Delay <= Horizon
        ~> notices > 0 \/ expiresAt = 0 \/ ~listed

\* What does not hold: a listing that was RESERVED when it lapsed and is back
\* on the market when its order ends may be past the look-back of the sweep.
AnnouncedWhenBack ==
    expiresAt # 0 /\ expiresAt + DayTicks + Delay <= Horizon
        ~> notices > 0 \/ expiresAt = 0 \/ ~listed
=============================================================================

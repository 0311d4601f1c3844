----------------------------- MODULE MCServices -----------------------------
(***************************************************************************)
(* Instances for TLC of the server's components beside the orders: the     *)
(* listings, the price offers, the plans, the sweep of expired listings,   *)
(* the accounts, the listing cache and the reviews.                        *)
(*                                                                         *)
(* They share no state, so each behaviour runs one of them, the part       *)
(* chosen at the start, and the variables of the others stay at a fixed    *)
(* initial value.  How many requests are in flight at once is up to the    *)
(* configuration; the part "limit" is an instance of its own, with one     *)
(* request at a time on three listings, and creations, closures and sales  *)
(* only.                                                                   *)
(***************************************************************************)
EXTENDS Listings, Offers, Billing, ExpirySweep, Accounts, ListingCache,
        Reviews, TLC

CONSTANTS
    Parts,          \* the parts of this run
    h0, h1, h2,     \* requests; h0 is the one of the runs that have one
    kofi, c1, c2, c3, p1, p2, r1, r2, b1, b2

VARIABLE part

serviceVars == <<part, lvars, ovars, bvars, svars, avars, cacheVars, rvars>>

-----------------------------------------------------------------------------
AllEndpoints   == SellerEndpoints \cup AdminEndpoints
LimitEndpoints == {"createVehicle", "deleteVehicle", "markAsSold"}

KofiOwns == [v \in Vehicles |-> kofi]
OneCar   == [s \in {kofi} |-> 1]

ThreeOfKofi == [v \in {c1, c2, c3} |-> kofi]
Limit == INSTANCE Listings WITH
    Editors <- {h0}, ListingHandlers <- LimitEndpoints,
    Vehicles <- {c1, c2, c3}, Sellers <- {kofi}, ownerOf <- ThreeOfKofi,
    ListingLimit <- [s \in {kofi} |-> 2], MaxContent <- 1

ASSUME /\ ListingConstants /\ Limit!ListingConstants
       /\ OfferConstants
       /\ BillingConstants
       /\ SweepConstants
       /\ AccountConstants
       /\ ListingCacheConstants
       /\ ReviewConstants

-----------------------------------------------------------------------------
\* The end of the clock: nothing is due.
NoSweep ==
    /\ clock = Horizon
    /\ expiresAt = 0
    /\ listed = TRUE
    /\ notices = 0
    /\ timer = [p \in Processes |-> Horizon + 1]
    /\ restarts = 0

ServicesInit ==
    /\ part \in Parts
    /\ IF part = "limit" THEN Limit!LInit ELSE LInit
    /\ OInit
    /\ BInit
    /\ IF part = "sweep" THEN SInit ELSE NoSweep
    /\ AInit
    /\ CacheInit /\ (part # "cache" => up /\ status = [c \in Cars |-> "AVAILABLE"])
    /\ RInit /\ (part # "reviews" => \A t \in Tabs : form[t].on = r1)

ListingsPart ==
    /\ \/ part = "listings" /\ LNext
       \/ part = "limit"    /\ Limit!LNext
    /\ UNCHANGED <<part, ovars, bvars, svars, avars, cacheVars, rvars>>

OffersPart ==
    /\ part = "offers" /\ ONext
    /\ UNCHANGED <<part, lvars, bvars, svars, avars, cacheVars, rvars>>

PlansPart ==
    /\ part = "plans" /\ BNext
    /\ UNCHANGED <<part, lvars, ovars, svars, avars, cacheVars, rvars>>

SweepPart ==
    /\ part = "sweep" /\ SNext
    /\ UNCHANGED <<part, lvars, ovars, bvars, avars, cacheVars, rvars>>

AccountsPart ==
    /\ part = "accounts" /\ ANext
    /\ UNCHANGED <<part, lvars, ovars, bvars, svars, cacheVars, rvars>>

CachePart ==
    /\ part = "cache" /\ CacheNext
    /\ UNCHANGED <<part, lvars, ovars, bvars, svars, avars, rvars>>

ReviewsPart ==
    /\ part = "reviews" /\ RNext
    /\ UNCHANGED <<part, lvars, ovars, bvars, svars, avars, cacheVars>>

ServicesNext ==
    \/ ListingsPart
    \/ OffersPart
    \/ PlansPart
    \/ SweepPart
    \/ AccountsPart
    \/ CachePart
    \/ ReviewsPart

ServicesSpec == ServicesInit /\ [][ServicesNext]_serviceVars

RequestSymmetry == Permutations({h1, h2})

-----------------------------------------------------------------------------
\* Each component is well typed.
ServiceTypes ==
    /\ part # "limit" => LTypeOK
    /\ OTypeOK
    /\ BTypeOK
    /\ part = "sweep" => STypeOK
    /\ ATypeOK
    /\ CacheTypeOK
    /\ RTypeOK

\* Among creations, closures and sales, one at a time, a seller has no more
\* listings than the plan allows.
LimitKept == part = "limit" => Limit!WithinLimit
=============================================================================

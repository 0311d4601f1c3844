---------------------------- MODULE Marketplace ----------------------------
(***************************************************************************)
(* The purchase workflow and the listing endpoints over one Vehicle table: *)
(* Purchases reads and writes Vehicle.status to reserve, sell and free a   *)
(* car, Listings to moderate it, and neither locks the row for the other.  *)
(* An order refers to its listing, so a listing that has been ordered is   *)
(* never wiped, and an order of a listing that has been wiped meanwhile    *)
(* cannot be inserted.                                                     *)
(***************************************************************************)
EXTENDS Purchases

CONSTANTS Editors, ListingHandlers, ListingLimit, MaxContent, Nobody

VARIABLES row, featured, content, approved, active, lreq

\* Listings that orders refer to.
ordered == {v \in Vehicles :
              \E o \in Orders : vehicleOf[o] = v /\ orders[o].status # "ABSENT"}

sellers == {sellerOf[v] : v \in Vehicles}

L == INSTANCE Listings
        WITH Sellers <- sellers, ownerOf <- sellerOf, refs <- ordered

listingOnly == <<row, featured, content, approved, active, lreq>>
mvars       == <<vars, listingOnly>>

\* Every listing starts on the market, as an administrator has approved it.
MListings ==
    /\ row = [v \in Vehicles |-> "live"]
    /\ featured = [v \in Vehicles |-> FALSE]
    /\ content = [v \in Vehicles |-> 1]
    /\ approved = [v \in Vehicles |-> 1]
    /\ active = [s \in sellers |-> TRUE]
    /\ lreq = [w \in Editors |-> L!NoRequest]

MInit == Init /\ MListings

\* The key of the order refuses an order of a listing that does not exist.
KeepsReferences ==
    \A o \in Orders :
        orders[o].status = "ABSENT" /\ orders'[o].status # "ABSENT"
            => row[vehicleOf[o]] = "live"

PurchaseStep ==
    /\ Next
    /\ KeepsReferences
    /\ UNCHANGED listingOnly

SellerStep ==
    /\ UNCHANGED <<orders, offers, paystack, req, effects>>
    /\ L!ListingStep

MNext == PurchaseStep \/ SellerStep

MSpec == MInit /\ [][MNext]_mvars

\* One request at a time over both workflows.
OneAtATime ==
    \/ \A w \in Workers : At(w, "idle")
    \/ \A e \in Editors : lreq[e].at = "idle"

SerialNext == MNext /\ OneAtATime'
SerialSpec == MInit /\ [][SerialNext]_mvars

-----------------------------------------------------------------------------
(* Requests of both workflows in flight.                                   *)

\* The order on car v that is refunded by this step.
RefundedNow(v) ==
    \E o \in Orders : /\ vehicleOf[o] = v
                      /\ orders[o].status = "PAID_HELD"
                      /\ orders'[o].status = "REFUNDED"

AdminActsOn(v) == \E e \in Editors : lreq[e].by = "admin" /\ lreq[e].on = v

\* A listing that its seller has closed, sold or edited, or that was taken
\* down, is not brought back by an order that ends: cancelPurchase frees the
\* car only from RESERVED.  An administrator can, and a refund does.
StaysOff ==
    \A v \in Vehicles :
        /\ vehicle[v] \notin {"AVAILABLE", "RESERVED"}
        /\ vehicle'[v] = "AVAILABLE"
        => AdminActsOn(v) \/ RefundedNow(v)

OffMarketStaysOff == [][StaysOff]_mvars

-----------------------------------------------------------------------------
(* One request at a time.                                                  *)

\* A car that is on the market although its seller is suspended has been put
\* there by an administrator: suspension takes listings down 'so nothing they
\* posted stays publicly reachable'.
SuspendedStays ==
    \A v \in Vehicles :
        /\ vehicle[v] # "AVAILABLE" /\ vehicle'[v] = "AVAILABLE"
        /\ ~active[sellerOf[v]]
        => AdminActsOn(v)

SuspendedOffMarket == [][SuspendedStays]_mvars

\* What the public can order has been approved as it is, also after an order
\* on the car has been cancelled or refunded.
PublicIsApproved ==
    \A v \in Vehicles :
        row[v] = "live" /\ vehicle[v] = "AVAILABLE" => approved[v] = content[v]
=============================================================================

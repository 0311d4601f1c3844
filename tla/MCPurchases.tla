---------------------------- MODULE MCPurchases ----------------------------
(***************************************************************************)
(* Instances of Purchases and of Marketplace for TLC: one seller, one car, *)
(* and up to three checkout attempts on it.                                *)
(*                                                                         *)
(* A run checks several instances side by side.  They share no state, so   *)
(* each behaviour runs one of them, the part chosen at the start, and the  *)
(* variables of the others stay at their initial values.  The parts are    *)
(*   "orders"     Purchases with the constants of the configuration;       *)
(*   "transfers"  two requests at a time on a bank transfer and a cash     *)
(*                order;                                                   *)
(*   "market"     Marketplace, one purchase and one listing request at a   *)
(*                time;                                                    *)
(*   "calm"       Marketplace, one request of either kind at a time;       *)
(*   "locks"      two requests at a time on a Paystack and a transfer      *)
(*                order, with the handlers that lock rows.                 *)
(***************************************************************************)
EXTENDS Purchases, TLC

CONSTANTS
    Parts,          \* the parts of this run
    w0,             \* the one request of the parts that have one
    w1, w2, car, ann, ben, seller, o1, o2, o3, f1, Nobody

VARIABLES
    part,
    \* Purchases and Marketplace in the parts other than "orders":
    vehicle2, orders2, offers2, paystack2, effects2, req2,
    row2, featured2, content2, approved2, active2, lreq2

SameCar     == [o \in {o1, o2, o3} |-> car]
\* o1 and o3 are attempts of the same buyer.
Buyers      == [o \in {o1, o2, o3} |-> IF o = o2 THEN ben ELSE ann]
Seller      == [v \in {car} |-> seller]
OfferedCar  == [f \in {f1} |-> car]
OfferedAnn  == [f \in {f1} |-> ann]

\* The same for the orders and offers of the configuration.
TheCar       == [o \in Orders |-> car]
TheBuyers    == [o \in Orders |-> Buyers[o]]
TheOfferCar  == [f \in Offers |-> car]
TheOfferAnn  == [f \in Offers |-> ann]
Transfers    == [o \in Orders |-> "MOMO"]
CardCash     == [o \in Orders |-> IF o = o2 THEN "CASH" ELSE "PAYSTACK"]

BankCash    == [o \in {o1, o2, o3} |-> IF o = o2 THEN "CASH" ELSE "BANK_TRANSFER"]
TransferCash == [o \in Orders |-> BankCash[o]]
NoOffers    == [f \in {} |-> car]

EscrowHandlers ==
    {"initiatePurchase", "verifyPurchasePayment", "openDispute",
     "resolveDispute", "confirmReceived", "cancelPurchase", "releasePayout"}
PaystackHandlers == {"verifyPurchase", "paystackWebhook"}
CashHandlers     == {"confirmHandover", "sellerCollected"}
ClaimHandlers    == {"claimPayment", "rejectPurchasePayment", "sellerHandover"}
LockHandlers     == {"claimPayment", "initiatePurchase", "cancelPurchase",
                     "selectBuyer"} \cup PaystackHandlers
AllHandlers      == EscrowHandlers \cup PaystackHandlers \cup CashHandlers
                    \cup ClaimHandlers \cup {"selectBuyer"}

MarketHandlers ==
    {"initiatePurchase", "verifyPurchasePayment", "openDispute",
     "resolveDispute", "confirmReceived", "cancelPurchase", "confirmHandover",
     "sellerCollected"}
SellerHandlers ==
    {"updateVehicle", "deleteVehicle", "reactivateVehicle", "markAsSold",
     "updateListingStatus", "setUserStatus"}

CardMomo == [o \in {o1, o2} |-> IF o = o2 THEN "MOMO" ELSE "PAYSTACK"]

Pair == {o1, o2}
First(S, f) == [o \in S |-> f[o]]

Transfer == INSTANCE Purchases WITH
    Workers <- {w1, w2}, Handlers <- AllHandlers, Vehicles <- {car},
    Orders <- Pair, Offers <- {}, Users <- {ann, ben, seller},
    vehicleOf <- First(Pair, SameCar), buyerOf <- First(Pair, Buyers),
    methodOf <- First(Pair, BankCash), sellerOf <- Seller,
    offerVehicle <- NoOffers, offerBuyer <- NoOffers,
    vehicle <- vehicle2, orders <- orders2, offers <- offers2,
    paystack <- paystack2, effects <- effects2, req <- req2

Locks == INSTANCE Purchases WITH
    Workers <- {w1, w2}, Handlers <- LockHandlers, Vehicles <- {car},
    Orders <- Pair, Offers <- {}, Users <- {ann, ben, seller},
    vehicleOf <- First(Pair, SameCar), buyerOf <- First(Pair, Buyers),
    methodOf <- CardMomo, sellerOf <- Seller,
    offerVehicle <- NoOffers, offerBuyer <- NoOffers,
    vehicle <- vehicle2, orders <- orders2, offers <- offers2,
    paystack <- paystack2, effects <- effects2, req <- req2

Market == INSTANCE Marketplace WITH
    Workers <- {w0}, Handlers <- MarketHandlers, Vehicles <- {car},
    Orders <- Pair, Offers <- {}, Users <- {ann, ben, seller},
    vehicleOf <- First(Pair, SameCar), buyerOf <- First(Pair, Buyers),
    methodOf <- First(Pair, BankCash), sellerOf <- Seller,
    offerVehicle <- NoOffers, offerBuyer <- NoOffers,
    Editors <- {w0}, ListingHandlers <- SellerHandlers,
    ListingLimit <- [s \in {seller} |-> 2], MaxContent <- 2,
    vehicle <- vehicle2, orders <- orders2, offers <- offers2,
    paystack <- paystack2, effects <- effects2, req <- req2,
    row <- row2, featured <- featured2, content <- content2,
    approved <- approved2, active <- active2, lreq <- lreq2

-----------------------------------------------------------------------------
purchases2 == <<vehicle2, orders2, offers2, paystack2, effects2, req2>>
listings2  == <<row2, featured2, content2, approved2, active2, lreq2>>
partVars   == <<vars, part, purchases2, listings2>>

PartsInit ==
    /\ part \in Parts
    /\ Init
    /\ CASE part \in {"market", "calm"} -> Market!Init
         [] part = "locks"              -> Locks!Init
         [] OTHER                       -> Transfer!Init
    /\ Market!MListings

PartsNext ==
    \/ /\ part = "orders"
       /\ Next
       /\ UNCHANGED <<part, purchases2, listings2>>
    \/ /\ part = "transfers"
       /\ Transfer!Next
       /\ UNCHANGED <<part, vars, listings2>>
    \/ /\ part = "market"
       /\ Market!MNext
       /\ UNCHANGED <<part, vars>>
    \/ /\ part = "calm"
       /\ Market!SerialNext
       /\ UNCHANGED <<part, vars>>
    \/ /\ part = "locks"
       /\ Locks!Next
       /\ UNCHANGED <<part, vars, listings2>>

PartsSpec == PartsInit /\ [][PartsNext]_partVars

\* For the part "locks"; in the part "orders" it asks for nothing.
FairPartsSpec == PartsSpec /\ Locks!Fairness

WorkerSymmetry == Permutations({w1, w2})

-----------------------------------------------------------------------------
(* The properties of the other parts.                                      *)

\* PayoutFollowsEscrow, VerdictStands, CashStaysOutside and ReceiptOnce with
\* a transfer among the orders; and, one request at a time, also with the
\* requests of the seller, of the cars that are RESERVED each is held by an
\* order that is paid for or delivered.
OtherParts ==
    /\ part = "transfers" => /\ Transfer!PayoutFollowsEscrow
                             /\ Transfer!VerdictStands
                             /\ Transfer!CashStaysOutside
                             /\ Transfer!ReceiptOnce
    /\ part = "calm" => Market!ReservationHasHolder

\* Every request on an order ends: no set of row locks holds requests up.
LocksLetGo == Locks!RequestsEnd

\* A listing that was taken off the market is not brought back by an order
\* that ends, also with a purchase and a listing request in flight at once.
StaysOffMarket == [][part = "market" => Market!StaysOff]_partVars

\* A seller who is suspended is not brought back to the market by an order
\* that ends.
SuspendedStaysOff == [][part = "calm" => Market!SuspendedStays]_partVars
=============================================================================

---------------------------- MODULE EscrowLedger ----------------------------
(***************************************************************************)
(* What the purchase workflow promises about a buyer's money: it enters    *)
(* escrow once, is awarded once, to the seller or back to the buyer, and   *)
(* an award is never taken back.  A step moves the money of one order.     *)
(***************************************************************************)
CONSTANT Accounts       \* one account per order

VARIABLE money

MoneyState == {"none", "held", "dueSeller", "sentSeller", "dueBuyer"}

LedgerTypeOK == money \in [Accounts -> MoneyState]

LedgerInit == money = [a \in Accounts |-> "none"]

Move(a, from, to) ==
    /\ money[a] = from
    /\ money' = [money EXCEPT ![a] = to]

Deposit(a)     == Move(a, "none", "held")
AwardSeller(a) == Move(a, "held", "dueSeller")
AwardBuyer(a)  == Move(a, "held", "dueBuyer")
PayOut(a)      == Move(a, "dueSeller", "sentSeller")

LedgerNext ==
    \E a \in Accounts :
        Deposit(a) \/ AwardSeller(a) \/ AwardBuyer(a) \/ PayOut(a)

LedgerSpec == LedgerInit /\ [][LedgerNext]_money
=============================================================================

------------------------------ MODULE OrderPage ------------------------------
(***************************************************************************)
(* What the buyer and the seller of one order see and can do in the web    *)
(* client: frontend/src/pages/Checkout.jsx (the buyer orders),             *)
(* PurchaseDetail.jsx (the page of the order), PurchaseReceipt.jsx and     *)
(* components/SlideToConfirm.jsx.                                          *)
(*                                                                         *)
(* A page holds a copy of the order that nothing refreshes.  It offers     *)
(* actions from the copy; the server (purchaseController.js) decides from  *)
(* the row.  calls is what a page has asked, oldest first.  The handlers   *)
(* are one step each here; Purchases shows what they do to one another.    *)
(*                                                                         *)
(* version counts the writes of the row, to compare copies.  A price is a  *)
(* small number.                                                           *)
(***************************************************************************)
EXTENDS Naturals, Sequences, FiniteSets, SequencesExt

CONSTANTS
    Viewers,        \* subset of {"BUYER", "SELLER"}: the pages modelled
    Prices,         \* prices of the listing and of an accepted offer
    Methods,        \* of "BANK_TRANSFER", "MOMO", "CASH", "PAYSTACK"
    MaxWrites,      \* bound on the writes of the order
    MaxPageCalls,   \* bound on the calls of a page
    PageWaits,      \* whether a page waits for its calls before it acts
    InOrder,        \* whether calls are answered in the order asked
    CallsFail       \* whether a request can fail

OrderPageConstants ==
    /\ Viewers \subseteq {"BUYER", "SELLER"}
    /\ Prices \subseteq Nat
    /\ Methods \subseteq {"BANK_TRANSFER", "MOMO", "CASH", "PAYSTACK"}
    /\ {MaxWrites, MaxPageCalls} \subseteq Nat
    /\ {PageWaits, InOrder, CallsFail} \subseteq BOOLEAN

VARIABLES
    price,      \* what the buyer has to pay if they order now
    checkout,   \* the checkout page
    order,      \* the Purchase row
    charged,    \* whether Paystack holds a charge for it
    pages       \* the order pages

pvars == <<price, checkout, order, charged, pages>>

Statuses ==
    {"NONE", "AWAITING_PAYMENT", "HANDOVER_PENDING", "PAID_HELD",
     "DELIVERED", "COMPLETED", "CANCELLED", "REFUNDED"}

Order ==
    [status   : Statuses,
     method   : Methods,
     amount   : Prices \cup {0},
     dispute  : {"NONE", "OPEN", "RESOLVED_BUYER", "RESOLVED_SELLER"},
     handover : BOOLEAN,    \* sellerHandoverAt is set
     chosen   : BOOLEAN,    \* selectedBuyerAt is set
     claimed  : BOOLEAN,    \* claimedAt is set
     payout   : {"NONE", "PENDING", "SENT"},
     version  : Nat]

NoOrder ==
    [status |-> "NONE", method |-> CHOOSE m \in Methods : TRUE, amount |-> 0,
     dispute |-> "NONE", handover |-> FALSE, chosen |-> FALSE,
     claimed |-> FALSE, payout |-> "NONE", version |-> 0]

Sliders == {"confirm-received", "confirm-handover", "seller-handover",
            "seller-collected"}
Buttons == {"cancel", "select-buyer"}
Forms == {"claim-payment", "open-dispute"}
Endpoints == Sliders \cup Buttons \cup Forms

CallKinds == {"first", "reload", "verify"} \cup Endpoints

CallRecord ==
    [kind  : CallKinds,
     reply : {"none", "ok", "pending", "refused"},
     row   : Order]

Page ==
    [open     : BOOLEAN,
     row      : Order,      \* the copy on the page
     calls    : Seq(CallRecord),
     acting   : BOOLEAN,    \* disables the buttons and the sliders
     claiming : BOOLEAN,    \* disables the claim form
     thumb    : {"rest", "dragging", "end"},
     done     : SUBSET Sliders,     \* sliders that say so
     paid     : BOOLEAN,    \* ?paid=1: returned from Paystack
     verify   : {"no", "verifying", "failed"},
     tries    : 0..2]

Closed ==
    [open |-> FALSE, row |-> NoOrder, calls |-> <<>>, acting |-> FALSE,
     claiming |-> FALSE, thumb |-> "rest", done |-> {}, paid |-> FALSE,
     verify |-> "no", tries |-> 0]

OPTypeOK ==
    /\ price \in Prices
    /\ checkout \in [open : BOOLEAN, shown : Prices \cup {0}]
    /\ order \in Order
    /\ charged \in BOOLEAN
    /\ pages \in [Viewers -> Page]

OPInit ==
    /\ price \in Prices
    /\ checkout = [open |-> FALSE, shown |-> 0]
    /\ order = NoOrder
    /\ charged = FALSE
    /\ pages = [v \in Viewers |-> Closed]

-----------------------------------------------------------------------------
(* Checkout: the price is loaded once; the order is placed at whatever the *)
(* server finds.  Card orders are rows of an earlier version.              *)

OpenCheckout ==
    /\ order.status = "NONE"
    /\ checkout' = [open |-> TRUE, shown |-> price]
    /\ UNCHANGED <<price, order, charged, pages>>

ChangePrice(p) ==
    /\ order.status = "NONE"
    /\ p # price
    /\ price' = p
    /\ UNCHANGED <<checkout, order, charged, pages>>

FirstStatus(m) == IF m = "CASH" THEN "HANDOVER_PENDING" ELSE "AWAITING_PAYMENT"

PlaceOrder(m) ==
    /\ order.status = "NONE"
    /\ checkout.open
    /\ m # "PAYSTACK"
    /\ order' = [NoOrder EXCEPT !.status = FirstStatus(m), !.method = m,
                                !.amount = price, !.version = 1]
    /\ UNCHANGED <<price, checkout, charged, pages>>

CardOrder ==
    /\ order.status = "NONE"
    /\ "PAYSTACK" \in Methods
    /\ order' = [NoOrder EXCEPT !.status = "AWAITING_PAYMENT",
                                !.method = "PAYSTACK", !.amount = price,
                                !.version = 1]
    /\ UNCHANGED <<price, checkout, charged, pages>>

-----------------------------------------------------------------------------
(* What the server accepts, and does.                                      *)

Unpaid == {"AWAITING_PAYMENT", "HANDOVER_PENDING"}
Transfer == {"BANK_TRANSFER", "MOMO"}

Accepts(v, e, row) ==
    \/ /\ e = "cancel"
       /\ row.status \in Unpaid \cup {"PAID_HELD", "DELIVERED"}
       /\ row.dispute # "OPEN"
    \/ e = "select-buyer" /\ v = "SELLER" /\ row.status \in Unpaid
    \/ /\ e = "seller-handover" /\ v = "SELLER"
       /\ row.method # "CASH" /\ row.status = "PAID_HELD"
    \/ /\ e = "confirm-received" /\ v = "BUYER"
       /\ row.method # "CASH" /\ row.status = "PAID_HELD"
       /\ row.dispute # "OPEN"
    \/ /\ e = "confirm-handover" /\ v = "BUYER"
       /\ row.method = "CASH" /\ row.status = "HANDOVER_PENDING"
    \/ /\ e = "seller-collected" /\ v = "SELLER"
       /\ row.method = "CASH" /\ row.status = "DELIVERED"
    \/ /\ e = "claim-payment" /\ v = "BUYER"
       /\ row.method \in Transfer /\ row.status = "AWAITING_PAYMENT"
    \/ /\ e = "open-dispute"
       /\ row.method # "CASH" /\ row.status = "PAID_HELD"
       /\ row.dispute = "NONE"

Completed(row) ==
    [row EXCEPT !.status = "COMPLETED",
                !.payout = IF row.method = "CASH" THEN "NONE" ELSE "PENDING"]

Effect(e, row) ==
    CASE e = "cancel"           -> [row EXCEPT !.status = "CANCELLED"]
      [] e = "select-buyer"     -> [row EXCEPT !.chosen = TRUE]
      [] e = "seller-handover"  -> [row EXCEPT !.handover = TRUE]
      [] e = "confirm-received" -> Completed(row)
      [] e = "confirm-handover" -> [row EXCEPT !.status = "DELIVERED"]
      [] e = "seller-collected" -> Completed(row)
      [] e = "claim-payment"    -> [row EXCEPT !.claimed = TRUE]
      [] e = "open-dispute"     -> [row EXCEPT !.dispute = "OPEN"]

Written(row) == [row EXCEPT !.version = @ + 1]

CanWrite == order.status # "NONE" /\ order.version < MaxWrites

-----------------------------------------------------------------------------
(* The rest of the world.                                                  *)

Elsewhere(row) ==
    /\ CanWrite
    /\ order' = Written(row)
    /\ UNCHANGED <<price, checkout, charged, pages>>

\* The staff confirm or reject a transfer, or settle a dispute.
StaffVerifyPayment ==
    /\ order.method \in Transfer /\ order.status = "AWAITING_PAYMENT"
    /\ Elsewhere([order EXCEPT !.status = "PAID_HELD"])

StaffRejectPayment ==
    /\ order.status = "AWAITING_PAYMENT" /\ order.claimed
    /\ Elsewhere([order EXCEPT !.claimed = FALSE])

StaffResolveDispute ==
    /\ order.dispute = "OPEN" /\ order.status = "PAID_HELD"
    /\ \/ Elsewhere([order EXCEPT !.status = "REFUNDED",
                                  !.dispute = "RESOLVED_BUYER"])
       \/ Elsewhere([order EXCEPT !.status = "COMPLETED",
                                  !.payout = "PENDING",
                                  !.dispute = "RESOLVED_SELLER"])

StaffReleasePayout ==
    /\ order.status = "COMPLETED" /\ order.payout = "PENDING"
    /\ Elsewhere([order EXCEPT !.payout = "SENT"])

\* The seller chooses the buyer of another order.
OtherChosen ==
    /\ order.chosen /\ order.status \in Unpaid
    /\ Elsewhere([order EXCEPT !.chosen = FALSE])

\* A card is charged; the webhook tells the server.
Charge ==
    /\ order.method = "PAYSTACK" /\ order.status = "AWAITING_PAYMENT"
    /\ ~charged
    /\ charged' = TRUE
    /\ UNCHANGED <<price, checkout, order, pages>>

PaystackWebhook ==
    /\ charged /\ order.status = "AWAITING_PAYMENT"
    /\ Elsewhere([order EXCEPT !.status = "PAID_HELD"])

-----------------------------------------------------------------------------
(* What a page offers.                                                     *)

\* Variant: a frozen order still offers everything.
OffersFrozen(v, e, row) ==
    \/ /\ e = "select-buyer" /\ v = "SELLER"
       /\ row.status \in Unpaid /\ ~row.chosen
    \/ /\ e = "seller-handover" /\ v = "SELLER"
       /\ row.method # "CASH" /\ row.status = "PAID_HELD" /\ ~row.handover
    \/ /\ e = "confirm-received" /\ v = "BUYER"
       /\ row.method # "CASH" /\ row.status = "PAID_HELD"
    \/ /\ e = "confirm-handover" /\ v = "BUYER"
       /\ row.method = "CASH" /\ row.status = "HANDOVER_PENDING"
    \/ /\ e = "seller-collected" /\ v = "SELLER"
       /\ row.method = "CASH" /\ row.status = "DELIVERED"
    \/ e = "cancel" /\ row.status \in Unpaid \cup {"PAID_HELD", "DELIVERED"}
    \/ /\ e = "open-dispute"
       /\ row.method # "CASH" /\ row.status = "PAID_HELD"
       /\ row.dispute = "NONE"
    \/ /\ e = "claim-payment" /\ v = "BUYER"
       /\ row.method \in Transfer
       /\ row.status = "AWAITING_PAYMENT" /\ ~row.claimed

\* The instructions card stands outside of the frozen block.
Offers(v, e, row) ==
    \/ /\ row.dispute # "OPEN"
       /\ \/ /\ e = "select-buyer" /\ v = "SELLER"
             /\ row.status \in Unpaid /\ ~row.chosen
          \/ /\ e = "seller-handover" /\ v = "SELLER"
             /\ row.method # "CASH" /\ row.status = "PAID_HELD"
             /\ ~row.handover
          \/ /\ e = "confirm-received" /\ v = "BUYER"
             /\ row.method # "CASH" /\ row.status = "PAID_HELD"
          \/ /\ e = "confirm-handover" /\ v = "BUYER"
             /\ row.method = "CASH" /\ row.status = "HANDOVER_PENDING"
          \/ /\ e = "seller-collected" /\ v = "SELLER"
             /\ row.method = "CASH" /\ row.status = "DELIVERED"
          \/ /\ e = "cancel"
             /\ row.status \in Unpaid \cup {"PAID_HELD", "DELIVERED"}
          \/ /\ e = "open-dispute"
             /\ row.method # "CASH" /\ row.status = "PAID_HELD"
             /\ row.dispute = "NONE"
    \/ /\ e = "claim-payment" /\ v = "BUYER"
       /\ row.method \in Transfer
       /\ row.status = "AWAITING_PAYMENT" /\ ~row.claimed

\* A slider that is no longer offered forgets that it was confirmed.
Showing(v, page, row) ==
    [page EXCEPT !.row = row,
                 !.done = {e \in @ : Offers(v, e, row)},
                 !.thumb = IF \E e \in Sliders : Offers(v, e, row)
                           THEN @ ELSE "rest"]

-----------------------------------------------------------------------------
(* Calls of a page.                                                        *)

Asking(page, kind) ==
    [page EXCEPT !.calls =
        Append(@, [kind |-> kind, reply |-> "none", row |-> NoOrder])]

Without(page, k) == [page EXCEPT !.calls = RemoveAt(@, k)]

Set(v, page) ==
    /\ pages' = [pages EXCEPT ![v] = page]
    /\ UNCHANGED <<price, checkout, order, charged>>

\* Returning from Paystack opens the page with ?paid=1.
OpenPage(v, paid) ==
    /\ ~pages[v].open
    /\ order.status # "NONE"
    /\ paid => v = "BUYER" /\ order.method = "PAYSTACK"
    /\ Set(v, Asking([Closed EXCEPT !.open = TRUE, !.paid = paid], "first"))

\* The page is left when nothing is waiting at the server.
LeavePage(v) ==
    /\ pages[v].open
    /\ \A k \in DOMAIN pages[v].calls : pages[v].calls[k].reply # "none"
    /\ Set(v, Closed)

\* The user does something on the page of a loaded order.
Ready(v) ==
    /\ pages[v].open
    /\ pages[v].row.status # "NONE"
    /\ Len(pages[v].calls) < MaxPageCalls
    /\ PageWaits => pages[v].calls = <<>>

Act(v, e, thumb) ==
    /\ Ready(v)
    /\ ~pages[v].acting
    /\ e \in Buttons \cup Sliders
    /\ Offers(v, e, pages[v].row)
    /\ Set(v, Asking([pages[v] EXCEPT !.acting = TRUE, !.thumb = thumb,
                        !.done = @ \cup ({e} \cap Sliders)], e))

Press(v, e) ==
    /\ e \in Buttons
    /\ pages[v].thumb # "dragging"
    /\ Act(v, e, "rest")

SliderIdle(v, e) ==
    /\ e \in Sliders \ pages[v].done
    /\ Offers(v, e, pages[v].row)
    /\ ~pages[v].acting

\* onPointerDown; reaching the far end confirms.
StartDrag(v, e) ==
    /\ Ready(v)
    /\ SliderIdle(v, e)
    /\ pages[v].thumb # "dragging"
    /\ Set(v, [pages[v] EXCEPT !.thumb = "dragging"])

SlideToEnd(v, e) ==
    /\ SliderIdle(v, e)
    /\ pages[v].thumb = "dragging"
    /\ Act(v, e, "end")

\* onPointerUp short of the end snaps back; the click that follows on the
\* same element is the keyboard fallback, which confirms.
LetGo(v, e) ==
    /\ SliderIdle(v, e)
    /\ pages[v].thumb = "dragging"
    /\ Act(v, e, "rest")

SubmitClaim(v) ==
    /\ Ready(v)
    /\ ~pages[v].claiming
    /\ pages[v].thumb # "dragging"
    /\ Offers(v, "claim-payment", pages[v].row)
    /\ Set(v, Asking([pages[v] EXCEPT !.claiming = TRUE], "claim-payment"))

\* "Report a problem" is not disabled while another action is under way.
OpenDisputePrompt(v) ==
    /\ Ready(v)
    /\ pages[v].thumb # "dragging"
    /\ Offers(v, "open-dispute", pages[v].row)
    /\ Set(v, Asking([pages[v] EXCEPT !.acting = TRUE], "open-dispute"))

-----------------------------------------------------------------------------
(* The server answers.                                                     *)

Waiting(v) ==
    {k \in DOMAIN pages[v].calls :
        /\ pages[v].calls[k].reply = "none"
        /\ InOrder => \A j \in 1..(k - 1) : pages[v].calls[j].reply # "none"}

Reply(v, k, reply, row) ==
    pages' = [pages EXCEPT ![v].calls[k].reply = reply,
                           ![v].calls[k].row = row]

GetPurchase(v) ==
    /\ \E k \in Waiting(v) :
        /\ pages[v].calls[k].kind \in {"first", "reload"}
        /\ Reply(v, k, "ok", order)
    /\ UNCHANGED <<price, checkout, order, charged>>

ServeAction(v) ==
    /\ CanWrite
    /\ \E k \in Waiting(v) :
        LET e == pages[v].calls[k].kind
        IN  /\ e \in Endpoints
            /\ Accepts(v, e, order)
            /\ order' = Written(Effect(e, order))
            /\ Reply(v, k, "ok", order')
    /\ UNCHANGED <<price, checkout, charged>>

Refuse(v) ==
    /\ \E k \in Waiting(v) :
        /\ pages[v].calls[k].kind \in Endpoints
        /\ ~Accepts(v, pages[v].calls[k].kind, order)
        /\ Reply(v, k, "refused", NoOrder)
    /\ UNCHANGED <<price, checkout, order, charged>>

VerifyPurchase(v) ==
    /\ \E k \in Waiting(v) :
        /\ pages[v].calls[k].kind = "verify"
        /\ \/ /\ order.status \in {"PAID_HELD", "DELIVERED", "COMPLETED"}
              /\ Reply(v, k, "ok", order)
              /\ UNCHANGED order
           \/ /\ order.status = "AWAITING_PAYMENT" /\ charged /\ CanWrite
              /\ order' = Written([order EXCEPT !.status = "PAID_HELD"])
              /\ Reply(v, k, "ok", order')
           \/ /\ order.status \in {"AWAITING_PAYMENT", "CANCELLED", "REFUNDED"}
              /\ ~(charged /\ order.status = "AWAITING_PAYMENT")
              /\ Reply(v, k, "pending", order)
              /\ UNCHANGED order
    /\ UNCHANGED <<price, checkout, charged>>

FailCall(v) ==
    /\ CallsFail
    /\ \E k \in Waiting(v) : Reply(v, k, "refused", NoOrder)
    /\ UNCHANGED <<price, checkout, order, charged>>

-----------------------------------------------------------------------------
(* The page takes an answer.                                               *)

AnsweredCalls(v, kinds) ==
    {k \in DOMAIN pages[v].calls :
        /\ pages[v].calls[k].kind \in kinds
        /\ pages[v].calls[k].reply # "none"
        /\ InOrder => k = 1}

\* init: verify when the buyer comes back from Paystack and the order still
\* waits; otherwise forget that they did.
TakeFirst(v) ==
    \E k \in AnsweredCalls(v, {"first"}) :
        LET call == pages[v].calls[k]
            page == Without(pages[v], k)
        IN  IF page.paid /\ call.reply = "ok"
               /\ call.row.method = "PAYSTACK"
               /\ call.row.status = "AWAITING_PAYMENT"
            THEN Set(v, Asking([Showing(v, page, call.row) EXCEPT
                                    !.verify = "verifying"], "verify"))
            ELSE Set(v, [Showing(v, page, call.row) EXCEPT !.paid = FALSE])

TakeVerify(v) ==
    \E k \in AnsweredCalls(v, {"verify"}) :
        LET call == pages[v].calls[k]
            page == Without(pages[v], k)
        IN  CASE call.reply = "ok" ->
                    Set(v, [Showing(v, page, call.row) EXCEPT
                                !.verify = "no", !.paid = FALSE])
              [] call.reply = "pending" /\ page.tries < 2 ->
                    Set(v, Asking([page EXCEPT !.tries = @ + 1], "verify"))
              [] OTHER -> Set(v, [page EXCEPT !.verify = "failed"])

\* act: merge the answer and load the order again.
TakeAct(v) ==
    \E k \in AnsweredCalls(v, Buttons \cup Sliders) :
        LET call == pages[v].calls[k]
            page == Without(pages[v], k)
        IN  IF call.reply = "ok"
            THEN Set(v, Asking(Showing(v, page, call.row), "reload"))
            ELSE Set(v, [page EXCEPT !.acting = FALSE])

\* Variant: the order as it was placed is shown again.
TakeReloadKeepOld(v) ==
    \E k \in AnsweredCalls(v, {"reload"}) :
        LET page == Without(pages[v], k)
        IN  Set(v, [Showing(v, page, [page.row EXCEPT !.version = 1]) EXCEPT
                        !.acting = FALSE])

TakeReload(v) ==
    \E k \in AnsweredCalls(v, {"reload"}) :
        LET call == pages[v].calls[k]
            page == Without(pages[v], k)
            row  == IF call.reply = "ok" THEN call.row ELSE page.row
        IN  Set(v, [Showing(v, page, row) EXCEPT !.acting = FALSE])

TakeForm(v) ==
    \E k \in AnsweredCalls(v, Forms) :
        LET call == pages[v].calls[k]
            page == Without(pages[v], k)
            row  == IF call.reply = "ok" THEN call.row ELSE page.row
        IN  Set(v, IF call.kind = "claim-payment"
                   THEN [Showing(v, page, row) EXCEPT !.claiming = FALSE]
                   ELSE [Showing(v, page, row) EXCEPT !.acting = FALSE])

-----------------------------------------------------------------------------
World ==
    \/ OpenCheckout \/ CardOrder \/ Charge \/ PaystackWebhook
    \/ StaffVerifyPayment \/ StaffRejectPayment
    \/ StaffResolveDispute \/ StaffReleasePayout \/ OtherChosen
    \/ \E p \in Prices : ChangePrice(p)
    \/ \E m \in Methods : PlaceOrder(m)

UserDoes(v) ==
    \/ \E paid \in BOOLEAN : OpenPage(v, paid)
    \/ LeavePage(v) \/ SubmitClaim(v) \/ OpenDisputePrompt(v)
    \/ \E e \in Endpoints :
        Press(v, e) \/ StartDrag(v, e) \/ SlideToEnd(v, e) \/ LetGo(v, e)

Answers(v) ==
    GetPurchase(v) \/ ServeAction(v) \/ Refuse(v) \/ VerifyPurchase(v) \/ FailCall(v)

PageTakes(v) ==
    TakeFirst(v) \/ TakeVerify(v) \/ TakeAct(v) \/ TakeReload(v) \/ TakeForm(v)

OPNext ==
    World \/ \E v \in Viewers : UserDoes(v) \/ Answers(v) \/ PageTakes(v)

OPSpec == OPInit /\ [][OPNext]_pvars

\* A request is answered, and the answer is taken.
PageFairness ==
    \A v \in Viewers : WF_pvars(Answers(v)) /\ WF_pvars(PageTakes(v))

-----------------------------------------------------------------------------
\* A page that is up to date offers nothing the server would refuse: the
\* rules of the page and those of the handlers agree in every state the
\* order reaches (PurchaseDetail.jsx:482-484, purchaseController.js).
OfferedIsAccepted ==
    \A v \in Viewers : \A e \in Endpoints :
        Offers(v, e, order) => Accepts(v, e, order)

\* What a page shows of the order never goes back to an older state.
GoesForward ==
    \A v \in Viewers :
        (pages[v].open /\ pages'[v].open)
        => pages[v].row.version <= pages'[v].row.version

PageNeverGoesBack == [][GoesForward]_pages

\* When nothing is under way, a slider that says "Receipt confirmed",
\* "Handover confirmed", "Handover marked" or "Sale closed" says what is
\* true of the order (PurchaseDetail.jsx, SlideToConfirm.jsx:85).
LabelIsTrue(e, row) ==
    CASE e = "confirm-received" -> row.status = "COMPLETED"
      [] e = "confirm-handover" -> row.status \in {"DELIVERED", "COMPLETED"}
      [] e = "seller-handover"  -> row.handover
      [] e = "seller-collected" -> row.status = "COMPLETED"

ConfirmLabelIsTrue ==
    \A v \in Viewers : pages[v].calls = <<>>
                       => \A e \in pages[v].done : LabelIsTrue(e, order)

\* A slider confirms only when it was slid to the far end
\* (SlideToConfirm.jsx:4-8, 52).
SlideIsDeliberate ==
    [][\A v \in Viewers : pages'[v].done \ pages[v].done # {}
                          => pages'[v].thumb = "end"]_pages

\* The flag of the return from Paystack is dropped only for an order that
\* is settled (PurchaseDetail.jsx:95).
PaidFlagIsKept ==
    [][\A v \in Viewers :
        (pages[v].paid /\ pages'[v].open /\ ~pages'[v].paid)
        => order.status # "AWAITING_PAYMENT"]_pages

\* The buyer orders at the price the checkout shows (Checkout.jsx:41-42).
ChargedAsShown ==
    order.status # "NONE" /\ order.method # "PAYSTACK"
    => order.amount = checkout.shown

\* The receipt calls an order a cash order only when it is
\* (Checkout.jsx:265).
ReceiptSaysCash(row) == row.method # "PAYSTACK"
ReceiptTellsMethod ==
    (order.status \in {"PAID_HELD", "DELIVERED", "COMPLETED"}
     /\ ReceiptSaysCash(order)) => order.method = "CASH"

\* The buttons of a page do not stay disabled.
ActingEnds == \A v \in Viewers : pages[v].acting ~> ~pages[v].acting

\* The verification of a card payment ends.
VerifyEnds ==
    \A v \in Viewers : (pages[v].verify = "verifying")
                       ~> (pages[v].verify # "verifying")
=============================================================================

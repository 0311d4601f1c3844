# A verification of the SikaRide marketplace

SikaRide is a car marketplace: sellers list cars, buyers order them, money is
held in escrow until the car has changed hands. The server (`backend/src`) is
one Node/Express process over PostgreSQL (Prisma), the client (`frontend/src`)
a React application.

There is no locking in the program. A handler gives way to others at every
`await`, every transaction runs at READ COMMITTED, and the protection there is
consists of *claims*: an `updateMany` with the expected old status in its WHERE,
of which one caller wins. Some handlers claim; others check a row they have read
and update it by id later. In the browser a page keeps a copy of what it once
fetched, several requests are under way at once, none is cancelled, and pushes
arrive beside the answers. This project models what follows from that.

## 1. Inventory

The lines are those of `backend/src/controllers` unless a path says otherwise.

| Component | State | Operations | Hard behaviour | What makes it correct | Module |
|---|---|---|---|---|---|
| Purchases and escrow: `purchaseController`, `adminController` 1009-1221, `billingController` 305-318 | `Purchase` rows, `Vehicle.status`, `PriceOffer.status` | checkout, claim and confirmation of a payment, handover, dispute and verdict, completion, payout, cancellation, choice of a buyer | every pair of requests on one order or one car; stale reads; two orders locked in opposite orders; repeated webhooks | money is escrowed once and awarded once; settled orders stay settled; a dispute freezes the money; a car is held by somebody or free | `Purchases`, `EscrowLedger` |
| Listings: `vehicleController`, `adminController` 402-486, 868-915 | `Vehicle` rows | create, edit, close, wipe, reactivate, mark sold, approve, take down, feature, suspend the seller | edits write a status computed from a row read earlier; limits counted before the insert | a sale is finished and never resurrected; nothing is public that was not approved | `Listings`, `Marketplace` |
| Price offers: `offerController`, `OfferPanel.jsx` | `PriceOffer` chain of a buyer and a car | make, accept, decline, counter, withdraw | both sides answer one offer; two offers at once | one open offer, one answer, an agreed price is used once | `Offers` |
| Plans: `billingController`, `adminController` 808-862, `BillingCallback.jsx` | `Payment`, `Subscription`, `Vehicle.expiresAt` | create, initialize, verify, webhook, approve, reject | verify, webhook and approval of one payment at once; two payments of one seller at once; crashes in between | a payment adds its days once, and is not lost | `Billing`, `PlanCredit` |
| Expiry notices: `jobs/expiry.js` | `Vehicle.expiresAt`, a timer per process | sweep | restarts, several processes, late timers | every lapse announced, and once | `ExpirySweep` |
| Accounts: `authController`, `authMiddleware.js` | `User`, `AuthToken`, sessions | register, confirm, sign in, reset, change the password, staff code, roles, suspension | find-then-delete of tokens; seconds of `iat` | a token is used once; an old session dies with its password | `Accounts` |
| Listing cache: `services/cache.js`, `vehicleController` 225-391 | version, Redis entries | read through, bump, expire | a page read before a bump and stored after it; loss of Redis; restart | no page is older than an answered write | `ListingCache` |
| Reviews: `reviewController`, `ReviewForm.jsx` | `Review`, the seller's rating | review a completed order | aggregate read without a lock; two tabs | one review per order, the rating is their average | `Reviews` |
| Messages: `messageController`, `notificationController`, `eventBus`, `EventContext.jsx`, `Messages.jsx`, `NotificationsDropdown.jsx` | `Message`, `Notification`, listeners, badges, an open thread | send, read, list, delete, push | answers and pushes in any order, lost streams, restarts between two writes | badges are what the database counts | `Chat` |
| Messages to many: `adminController` 34-235, `AdminDashboard.jsx` | the same rows, and a request's recipients | bulk message, announcement to inboxes or bells | pages read by cursor, batches read back by id, users that leave | everyone asked for is reached, once | `SupportBroadcast` |
| Order page: `Checkout.jsx`, `PurchaseDetail.jsx`, `PurchaseReceipt.jsx`, `SlideToConfirm.jsx` | a copy of the order, sliders, forms | order, pay, confirm, claim, dispute, verify on return from Paystack | several answers under way; the page's rules and the server's | what is offered is accepted; the page does not go back | `OrderPage` |
| Staff desk: `AdminDashboard.jsx`, `adminController`, `adminRoutes.js` | tabs, lists, buttons, two pagers | fetch, press, repaint, page, filter | copies of rows that other desks change; a fetch that causes a fetch | what is offered is permitted and fits the row; what is painted is true | `AdminDesk`, `DeskPager` |
| Session: `AuthContext.jsx`, `utils/api.js`, `Login.jsx`, `Profile.jsx` | the token in localStorage, the user each tab shows | sign in and out, load, refusals, profile, password | token and user are kept apart and dropped apart | a tab acts as the user it shows; a refusal is seen | `Session` |
| Paystack (external) | charges by reference | initialize, verify, webhook | repeated and late notifications | — | in `Purchases`, `Billing` |
| `config/plans.js`, favourites, reports, images, mail, push, storage, audit, routing, validation, other pages | rows without a protocol, or none | single-row writes and I/O | — | — | — |

Interactions. *Purchases* writes the status of a *Listing* and seals a *Price
offer*; *Billing* shares the Paystack webhook with *Purchases* and lifts a
listing's expiry; *Listings* asks *Billing* for the plan and bumps the *Listing
cache*, which *Purchases* does not; *Reviews* need a completed order; every
component emits notices that nobody waits for. All of them share the database
and nothing else. `Marketplace` composes `Purchases` and `Listings` over
`Vehicle.status`, the one place where two components write the same column
against each other; elsewhere a component appears in another as the few values
it can return (an accepted price in `Purchases`, a subscription that may end in
`Offers`, an order that completes in `Reviews`).

## 2. Modules

| Module | Models | Built on |
|---|---|---|
| `Purchases` | the purchase endpoints, at the granularity of awaits and row locks | |
| `EscrowLedger` | the account of an order that `Purchases` implements | |
| `Listings` | the listings of sellers and what administrators do to them | |
| `Marketplace` | orders and listings on one `Vehicle.status` | `Purchases`, `Listings` |
| `Offers` | the negotiation of one buyer on one car | |
| `Billing` | payments and the plan of one seller | |
| `PlanCredit` | the days a seller has left, which `Billing` implements | |
| `ExpirySweep` | the daily announcement of lapsed listings | |
| `Accounts` | one account: tokens, password, sessions | |
| `ListingCache` | the cached lists | |
| `Reviews` | the reviews of one seller, and the form | |
| `Chat` | messages and notifications of one user, rows to screen | |
| `SupportBroadcast` | messages of an administrator to many | |
| `OrderPage` | the pages of one order | |
| `AdminDesk`, `DeskPager` | the staff desk and its pagers | |
| `Session` | the token and the tabs of one browser | |
| `PurchasesProofs`, `ListingsProofs`, `BillingProofs` (with `ExpirySweep`), `AccountsProofs`, `MarketplaceProofs` | the theorems about the module they are named after | that module, TLAPS |
| `ServicesProofs` | the theorems about `Offers`, `ListingCache`, `Reviews` | the three, TLAPS |
| `ScreensProofs` | the theorems about `Session`, `OrderPage`, `AdminDesk` | the three, TLAPS |
| `BroadcastProofs` | the theorems about `SupportBroadcast` | it, TLAPS |
| `MCPurchases` | the instances of orders that TLC checks | `Purchases`, `Marketplace` |
| `MCServices` | the instances of the server's other components | the seven from `Listings` to `Reviews` |
| `MCScreens` | the instances of the pages | the six from `Chat` to `Session` |
| `MCLive` | the instances checked under fairness | `MCScreens`, `Billing`, `ExpirySweep`, `ListingCache` |

### How the runs are composed

Each MC module holds several components, some of them in several instances, and
a variable `part` that is chosen at the start and never changes says which one a
behaviour runs. The variables of the others stay at one fixed initial value. The
parts share no variable, so the state graph is the disjoint union of theirs: a
component's invariant is an invariant of the union if and only if it is one of
its part (at rest the others satisfy it), and the same holds of action
properties and, since no fair action of a part at rest is enabled, of liveness.
Where two components do share state, they are composed for real (`Marketplace`).

`MCPurchases` extends `Purchases`, `MCServices` the seven components it holds, and
`MCScreens` four of its six: their parts take the constants of the configuration,
and a run names the component's own property, the one the theorems are about. The
parts that need other constants, and components whose names collide (`Chat`,
`DeskPager`), are instances (`Transfer`, `Market`, `Locks`, `Limit`, `CC` to `BL`
in `MCScreens`, all of `MCLive`); their properties are bundled in the MC module.

A statement is checked where the code keeps it. A check-then-act handler keeps
its promise as long as requests come one at a time; such a promise is checked in
`one_by_one` or `services_one_by_one` (for two components in the part "calm"),
with one request and more rows. What survives every interleaving of two requests
is checked in `orders` and `services`.

Definitions whose comment begins with *Variant* are not used by any
specification. Each is a plausible bug of the definition that follows it;
`PROJECT.json` ("mutants") names, for every property of a passing run, a variant
that violates the property when it takes that definition's place.

## 3. Runs

`tlc -workers 2 -config <module>_<run>.cfg <module>`

| Run | Module | Parts | Shows |
|---|---|---|---|
| `orders` | `MCPurchases` | orders, transfers, market, calm | what two racing requests keep on a card and a cash order (`TypeOK`, `PayoutFollowsEscrow`, `VerdictStands`, `CashStaysOutside`, `ReceiptOnce`, `SettledIsFinal`, `SoldUntilRefund`, `ImplementsLedger`); the same on a transfer, and that a reserved car has a holder also with the seller's requests (`OtherParts`); a listing that was closed stays closed when its orders end (`StaysOffMarket`) |
| `one_by_one` | `MCPurchases` | orders, locks | three orders and an agreed price, one request at a time (`OrdersOneByOne`); two requests on two orders end, also when two selections wait for each other (`LocksLetGo`) |
| `freeze` | `MCPurchases` | orders | violated: a dispute does not freeze what a suspended request moves |
| `suspended_back` | `MCPurchases` | calm | violated: a suspended seller's car returns to the market |
| `services` | `MCServices` | all but limit | what two racing requests keep in the server's other components |
| `services_one_by_one` | `MCServices` | listings, limit, offers, plans, accounts | what one request at a time keeps |
| `lost_days` | `MCServices` | plans | violated: two payments at once add the days of one |
| `version_restart` | `MCServices` | cache | violated: a restart brings stale pages back |
| `rating` | `MCServices` | reviews | violated: two reviews at once leave a wrong average |
| `screens` | `MCScreens` | all but the live ones | the safety of the pages and of the broadcasts |
| `live` | `MCLive` | live ... | charges become plans, lapses are announced, the cache settles, unread messages reach the badge, pages settle |
| `session_silent` | `MCScreens` | session | violated: a tab without a token fails silently |

### What the properties say

- `OrdersOneByOne`. Only escrowed money is in dispute, a payout is sent once, a
  buyer has one open order on a car, one buyer is chosen, an agreed price is used
  once, a RESERVED car has a holder.
- `AvailableWasApproved`, `ContentApproved`. No race makes a listing public that
  no administrator ever approved; one request at a time, what is public is the
  approved text.
- `ListingsStayClosed`. A sold listing is not brought back by an edit, only a
  closed one is wiped, a suspended seller lists nothing.
- `LimitKept`. Creations, closures and sales keep the plan's limit.
- `RepliesCloseOffers`, `OneLiveOffer`, `AnsweredOnce`. Chains of counter-offers
  alternate and stay closed behind the last, in any race; one open offer and one
  answer, one by one.
- `NoDoubleExtend`, `AddsUp`, `SubscriberNeverLapses`. However many confirmations
  of one payment arrive, the plan is no longer than paid for; one by one the days
  add up (the plan implements `PlanCredit`) and no listing of a subscriber lapses.
- `NoticesBounded`. At most one notice per start of a process.
- `SessionsAreConfirmed`, `TokensAreSpent`. No session before the mailbox is
  confirmed; one use per token, one live token of a kind, and sessions die with
  the password by the next second, except that `upgradeToSeller` signs a new one
  for a holder of one that survives.
- `NeverStale`. No page is older than a write answered before it was asked for,
  with hits, misses, late stores, expiry and loss of Redis.
- `OneReviewPerOrder`, `RaceIsHealed`. One review per order, also from two tabs;
  a review stored alone sets the right average whatever a race has left before.
- `ServerSettles`. A successful charge becomes a plan through retries and crashes,
  the lapse of a listing that stays on the market is announced while the timer is
  on time, requests to a listing page are
  answered and stale entries of the current version disappear.
- `BadgesAreRight`. For a user who goes on while requests are under way, answered
  in the order asked: at rest the badges are the counts of the database, and an
  open chat shows its own thread. Through dropped streams and restarts, with
  answers in any order, a message is notified at most once.
- `OfferedIsAccepted`, `PageNeverGoesBack`. The server accepts what the page
  offers, while the order is still so; however many calls of a page overlap, no
  answer shows an older order, as long as answers come in the order asked.
- `DeskIsTrue`. Tabs load, buttons are permitted and fit the row, repaints show
  what was written, the pager's label is the page of its rows.
- `OneVerdictPerUpload`, `EveryoneReached`, `ActsAsShown`. Two desks do not both
  judge a photo when their requests do not overlap; a delivery reaches everyone
  asked for, once, also while users are suspended (of a bulk message) or deleted
  (of an announcement); a signed-in tab calls as the user it shows.
- `UnreadReachesBadge`, `ScreensSettle`. Liveness of badges, buttons, spinners,
  verifications and pagers.

## 4. State and steps

A handler is cut at its awaits. A `...Read` (or `Check`) step reads the rows and
passes the checks; a request that fails them changes nothing and is left out, or
is answered when somebody waits for the answer. The further steps are named
after what is written. Between two steps any other request may run. `Fail`,
`Abandon`, `RollBack` and `Crash` end a request before its next write: a database
error, a transaction limit, a restart; an open transaction is rolled back.

**Purchases.** `vehicle[v]` is `Vehicle.status`. `orders[o]` is a row of
`Purchase`: status, dispute and payout columns; `claimed`, `selected`, `handed`,
`paid` say that `claimedAt`, `selectedBuyerAt`, `sellerHandoverAt`, `paidAt` are
not null; `deal` is `agreedOfferId`; status `ABSENT` means that the checkout has
not inserted its row. `offers[f]` is `PriceOffer.status` from `ACCEPTED` on.
`paystack[o]` is what Paystack knows of the reference. `req[w]` is a request in
flight: the await it stands at, its order, the status and the offer it read, the
rows it has deselected and not committed. `effects[o]` is what left the system.
An order stands for one checkout attempt; method, buyer and car are constants of
the attempt. An update by id or a claim is one step on the row as it is at that
moment, taken only while nobody else holds the row's lock. A transaction whose
statements can be usefully interleaved is split: `initiatePurchase` into
duplicate check, offer read and insert; `cancelPurchase` into its claim, with the
count of other holders, and its commit; `selectBuyer` into clearing the others
and setting its flag; what it has written and not committed is in `req[w]`,
invisible to readers and locked (`Holds`). The other transactions start with
their claim and write only rows on which no later condition depends: one step.

**EscrowLedger** has an account per order, `none` → `held` → `dueSeller` →
`sentSeller`, or `held` → `dueBuyer`; a step moves one account. `MoneyOf(o)`
computes it from the row; a paid row whose status accounts for no money maps to
`lost`, which is no state of the ledger.

**Listings, Marketplace.** `row[v]` says whether there is a row, `content` and
`approved` number the texts; `lreq[w]` is a request with the status it has read.
`Marketplace` takes the steps of `Purchases` and of `Listings` on one `vehicle`;
its `SerialSpec` admits one request of either kind at a time.

**Offers.** The chain is a sequence of rows; `order` is the one that used an
offer; `asking`, `onMarket` and `subscribed` are what other components change.
A new offer's transaction is three steps: its UPDATE finds the open rows, waits
while another request holds one of them, and withdraws those it found that are
still open; rows inserted meanwhile it does not see.

**Billing, PlanCredit, ExpirySweep.** Days are small numbers; `charge` is what
Paystack holds, `hook` the deliveries to come, `lapse` the expiry of a free
listing, `page` the callback page. The mapping to `PlanCredit` is `DaysLeft`. In
`ExpirySweep` a day is several ticks, so that a sweep can be late, and `listed`
says whether the listing is AVAILABLE, which orders and administrators change.

**Accounts.** A second is several ticks. A session has the second `iat` it was
signed in, the password it was let in with, and `since`, the `iat` of the session
it was given for by `upgradeToSeller` (its own, if by a sign-in); `protect`
compares `iat` with the second of the change.

**ListingCache.** An answer is "as of commit n"; a key is a version and a query.

**Reviews.** A review's transaction is four steps; the unique key and the
seller's row are its locks. `alone` says that no other request overlapped.

**Chat.** `calls` of a tab are its requests, oldest first, with what the server
had read; an answer is applied to whatever the tab shows by then.

**SupportBroadcast.** A request reads recipients page by page, then delivers
batch by batch: largest id, insert, read back, push and notify.

**OrderPage, AdminDesk, DeskPager.** A page offers from its copy; the handler
decides from the row, in one step (their races are `Purchases` and
`Interleaved`). The answer replaces or repaints the copy.

**Session.** A token is the number of the session it was signed for; a call
carries the token that was stored when it was sent.

Left out everywhere: amounts and texts that no decision depends on, who the
caller is where some authorised caller exists for every request, the audit log,
and reads that change nothing.

## 5. Bounds

Two requests in flight show every pairwise conflict: the checks, claims and locks
of a handler concern its own row, or one other row of the same car, seller or
user. A race that needs three requests at once is outside the runs; where
a theorem of section 8 states the property it holds for any number. Two orders on one car
show conflicts between orders; the third order of `one_by_one` makes a second
attempt of the same buyer possible. Two offers in a race and four one by one
allow a counter to a counter; two payments overlap or follow each other; two
listing slots and three cars exceed a limit; two days of a plan and a clock that
moves tell an extension from a fresh start; two processes and one restart repeat
a sweep; two commits and two reads make a page older than one write and newer
than another; four users in batches of two give two pages and two batches; three
pages have a first, a middle and a last. One message more than a page of
notifications is what splits badges. Bounds on clicks, calls, edits and writes
only end behaviours: each exceeds by one the shortest behaviour of the instance
that needs them. Requests that differ only in name are symmetric, used where no
liveness is checked. `CHECK_DEADLOCK FALSE` everywhere: when everything is
settled, or a bound is reached, the system rests.

## 6. Fairness

Nothing is assumed of users, administrators or other people's messages. Assumed
is that what the server and the browser have begun goes on.

- `Purchases`: strong fairness for a request's steps (PostgreSQL grants a
  contended row lock in turn, so a step that is possible again and again is
  taken) and weak fairness for the limit of a transaction (`timeout: 15000`, or
  Prisma's 5 s). `LocksLetGo` needs the limit: two `selectBuyer` transactions
  wait for each other for good without it.
- `Billing`: a webhook that is repeated is read in the end (strong, a crash may
  interrupt it), and an applied payment is committed. Paystack repeats its
  delivery until it is answered, which is what makes a crash harmless.
- `ExpirySweep`: time goes on and the timer fires, no later than `Delay`, which
  is 0 in `live`.
- `ListingCache`: requests take their steps, writers finish, entries expire.
- `Chat`, `OrderPage`, `AdminDesk`, `DeskPager`, `SupportBroadcast`: the server
  answers and the browser takes answers. Answers are in the order asked, and the
  user waits for them, in the live parts of `Chat` and `DeskPager`; without that
  `UnreadReachesBadge` and `FetchingEnds` fail (section 7).

## 7. Found while modelling

Six statements of the repository that the code does not keep have a run of their
own; `PROJECT.json` quotes them.

| Run | What happens |
|---|---|
| `freeze` | `confirmReceived` or `cancelPurchase` has read the order before the dispute was opened, and moves the money after |
| `suspended_back` | a reserved listing is not taken down with its seller and is AVAILABLE again when its order ends |
| `lost_days` | two payments of one seller read the same subscription; one plan's days are lost |
| `version_restart` | the cache version is initialised before Redis is connected, so it starts from 0 at each boot and meets entries of the boot before |
| `rating` | two reviews at once each average without the other |
| `session_silent` | a refusal on `/login` drops the token of a tab that goes on showing its user; later refusals find no token to drop and redirect nobody |

The others are stated in the modules and fail in the instances below (the
module's own specification, with the constants given; the rest as in the MC
module). They are kept as definitions because they say what a repair has to
establish.

| Module: statement | Instance in which it fails | What happens |
|---|---|---|
| `Purchases`: `DisputeIsOnEscrow` | 2 workers, 1 transfer | `openDispute` updates by id after the order has been settled, also over a verdict given meanwhile; nothing can resolve that dispute |
| `PayoutSentOnce` | 2 workers, 1 transfer | two administrators release one payout and are both told so |
| `OneOpenOrderPerBuyer` | 2 workers, orders o1, o3 | two checkouts both find no open order |
| `AgreedPriceUsedOnce` | the same with an offer | both read the accepted offer before either seals it |
| `OneChosenBuyer` | 2 workers, orders o1, o2 | two selections clear before either sets |
| `ReservationHasHolder` | 2 workers, 2 transfers | a cancellation decides on the status it read before its transaction, or two cancellations count each other: the car stays RESERVED for nobody |
| `HeldCarOffMarket` | 1 worker, 2 transfers | a refund puts the car on the market although another paid order holds it |
| `CancelledIsBackOnSale`, `OrderReservesCar` | 1 worker, 2 transfers | texts of the order page and of checkout that the workflow does not keep |
| `Listings`: `ContentApproved`, `SoldSurvives`, `WipesClosed` | 2 editors, 1 car | a write computed from a row read earlier overwrites the newer status, or wipes a listing that is back |
| `WithinLimit` | 1 editor, 2 cars, limit 1, with `reactivateVehicle` | close, create, reactivate: only the creation counts |
| `Marketplace`: `PublicIsApproved` | `SerialSpec`, 1 order | a refund makes a listing public whose text was edited while it was reserved |
| `Offers`: `OneLiveOffer`, `AnsweredOnce` | 2 callers | two offers at once stay open; an answer overwrites an answer |
| `ShownPriceIsCharged` | 1 caller, 3 offers | the panel shows the first accepted offer, checkout charges the latest |
| `PayableIsBest` | 1 caller, asking price 3 | an accepted offer is charged after the asking price fell below it |
| `Billing`: `ShownActiveIsActive` | 1 worker, 1 payment | the callback page reports success for a payment that was rejected |
| `SubscriberNeverLapses` | 2 workers, 1 payment | a listing created while the payment is applied gets the expiry of a free one |
| `ExpirySweep`: `AnnouncedOnce` | 1 restart | the sweep after a restart announces again |
| `Announced` | `Delay = 1` | a late timer leaves a gap between two look-backs |
| `AnnouncedWhenBack` | 1 process | a listing that was RESERVED when it lapsed is back when the look-back has passed |
| `Accounts`: `TokenUsedOnce` | 2 handlers | both find the token before either deletes it |
| `OneLiveToken` | 2 handlers, 2 tokens | retiring and issuing are two statements |
| `RevokedInstantly` | 2 handlers | a session of the same second, of a sign-in that was slow, or that `upgradeToSeller` gives for one of these, survives the change |
| `RetiredIsDead` | 2 handlers, 2 changes | a link looked up before the change is used after it |
| `Chat`: `BadgeIsDatabaseCount` | `InOrder = FALSE`, or two tabs | the older count stays; the other tab is not told |
| `PageShowsItsThread` | `Hasty = TRUE`, `InOrder = FALSE`, 2 threads | the messages of the thread that was left are shown in the one that is open |
| `BadgesAreSplitByKind` | `PageSize = 1`, 2 notes | messages beyond the page of notifications count as bells |
| `OpenChatIsComplete`, `OpenChatIsRead`, `ListIsFresh` | 1 thread | a push overtakes the answer or the notification it belongs to |
| `BadgeClearsWhenAllRead` | with "erase" | the notifications of deleted messages stay |
| `SupportIsOnlyAnswered` | with "erase", "post" | a reply checked before the thread is deleted starts it anew |
| `OrderPage`: `PageNeverGoesBack` | `PageWaits = FALSE`, `InOrder = FALSE` | the answer of a verification that was read earlier replaces a newer order |
| `ConfirmLabelIsTrue`, `SlideIsDeliberate` | two viewers | a slider says "confirmed" after a refusal; the click after a slide let go confirms |
| `PaidFlagIsKept` | `CallsFail = TRUE` | a first load that fails drops the mark of the return from Paystack |
| `ChargedAsShown`, `ReceiptTellsMethod` | prices 1, 2 | the order is placed at a price that changed since it was shown; a transfer's receipt says "Cash" |
| `AdminDesk`: `OfferedIsPermitted` | role STAFF | the read-only role is drawn buttons that the server refuses |
| `OneVerdictPerUpload` | `Interleaved = TRUE`, 2 desks | both verdicts pass the check |
| `ApprovedPhotoWasShown`, `ReviewerSeesPhoto` | kind photo | the photo is named by its user; a MANAGER is not shown it |
| `FeaturedAsTold`, `RenameKeepsRole` | 2 desks | a toggle, or a form with every field, undoes the other desk |
| `TakenDownIsTakenDown`, `DeleteRemovesUser` | 1 desk | a restored listing stays in the tab; a user with an order cannot be deleted |
| `DeskPager`: `ShowsWanted`, `LogsMatchFilter`, `NextMoves`, `FetchingEnds` | `Patient = FALSE` | the last answer wins whichever was asked last; two answers under way move the audit log back and forth without end |
| `SupportBroadcast`: `ToldOncePerMessage`, `CountIsTrue` | `OneAtATime = FALSE`; `MaxDirect = 1` | the window of ids takes in rows of another request |
| `EveryoneReached`; `FailedReachedNobody` | `Changes` "off"; "gone", with "inbox" | a page skips a user when the one at the cursor was suspended; a failed delivery has reached its first batches |
| `ListingCache`: `NeverStale` | `PurchaseWrites = TRUE` | orders do not bump the version |
| `OnlyAvailable` | query "ranked" | the second query of a ranked list does not ask for the status |
| `Reviews`: `ShowsStarsGiven` | 1 order | the form of a reviewed order, loaded again, has no stars |
| `Session`: `ActsAsShown` | `TabWaits = FALSE`, or two tabs | a sign-in answered late, or in the other tab, replaces the token under the user shown |
| `OnlyStaleDropped` | `MayFail = TRUE`, or two tabs | a network error at the first load drops a good token; so does a late refusal of the session before |

## 8. Proofs

| Module | Assumes | Proved in every interleaving | Proved one request at a time |
|---|---|---|---|
| `PurchasesProofs` | `ConstantTypes` | `TypeOK`, `PayoutFollowsEscrow`, `VerdictStands`, `ReceiptOnce`, `CashStaysOutside`, `SettledIsFinal`, `SoldUntilRefund`, `ImplementsLedger` | `OrdersOneByOne`, `DisputeFreezes` |
| `ListingsProofs` | nothing; for the limit `LimitConstants` | `LTypeOK`, `AvailableWasApproved`, `FewOverLimit` | `ContentApproved`, `ListingsStayClosed`, `WithinLimit` |
| `MarketplaceProofs` | `ConstantTypes` | `PayoutFollowsEscrow`, `VerdictStands`, `ReceiptOnce`, `CashStaysOutside`, `SettledIsFinal`, `ImplementsLedger`, `OffMarketStaysOff` | `OrdersOneByOne` |
| `BillingProofs` | `BillingConstants`; `SweepConstants` | `BTypeOK`, `NoDoubleExtend`; of `ExpirySweep` `STypeOK`, `NoticesBounded` | `SubscriberNeverLapses`, `AddsUp` |
| `AccountsProofs` | `AccountConstants` | `ATypeOK`, `SessionsAreConfirmed` | `TokensAreSpent` |
| `ServicesProofs` | `OfferConstants` | `OTypeOK`, `RepliesCloseOffers` | `OneLiveOffer`, `AnsweredOnce` |
| | `ListingCacheConstants` | `CacheTypeOK`; `NeverStale` until the first restart, orders aside | |
| | nothing, of `Reviews` | `OneReviewPerOrder`, `RaceIsHealed` | |
| `ScreensProofs` | nothing, of `OrderPage` | `OfferedIsAccepted` | |
| | `OrderPageConstants`, `Methods # {}` | | `OPTypeOK`, `PageNeverGoesBack` (the page waits, or answers come in the order asked) |
| | one tab, of `Session` | | `ActsAsShown` (the user waits) |
| | nothing, of `AdminDesk` | | `OneVerdictPerUpload` (`~Interleaved`, any number of desks) |
| `BroadcastProofs` | `SupportBroadcastConstants` | `OneRowEach`; `EveryoneReached` for bulk messages, and for announcements if nobody is suspended | `ToldOncePerMessage`; `CountIsTrue` if nobody is deleted (an administrator awaits each answer and sends no single messages) |

The assumptions give the constants their types and say which sets are finite and
which numbers positive; the bounds of the runs are among the constants, so a
theorem covers every value of them. `MCServices` evaluates them on its
instances. `OrdersOneByOne` assumes one thing more, `OldOrdersDiffer`: the card
orders that exist at the start are not two of one buyer on one car.

The third column is about the code as it runs. The server's theorems of the fourth
have the form `Spec /\ []OneRequest => ...`, where `OneRequest` says that at most one
request is between its first read and its answer. Nothing in the code enforces
that. They separate the two ways a handler can be wrong: with `OneRequest` the
guards of the handlers are sufficient, so that the counterexamples of section 7
(and the runs `freeze` and `lost_days`) are races and nothing else. The runs
`one_by_one` and `services_one_by_one` show the same on instances; in them
requests do follow each other, so the hypothesis is met by long behaviours.

### Orders, all interleavings

None of the properties is inductive. A request writes on the strength of
something it read earlier, so the invariant `IInv` must say what is still true of
an order when a suspended request comes back to it:

- `AllRowsInv`: which rows exist at all for an order of a given method; for
  instance a row with a dispute has been paid for, and money that is paid in
  stays visible in the status;
- `AllRelyInv`: what a suspended request relies on. `openDispute` may find its
  order settled, but the money has come in; `releasePayout` may find the payout
  sent, but there is one; a cancellation that holds the row finds it still open;
- `ExclusionInv`: which stages two requests cannot share on one order: one
  checkout per attempt, one lock holder, one winner of the funding claim;
- `ReceiptInv`: no receipt has been sent as long as one is about to be.

The proof has one lemma per step, over lemmas on the shapes of steps:
`BeginStep` (a request arrives), `AdvanceStep` and `FinishStep` (the tables are
untouched) and `WriteStep` (one row changes along `RowStep`, which keeps what
others rely on, `RelyKept`). The action properties and the refinement follow
from `RowMoves` (at most one row moves in a step, along an edge of the workflow)
and, for the cars, from `NextVehicles` (a request sells a car, reserves one that is
public, frees one that is reserved, or refunds an order on it).

### Orders, one request at a time

`OneByOne` and `Frozen` add `ReadInv` and `TablesInv` to `IInv`. `ReadInv`
(`StillSo`) is the opposite of `AllRelyInv`: what a request has read is *still
so* when it writes. It is inductive only because nobody else moves. `TablesInv`
is about rows in relation to each other: a disputed order is in escrow,
`releases` counts exactly the payouts SENT, a price in an order is USED and used
once, one order per buyer and car is open, one is chosen, and a RESERVED car has
an order that is paid for or delivered (`ReservationHasHolder`): an order is
cancelled without freeing the car only when another one holds it.

### Orders beside the listing endpoints

`Purchases` and `Listings` write the same `Vehicle.status`, and neither looks at
the other's requests. `MInv` puts `IInv` and the listings' `LInv` side by side.
Only two things are shared, the cars and the set of listings that orders refer
to, and each invariant uses the cars for their type alone, except that `LInv`
wants a public listing to have been approved: an order that is cancelled or
refunded makes a listing public without asking, so `WasApproved` says it of every
listing. That is the argument of `MarketMoney`, `MarketSettled` and
`MarketLedger`: no handler decides about money by the status of the car, so no
moderation, edit or suspension can change where it goes.

`StaysOffCorrect` is about the cars themselves. An order moves a car only as
`NextVehicles` says, and of the listing endpoints only an edit or a verdict of an
administrator writes AVAILABLE (`SellerBack`; `JudgeInv` says that verdicts are
theirs). `MarketOneByOne` carries the promises of the handlers over; the one that
is at stake is `ReservationHasHolder`. An administrator's edit writes back the
status it has read, which may be RESERVED, so the proof needs `SeenNow` (the
status read is still the car's), and that needs `OneAnywhere`: at most one request
over both workflows, as in the part "calm" of the run `orders`.

`MarketplaceProofs` names the listings' lemmas through an instance of
`ListingsProofs`, `Marketplace` its actions through an instance of `Listings`;
`SameStep` says that the two are the same.

### The pages

Here the hypotheses are constants of the modules that say how a page is used, since
not every control is locked while a request is under way: `TabWaits`, `PageWaits`,
`Interleaved`, `OneAtATime`. Section 7 has, for each statement, the behaviour that
breaks it without its hypothesis.

- *Session.* `ActsAsShown` says that the stored token is of the user shown, and
  relates two copies that are written by different answers. `SessionInv` follows
  a call from its start: `CallInv` says that the one call under way carries the
  token that is still stored, and that an answer which describes a user describes
  the owner of that token (`Truthful`), or, of a sign-in, of the token it brings.
  A second tab can replace the token under the first, hence `OneTab`.
- *Order page.* `PageNeverGoesBack` compares what is shown with what an answer
  brings, and both were read at some time. `FreshCalls` orders the calls of a
  page by the version of the order they have read: none is older than what is
  shown, a later one is not older than an earlier one, and the first load is
  alone. Either hypothesis keeps that order: one call at a time, or answers in
  the order asked. `OfferedIsAccepted` needs no history: the conditions under
  which the page draws a control imply the handler's, for every state of a row.
- *Verdicts.* `DeskInv` says that a photo that is PENDING has no verdict since its
  upload and that what a handler has checked is so when it writes (`CheckedInv`).
  The lists of the desks may be arbitrarily old; the theorem rests on the
  handler's check alone, and on nothing else running between it and the update.

### Messages to many

`CastInv` says of every request whom it still has to reach. While pages are read
(`PagesRead`), everybody active up to the cursor is on the list; a page is the
batch of smallest ids beyond the cursor (`PageFacts`, over the ranks of the users:
`RankGrows`, `RanksAreIndices`, `FirstIsCursor`), so an empty one means that
nobody is left. While batches are delivered (`DeliveredInv`), every position
before `done` has its row. Requests of other administrators and single messages
only add rows, which is `MoreReached`. A bulk message reads its receivers in one
query, and so `EveryBulkReached` needs no hypothesis about users that leave. An
announcement whose cursor was suspended skips a user, and `EveryoneIsReached`
excludes that. One whose cursor was deleted ends its list too early, but is
`Doomed`: the row of the deleted user is still to be inserted, so the request will
fail and not be reported as sent.

`OnceInv` makes the list one in which nobody stands twice: pages lie beyond the
cursor and batches beyond `done` (`ConcatOnce`). `ToldInv` is about the window of
ids through which `sendAdminMessageToUsers` finds its own rows again: beyond the
largest id it has read, the messages of its administrator are those it has just
inserted, and nobody was told of them (`WindowInv`). That holds only if the
administrator has nothing else under way, which is `OnlyOneOnItsWay`. `CountInv`
adds where the rows of a batch stand (`InsertedAt`), so that the read-back counts
the batch, no more and no less; rows of deleted users are gone by then, hence the
hypothesis on "gone".

### The other components

- *Listings.* `LInv` says what a request is about (`OnInv`), that a listing on
  the market has been approved at some time (`LiveInv`), and that an edit which
  has read AVAILABLE is of a listing that was approved (`SeenInv`): an
  administrator's edit writes back the status it has read, and that is why
  `AvailableWasApproved` survives every race and `ContentApproved` does not.
- *The limit of the plan.* Counting the listings and inserting one are two
  statements. `Total` counts the listings of a seller and the creations that have
  passed the limit and are not stored. A creation that races others finds a count
  without them, so all that holds is `FewOverLimit`: the excess is smaller than
  the number of requests in flight. One by one nothing else is in flight and
  `WithinLimit` holds. `LimitConstants` asks for finite sets and for the endpoints
  that bring no listing back: `reactivateVehicle`, an edit and an administrator
  do not count (section 7).
- *Offers.* `OInv` adds that some row has the largest stamp (`StampInv`) and that
  a suspended answer is about a row that exists (`AboutInv`): the row may have
  been answered meanwhile, but rows keep their sides and are never reopened
  (`RowsKept`), and a counter-offer closes the row it answers in the same
  transaction. That is enough for chains of any length. That a checkout finds the
  *latest* accepted offer whenever there is one is the well-foundedness of the
  natural numbers. One by one, `FreshInv` says that the row is still open.
- *Billing.* `BInv` holds the claim (`ClaimInv`: an open payment is not applied
  and has one winner) and bounds the end of the period, and the base a claim has
  read, by `today + Duration * Cardinality(Applied)` (`EndInv`). Two claims of
  *different* payments may read the same base: the bound still holds and days
  are lost, which is the run `lost_days`. One by one the base is the present end,
  and every step is a step of `PlanCredit` or a stutter.
- *Accounts.* `CInv`: before the address is confirmed there is no session and no
  request on the way to one. One by one, `StillSo` says that the token a request
  has found is unanswered and that the password it was let in with is the
  present one; `SessionInv`, that a session of an earlier password is not
  younger, in seconds, than the change, or was given for one of its second. The
  second can happen once for an account, since it takes one without a profile:
  there, no session was given for another.
- *Expiry notices.* `SInv` counts: notices are at most the processes whose next
  sweep comes too late for the listing, plus restarts. A sweep that tells moves
  its process into that set, for any delay of the timer.
- *Listing cache.* `Order`: all reads and entries that carry one version have
  been asked for since the same answered writes, and an entry of the present
  version is not older than the last of them. Before a restart the version only
  grows, which is the hypothesis `Undisturbed` (no restart, and no write of the
  purchase workflow, which does not bump); `version_restart` shows the hypothesis
  is needed.
- *Reviews.* `RInv`: a transaction on an order holds its key, so no second tab can
  store a review; a request that overlaps none has counted what there will be.

### Only model-checked

- Liveness, and the enabledness that fairness refers to: the run `live` and
  `LocksLetGo`. They are outside the prover's reach.
- `RTypeOK`: that an average is at most 50 tenths of a star is an induction over the
  set of reviews, out of the prover's reach; the proofs have the rest of it
  (`Shape`). All other parts of the bundle `ServiceTypes` are theorems.
- `OtherParts`, `StaysOffMarket`, `LimitKept`, `ServiceTypes` and `ScreenTypes` are
  formulas about the instances of a run; the theorems state what they say of the
  modules, for any constants (of `ScreenTypes`, the part about the order page).
- Of `DeskIsTrue`, that tabs load, that what is offered is permitted and fits the
  row, and what the pagers show. Its conjuncts about broadcasts are theorems.
- `BadgesAreRight`. What it says of a tab at rest is a count over lists that
  arrive in any order, of rows that were inserted in any order.

## 9. Not modelled

- Components without a protocol between requests: favourites, reports of
  listings, images and avatars as files, uploads, mail, push, storage, audit,
  routing, validation, error pages.
- `commissionFor` (`config/plans.js`): the fee is fixed when the order is placed
  and nothing in the workflow computes with it again.
- The form of a listing (`SellCar.jsx`), search, comparison, the page of a car,
  the pricing page and the overview of the staff desk: they show one answer of
  the server and keep no state it relies on.
- The creation of staff accounts; the other ways to sign in, on the side of the
  browser, which take the steps of `login`.
- Amounts and rounding. `Session` counts the sessions of the second of a change
  as ended; `Accounts` has the seconds.
- Three or more requests in one race, several server processes except for the
  sweep and the cache's restarts.

## 10. What is left

`Chat` (that a message is notified at most once through restarts) and the buttons
of `AdminDesk` (`OfferedIsPermitted` for all roles but STAFF) are worth proving for
any number of tabs and rows. Then the form of a listing (`SellCar.jsx`) and the
overview of the desk.

# Verification of the backend

TLA+ models of the NestJS backend in `src/` (paths below are relative to the
repository, so code is under `src/modules`, `src/common`, ...; the database
schema is `prisma/schema.prisma`). TLC checks the models on small instances;
TLAPS proves the theorems for every value of the constants. `PROJECT.json`
lists components, runs, mutants, the map from definitions to source lines,
findings, hazards and theorems.

Run things in this directory:

    tlc -workers 2 -config Billing.cfg MCBilling
    tlapm AccountsProofs.tla

## 1. The system

A social application: short posts ("shouts") near the user, comments, likes,
chat, notifications, and a premium subscription that opens the writing
features. One Node process serves HTTP, two socket.io gateways and BullMQ
workers; state lives in PostgreSQL (through Prisma) and Redis. There are no
database transactions in the billing and moderation code, no locks, and few
unique indexes, so the unit of atomicity is one Prisma call: between two awaits
of a handler any other handler may run, and an error or the end of the process
leaves the calls made so far in place. What unique indexes there are (an address
per user, a Google or Apple id per user) are part of the models that need them.

| Component | State | Operations | Hard behaviour | What makes it correct | Modelled |
|---|---|---|---|---|---|
| RevenueCat webhook and sync (`modules/revenuecat`) | `subscriptions`, `User.subscriptionId`, `payment_transactions` | `handleWebhook` for every event type, `handleTransfer`, `syncFromClient` | at-least-once delivery, any order, sync racing the webhook, crash between four writes | premium moves only as the store ordered; links, payments and notices belong to a subscriber; every event is answered | `RevenueCat` |
| Paystack subscriptions (`modules/subscription`) | the same tables; transactions and recurring subscriptions at Paystack | `startTrial`, `getSubscriptionStatus`, `createPlanAndPrice`, `chargeCard`, `submitOtp`, `cancelSubscription`, three webhook events | overlapping calls, OTP late or twice, lost and late events, events that go by the customer's address while addresses move, failed calls to Paystack, rows by stale id | premium was paid for, money was charged, a payment and a code are of a customer whose address the user has had, one trial, a cancelled user is not billed | `SubscriptionService` |
| Entitlement readers (`/auth/me`, `SubscriptionGuard`, `checkSubscription`) | none of their own; `/auth/me` expires rows | `me`, `canActivate` | stale read before a write; different row chosen by each | they agree; only lapsed rows expire | `Billing` |
| Reports and moderation (`admin/reports`, `admin/user`, `admin/shout_manage`, parts of `auth` and `shout`) | `User.status`, `shouts`, `user_reports`, `shout_reports` | report, warn, ban, lift, unban, disable, enable, takedown, publish, delete | judgements that overlap; a ban that fails half-way; deletes in between | a judgement follows its check; notices tell the truth; what is taken down is no entry of the feed again, and out of sight while the ban of its author stands | `Moderation` |
| Accounts and sessions (`modules/auth`, `ucode`, `user` repositories) | `users`, `ucodes`, `refresh_token:<id>` in Redis | register, login, logout, one-time codes, password, e-mail, 2FA, social sign-in, deletion | register in five steps over three systems; codes validated, used and only then deleted; an address that moves while a call is under way | an address has one account and counts as verified only when somebody answered for it (or an Apple client has typed it); a used code is deleted unless its request fails | `Accounts` |
| Mail queue (`mail`) | BullMQ jobs | queue, render, send | lost and repeated jobs; a job name no processor knows | a code opens no address but those that were answered for | `Accounts` |
| Shouts (`modules/shout`, blocks and places of `auth`) | shouts, media, likes, comments, blocks, notices | create, share, update, delete, like, comment, block, move, feed, page | notices sent long after the answer; comment trees under deletion; a feed that is cut into pages by counting, while it changes | blocks are respected in notices, turning pages skips nothing, no comment is lost | `Shouts` (takedown and reports are in `Moderation`) |
| Notifications and push (`application/notification`, `admin/notification`) | event and notification rows, device tokens, redis channel, push queue | create, register token, mark, delete, push job | a job run again; tokens read when it was queued; devices that change hands; FCM's one answer for a dead token and a bad payload | a push reaches the receiver's devices and no other; only a payload FCM refuses costs a live device | `Notifications` |
| Chat (`modules/chat`) | conversations, messages, sockets, availability, recordings | connect, disconnect, join calls and rooms, create, send, status, delete, record | a reconnect against the old disconnect; a conversation deleted under a post; chunks against the end of a recording | the registry is the latest socket; what is stored is announced; no chunk is in two places or in none | `Chat` |
| Stripe and PayPal wrappers, saved places, FAQ/contact/support desks, dashboards, file storage, roles and throttling, seed command | - | - | - | - | no: SDK wrappers nobody calls, single-statement CRUD, read-only queries, pure I/O, stateless checks, a one-off script |

How they interact: the two billing services and `/auth/me` know nothing of one
another and meet in the `subscriptions` table; the guard and `checkSubscription`
decide by that table whether shouts, comments and chat are open. Every component
calls `createNotification`, which writes the row, publishes on a redis channel
and queues a push job. Moderation writes `User.status`, which the shout
readers consult (`BANNED` authors are hidden). Accounts owns the users the
others refer to and queues the mails; a login or a device registration gives a
device token to its user, which the push worker reads and deletes. The Paystack
webhook looks its user up by the address Accounts may have given to another one.
Blocks and places are written by the account service and read by shouts.

## 2. Modules

| Module | What it is |
|---|---|
| `SubscriptionTable` | the shared rows, their queries and writes, and the three invariants every billing handler must keep |
| `RevenueCat` | store events and client syncs, step by step |
| `StoreEntitlement` | the abstract promise of `RevenueCat`: per user none / on / ending / off |
| `SubscriptionService` | trials, card charges, OTPs, cancelling, the Paystack webhook; Paystack itself is external |
| `Billing` | both services and `/auth/me` on one table |
| `Moderation` | reports, judgements of users, takedown of shouts |
| `Accounts` | addresses, codes, passwords, sign-ins, sessions, 2FA, the mail queue |
| `AccountIdentity` | the abstract promise of `Accounts`: who holds an address and when it is confirmed |
| `Shouts` | posts, shares, notices nearby, the feed page by page, likes and comments, blocks |
| `Notifications` | rows, device tokens, the redis channel with its sockets, push queue and worker |
| `Chat` | socket registry and availability, conversations and messages, recordings |
| `RevenueCatProofs`, `SubscriptionServiceProofs`, `BillingProofs`, `ModerationProofs`, `AccountsProofs`, `ShoutsProofs`, `NotificationsProofs`, `ChatProofs` | the theorems about the module of that name |
| `MC*` with `*.cfg` | instances for TLC |

### RevenueCat

A delivery becomes the list of tasks the handler would go through (`TaskLists`:
find the plan, give, take, end, skip an id without an account); `job[w]` holds
what is left, the row that was read, and the place in the code (`pc`). Each
action is one database call: `Plan`, `FindToGive`, `Give`, `Link`, `Pay`,
`Notify`, `FindActive`, `Take`, `End`. `Duplicate` delivers an event again,
`Fail` drops a handler anywhere (an exception, or the process ends), `Answer`
records the 200 that stops RevenueCat from repeating the event. Resolving a user
or a plan is a choice among the rows the lookup could return.

### SubscriptionService

Each call sits in a caller `c` and `call[c]` holds its locals. `charges` is what
Paystack knows of a transaction (waiting for the OTP, paid, failed), `remote`
the recurring subscriptions that still bill, `hooks` the events under way, which
may be late, repeated or lost: `SubscriptionWebhookController` answers before it
handles them. `mishaps` bounds failures, losses and repeats together. Rows are
written by the id that was read earlier, as in the code.

Paystack knows its customers by address: a charge carries the one the user had
when `chargeCard` read him, and `charge.success` and `subscription.create` look
up who has that address when they come (`Customers`), or do nothing
(`Ignores`). `email` is `User.email`; `MoveAddress` stands for all the handlers
of `Accounts` that give an account another address, `held` is the history of who
has had which. `Coded` are the plans with a Paystack plan code: a charge of any
other plan has no `data.plan` and its event is ignored.

### Billing

`RC == INSTANCE RevenueCat` and `PS == INSTANCE SubscriptionService` share the
variables of `SubscriptionTable`. `Stamp` keeps `updatedAt`: which row of the
user was written last, all that `/auth/me` asks of it. `Refresh` is the write of
`remainingDays` in `getSubscriptionStatus`, a column nobody decides by, but one
that makes its row the newest. `Me` reads and decides, `MeExpire` writes later
by id. `MePremium` and `MayPass` are the answers of `/auth/me` and of the guard.

### Moderation

`task[h].todo` is the list of calls a judgement still has to make: check the
user's status, write it, take the shout down, close the report, tell the user,
thank the reporter. `Accepts` and `Writes` are the status a judgement accepts
and writes. `Fail` and updates of rows that are gone drop the rest of the list.
`filed`, `done` and `told` record, for the properties, what users were told and
which judgements reached the database; `removed` which shouts were taken down
with the ban of whom, `spared` whose ban has been written over since.
`FeedEntries` is the query of the feed, `OnPages` that of a profile or of the
page of a shout; `Shown` adds the originals their shares embed, which the code
asks nothing about.

### Accounts

`call[h].todo` is the list of database, redis and queue calls a request still
has to make, with the locals they need (`user`, `email`, `code`, `subject`,
`under`: the address a code is to be stored under when it is not the account's).
Requests (`Register`, `AskForCode`, `VerifyEmail`, `ResetPassword`,
`RequestEmailChange`, `ChangeEmail`, `ChangePassword`, `Login`, `Logout`,
`TwoFactor`, `SignIn`, `DeleteAccount`, `HelpSupport`, and the administrator's
`AdminSetEmail` and delete) only fill the list; the steps (`Create`,
`CreateToken`, `SendOtpCodeToEmail`, `ValidateToken`, `Verify`, `Rekey`, `Move`,
`Spend`, `Bury`, `Match`, `Adopt`, `Link`, `StoreToken`, ...) take its head. Row
writes go by the id or by the address the code uses: `Rekey` looks the address
up again, `Move` fails on the unique index. The worker's steps deliver a job,
drop one it has no case for, lose one, or run one twice. A client uses only
codes that some mailbox has received, in any call, with any address. Passwords
and tokens are one bit each (there is one / the right one is given); whether a
code is expired or deleted is one bit as well.

`SignIn` takes the address from the provider's token (`signed`) or, for Apple,
from the request's body when the token has none. A Google token's
`email_verified` is not looked at, by the code nor by the model: what it carries
counts as the provider's word.

`vouched`, `inbox`, `typed`, `used` and `cut` are history: the addresses a
provider's token carried or an administrator typed, the mails delivered, the
addresses an Apple client named in the body, the codes by which a password or an
address has changed (noted in the step that changes it, before `Spend` deletes
the code), and those of them whose request failed before `Spend`. `Reached`, the
addresses of the first two, is what the code may take as proof that somebody has
the mailbox; what a client typed is not among them.

### Shouts

A post, a share and a comment are lists of calls in `call[h]`; the notices of
users nearby (`sendNearbyNotifications`: author, original, blocks, audience,
then notify) go on after the answer, so blocks, moves, bans and deletions
interleave with them. `Near` is the relation "within 50 km", `Allowed` the
places `LocationService` admits. Deleting a comment is the transaction of the
code: its children move to the top. `Hide` and `Ban` (which lifts a ban as well)
stand for the moderators. `apart[n]` is history: the users who have been an
author of `n`, or blocked with one, since `n` was posted.

The feed is `getAllPosts`. `Candidates` is what its query may find, `Found` what
it does find (any `FetchCap` of the candidates when there are more, since it
takes 2000 of them without an order), `Listed` what is then near or notified,
`Page` the cut by counting. Without a position the code pages the whole table
and filters afterwards, so `Listed` then contains what is hidden. `ReadFirst` and
`ReadNext` are a reader turning pages of one shout each. The position is the
place stored for the reader, and a page is read in one step: the four awaits of
`getAllPosts` are not split. `reading` is history: what the reader has
seen, what has been in his feed all along (`steady`), and whether something left
the list or the query overflowed (`disturbed`); `Watch` keeps it in every other
step.

### Notifications

`createNotification` is the list row, publish, tokens, queue. The worker takes a
job, sends to the tokens the job carries, and later deletes those FCM called
invalid, by value: `worker` keeps them between the two. A job can be lost, and
run again when the worker stops. `channel`, `subscribed` and `emitted` are the
redis subscription: `OnSubscribed` is the callback ioredis calls once,
`OnMessage` hands a message to the listeners there are. A notification `fits`
when FCM takes its payload. `Uninstall` puts a device into `gone`; FCM then says
"not registered" or "invalid argument", and it says the latter of any device
when the payload does not fit (`Says`). `had`, `kept` and `lost` are history.

### Chat

Socket handlers are atomic up to their first await. `HandleConnection` and
`Drop` change the registry at once and leave a write of the availability in
`writes`, to be done in any order with the others. `HandleRoomJoin` is
`joinRoom`: any socket joins any room, also the one every socket has under its
own id, so what `ListenForMessages` sends to the socket of a user goes to all
that `Reaches` names. `typing` and `stopTyping` send nothing: Nest passes their
undecorated `client` as undefined and they throw. Posting a message or a
conversation is the list add, store, touch, emit. `chunks` is the buffer of a
recording, `flushing` what an end has handed to a write stream, `file` what is
on disk. `Crash` loses registry, buffers and streams and keeps the tables.
`latest`, `joined`, `heard`, `disturbed`, `spoiled`, `received` and `wiped` are
kept for the properties; `joined` also decides whom a message reaches.

### Abstractions

Amounts, currencies, texts and media are left out; addresses, places and tokens
are members of small sets. Dates are whole days and only compared. Statuses keep
the strings of the code. Rows keep their position in a sequence as id; a deleted
row of `Moderation` leaves `None` behind, rows of `Shouts`, `Chat` and
`Accounts` keep a state ("gone", "erased"), and billing rows are never deleted.
Users are deleted in `Accounts` only. `SubscriptionTable!TableInit` starts from
any set of plans.

## 3. What is checked

Passing runs:

| Run | Instance | Shows |
|---|---|---|
| `RevenueCatSerial` | 2 users, a stranger id, 1 plan, 5 requests (trial purchase by sync, cancellation, expiry, transfer, an unknown user's renewal), 1 handler, 1 duplicate, 1 failure | at most one row per user; after a transfer no source has premium; a sync that answers `premium: true` is right; the refinement of `StoreEntitlement`; every event is answered (fairness below) |
| `PaystackRacing` | 2 users, 3 addresses, 2 moves of an account to another address, 1 plan, 2 charges, 1 call in flight among late events, renewals and moves, one lost, repeated or failed step; 1,487,320 states | a payment row and a code on a row are of a customer Paystack charged, whose address the account has had, also when it has passed to another account between the charge and the event |
| `PaystackSerial` | 1 user, trial and paid plan, 2 charges, one lost, repeated or failed step | premium is a trial or paid for; one trial per user; one row per paid type; a row without premium carries a dead status |
| `Billing` | 2 users, a store renewal and expiry, one card, one `/auth/me` call; addresses stay | across the services: the table invariants (`ActiveRowsAreLive`, `LinkedToOwnRow`, `NoMoneyWithoutSubscription`), only gifts and charges wake rows, every payment has a source |
| `Moderation` | 2 users, 2 shouts (one may share the other), 1 report, 2 judgements in flight, one failure; 2,571,125 states | nothing is closed or announced before the shout is hidden; notices follow acts; reports keep their shout; what was taken down is no entry of the feed again, and is shown nowhere, not even in a share, while the ban of its author stands |
| `Accounts` | one account to begin with and room for a second, 2 addresses, an Apple user, any 3 calls, 2 of them in flight, 1 failed call or job; 1,063,794 states | the refinement of `AccountIdentity`; a code that was mailed to another address than it is stored for opens only addresses that had answered before; a code that has changed something still validates only while its request is about to delete it, or failed before it did |
| `Notifications` | 2 users, 2 devices of which one may go, 1 socket, 1 notification whose payload fits or not, 1 failure or repetition; 680,004 states | a push shows only on a device that has been its receiver's since the notification was made; the worker forgets a device that is still there only over a payload FCM refuses; a device that stays with the receiver is sent to (fairness below) |
| `Chat` | 2 users, 3 sockets, 2 posts in flight, 1 recording, 6 events (joins of rooms among them), 1 failure or crash; 869,801 states | the registry is the latest socket while it is open, and what is sent to a user reaches it; a socket of another user hears it only by having joined a room; availability follows it; a stored message is announced; every chunk is in exactly one place |
| `Shouts` | 3 users, 2 places, 3 shouts (one may share another), 2 comments, 1 call in flight next to every one-step operation, 4 events, 1 failure; a feed query that reads 2 shouts; 1,535,642 states | notices nearby respect blocks; a reader who turns pages skips nothing that stayed in his feed; no comment is lost |

Runs that end in a violation, each about something the code says of itself
(details under "findings" in `PROJECT.json`):

| Run | Property | What happens |
|---|---|---|
| `PaystackCancel` | `CancelledIsNotBilled` | a late `subscription.create` puts an old code over the running one; the next cancel disables the wrong subscription |
| `ModerationReport` | `ReportsNameTheReported` | the controller passes reporter and reported user in the wrong order; the complaint is filed against the one who complained |
| `NotificationSockets` | `SocketsAreNotified` | what is published on redis for a user is emitted to none of his sockets: no listener for messages is ever registered |

Every property of a passing run has a mutant: a definition changed as a slip in
the code would change it, under which the run fails.

### Bounds

One plan and one or two users reach every branch that depends on a row existing,
being active or belonging to somebody else; two users are needed for transfers,
ownership and thanking a reporter. Two handlers are the fewest that interleave;
the properties of a race (a stale id, a lost update) need one handler that reads
and another that writes. For RevenueCat interleavings of any number of handlers
are covered by the proofs, so TLC runs one handler and spends its states on the
order of events, on liveness and on the refinement. Two days separate "before
the end" from "after the end". One duplicate and one failure suffice for
properties that a single surplus step breaks.

Paystack: events go by address, so one address must be able to pass from one
account to the other. That takes a third address the first account can leave for
and two moves (`MaxMoves`). One call is in flight there: what it meets between
its awaits are moves, events and renewals; two calls of this service at once are
covered by the proofs. `Billing` has no moves: its properties speak of rows,
flags and sources, which addresses do not enter, and its proofs leave moves
unbounded. A plan without a Paystack code (`Coded`) is the free trial.

Accounts: two addresses and two accounts are what a change, a swap or a takeover
of an address needs. The provider is Apple, whose sign-ins are those of Google
and more (an address in the body, a placeholder without one); both at once are
covered by the proofs. Three calls let one account ask for a code while another
call moves the account, and a third use the code; one failure covers a crash
between any two steps and a lost or repeated mail. All of its safety properties
are proved without bounds. Chat: the third socket is a second device or a second
reconnect; six events reach connect, reconnect, join and late disconnect, or a
conversation with a message and its deletion. Shouts: the author, the one who
shares and a reader are three users; two towns separate near from far; a shout
and its share, a comment and its reply are the smallest instances of their
relations; with three shouts there are more than the feed's query reads
(`FetchCap` is 2 where the code has 2000) and a page to turn after the first,
and four events post two shouts and read two pages between them. One call in
flight is enough there because blocks, moves, bans, deletions and comments are
actions of their own that interleave with it; more calls are covered by the
proofs. Notifications: one notification, whose push meets two devices that are
handed on, one of which (`Removable`) may be uninstalled, so that a live and a
dead device get the same answer; the properties speak of one notification at a
time, and any number is covered by the proofs (liveness excepted). Symmetry is
used in runs without liveness properties only.

`CHECK_DEADLOCK FALSE` everywhere: when the bounded requests are spent the
backend is idle, which is its normal state.

What single-handler runs mean: `OneRowPerUser`, `TransferSourceRetired`,
`SyncAnswersTheTruth`, the refinement of `StoreEntitlement`, `OneTrialPerUser`,
`OneRowPerType` and `InactiveRowsAreDead` do not hold when two handlers of one
user overlap: the code reads and then creates or writes, and neither a unique
index nor a transaction protects it. They are stated for handlers that run one
after the other, the hazards say so, and their theorems have it as a hypothesis
(`OneAtATime`).

### Stated but not run

These definitions are in the modules and no run lists them now.

Holding: `PaymentsComeFromDeliveries` (`RevenueCat`), `RowsKeepTheirOwner`
(`Billing`) and `OnlyChargesWakeRows` (`SubscriptionService`); the last is
subsumed by `OnlyGiftsAndChargesWakeRows`, the first two say less than the
properties that are run. The last two are theorems (`RowsStayWithOwner`,
`OnlyChargesWake`).

Not holding, because the code does otherwise:

- `PaidPeriodIsWhole` (`SubscriptionService`): for interval quarterly the end
  date moves by `intervalCount || 3` months (`subscription.service.ts:395`), but
  the seed sells the "3 month premium" plan as quarterly with count 1
  (`seed.command.ts:358`). A charge of it is activated for one month.
- `OnlyLapsedRowsExpire` (`Billing`): `/auth/me` reads the row, decides that it
  has lapsed and updates it by id without a condition (`auth.service.ts:281`). A
  renewal, sync or charge written in between is undone.
- `GuardMatchesMe` (`Billing`): the guard takes any active row, `/auth/me` the
  one with the newest `updatedAt`, active or not. With a lapsed trial and a paid
  row the guard lets a user through whom `/auth/me` calls not premium, although
  `subscription.guard.ts:39` says 'Match /auth/me: trust isActive'.
- `JudgementsFollowTheirChecks` (`Moderation`): `warnUser` refuses a banned user
  (`reports.service.ts:506`) but writes after an await and without a condition,
  so a warning that has passed its check overwrites a ban.
- `TakenDownIsNotShown` (`Moderation`): only the feed asks for `deleted_at: null`
  and PUBLISHED, and only of its own entries. A share embeds `original_shout`
  whatever its `deleted_at` and status are, in the feed, on the profile and on the
  page of the share (`shout.service.ts:333-361`, `411-459`). While the author of a
  removed shout is banned, `isHiddenShout` covers for it; after an unban it is on
  the profile again, and in the feed inside its shares.
- `EventsReachThePayer` (`SubscriptionService`): `handleSubscriptionCreate` and
  `handleChargeSuccess` find the user by `data.customer.email`
  (`subscription.service.ts:641-672`). When the address has passed to another
  account, a renewal is recorded there, and the code is put on that account's row.
- `ConfirmedMeansProved` (`Accounts`): when an Apple token has no address, the
  strategy takes the one in the request's body (`apple-mobile.strategy.ts:63-68`),
  and `handleAppleProfile` links and verifies the account that has it
  (`auth.service.ts:1812-1847`).
- `LiveDevicesAreKept` (`Notifications`): the processor counts
  `messaging/invalid-argument` as a dead token (`push-notification.processor.ts:79-83`),
  which is FCM's answer to a bad or too large payload as well. Such a
  notification costs its receiver every device it is sent to.
- `SentToOwnSockets` (`Chat`): `joinRoom` lets a socket join any room
  (`message.gateway.ts:120-126`), also the one another socket has under its own
  id, and is then sent what that socket's user is sent.

### Other behaviour worth knowing

Met while modelling; the models contain it, or say where they leave it out, and
no property is stated against it.

- Accounts. `MailService.sendSupportRequest` queues a job under a name the mail
  processor has no case for: the mail is never sent and the caller is told it
  was. `changeEmail` and a Google link that are under way when an account is
  deleted give the deleted account an address again. `changePassword` finds the
  row by the address read earlier, which may be another account's by then.
  2FA can be enabled before a secret exists, and the next login cannot succeed.
  A logout deletes the one refresh token there is, also that of a login made
  meanwhile. `JwtStrategy` takes the user by id, else by the address in the token.
  `changePassword` and `changeEmail` act first and delete the code afterwards
  (`auth.service.ts:868-877`): a stop in between leaves a used code valid until it
  expires (`UsedCodesDie` says so). A Google token whose `email_verified` is false
  is taken like any other (`google-mobile.strategy.ts:60`).
- Shouts. The notice of an anonymous shout names its author. A user without a
  stored place sees placed shouts in the feed and gets 404 from their page. The
  feed reads at most 2000 shouts, in no order (`shout.service.ts:373`, `397`), so
  with more it leaves out any of them, also the newest. A shout that leaves the
  list between two pages makes the next page skip one. Page and profile do not
  filter by status. Blocks hide in one direction in the feed and in both in the
  notices. `parent_id` may belong to another shout. `getComments` answers as
  `total_count` the threads of the page. Without a
  position the feed filters after it has paged.
- Chat. A failing write of the availability in `handleDisconnect` is an unhandled
  rejection, which ends the process. `activeUsers` keeps names after a
  reconnect. Two calls can create one conversation twice. READ can go back to
  DELIVERED. The write streams of recordings are never closed, and chunks are
  kept in the order of arrival, whatever their sequence number says. `typing` and
  `stopTyping` decorate only the body (`message.gateway.ts:156-177`), so Nest
  passes no client, `client.id` throws and nobody is told.

### Fairness

`EveryEventIsAnswered` (RevenueCat). `WF(RcStep(w))`: Node resumes a handler
once its await has completed. `SF(Receive(e))` for webhook events: RevenueCat
repeats an event until it gets a success, and the server accepts it whenever a
worker is free (strong, because the model has few workers where the server has
no limit). Nothing is assumed of failures, duplicates or client syncs except
their bounds: an event whose handler fails for ever is never answered. The
property excludes a database without a paid plan, where the handler throws each
time.

`NotificationsReachDevices` and `SocketsAreNotified` (Notifications). Weak
fairness of the next call of each `createNotification` (Node resumes it), of the
worker's deletion, of sending each queued notification (BullMQ hands waiting jobs
to an idle worker, in the order of the queue, so none waits for ever), of the
confirmation of the redis subscription and of the delivery of each message. No
fairness of failures, of sockets or of users. `NotificationsReachDevices`
excludes notifications a step of whose way has failed: a lost job is not queued
again by anybody.

`Accounts`, `Chat`, `Shouts`, `Moderation`, `SubscriptionService` and `Billing`
assume none; their properties are safety properties.

## 4. What is proved

The proof modules assume nothing but the ASSUMEs about the constants in the
modules they are about: sentinels differ from real values, bounds are natural
numbers, sets of keys are what their names say. Everything below holds for any
sets of users, addresses, sockets, devices and handlers and any bounds.

`RevenueCatProofs.tla`:

| Theorem | Statement |
|---|---|
| `TypeCorrect` | `Spec => []TypeOK` |
| `ActiveRowsStayLive` | `Spec => []ActiveRowsAreLive` |
| `LinksStayOwn` | `Spec => []LinkedToOwnRow` |
| `MoneyNeedsSubscription` | `Spec => []NoMoneyWithoutSubscription` |

for any sets of users, plans, references and requests, any number of handlers
and any bound on duplicates and failures. The three table invariants are not
inductive: a handler writes the row it found several awaits earlier, so the
proof needs to know that this row still belongs to the user of its task. The
inductive invariant is

    Inv == TypeOK /\ TableInv /\ \A w \in Workers : JobOK(w)

where `JobOK(w)` says that the handler's request has been delivered, that a
"find the plan" task precedes every "give" while no plan is known, and that from
`write` to `notify` the row it holds is a row of its task's user (or 0 for a
gift that will create one). Rows change hands in no step, so the steps of other
handlers keep it (`OthersStayOK`); each action has a lemma, and `InvNext`
assembles them. Lemmas about the task lists (`TransferTasksTypes`,
`TaskListsTypes`, `PlanFirstTail`) and about the written rows
(`GivenRowTypes`, `TakenRowTypes`, `EndingRowTypes`) carry the data.

Four theorems have the hypothesis `OneAtATime` (there are no two workers): users,
requests, duplicates and failures are still any. Without it they are false, see
"What single-handler runs mean".

| Theorem | Statement |
|---|---|
| `RowsStaySingle` | `OneAtATime` gives `Spec => []OneRowPerUser` |
| `TransfersRetireTheSource` | `OneAtATime` gives `Spec => []TransferSourceRetired` |
| `SyncTellsTheTruth` | `OneAtATime` gives `Spec => []SyncAnswersTheTruth` |
| `EntitlementIsImplemented` | `OneAtATime` gives `Spec => ImplementsEntitlement`, the refinement of `StoreEntitlement` |

What a lone handler has found is still so when it writes. `SerialInv` adds that
to `Inv`: what is left to do was asked for by the request (`TodoOK`), "no row"
and "active row" are still true of what was found (`FoundOK`), each source of a
transfer still has its "take" ahead of it, has no active row, or is a target too
(`TransferOK`), and a sync is at one of four places of its only gift (`SyncOK`).
In the refinement each write is matched with the order its request stands for;
all other steps leave entitlement alone.

`SubscriptionServiceProofs.tla`, for any users, plans, references and calls in
flight, and any bound on errors, crashes and lost or repeated events:

| Theorem | Statement |
|---|---|
| `TypeCorrect` | `Spec => []TypeOK` |
| `ActiveRowsStayLive` | `Spec => []ActiveRowsAreLive` |
| `LinksStayOwn` | `Spec => []LinkedToOwnRow` |
| `MoneyNeedsSubscription` | `Spec => []NoMoneyWithoutSubscription` |
| `PaymentsAreCharged` | `Spec => []PaymentsWereCharged` |
| `PremiumIsPaid` | `Spec => []PremiumWasPaid` |
| `CodesKeepTheirAddress` | `Spec => []CodeOfAddress` |
| `OnlyChargesWake` | `Spec => OnlyChargesWakeRows` |
| `TrialsAreGivenOnce` | `OneAtATime` gives `Spec => []OneTrialPerUser` |
| `PremiumRowsAreReused` | `OneAtATime` gives `Spec => []OneRowPerType` |
| `InactiveRowsStayDead` | `OneAtATime` gives `Spec => []InactiveRowsAreDead` |

    Inv == TypeOK /\ RowsOK /\ LinkedToOwnRow /\ MoneyOK
           /\ HeldOK /\ RemoteOK /\ HooksOK /\ \A c \in Callers : CallOK(c)

`RowsOK` puts `ActiveRowsAreLive`, `CodeOfAddress` and `PremiumWasPaid` as one
fact about each row, so that a write has to be looked at once. `KeepsOK` (in
`CallOK`) says what the locals of a call are still worth when it resumes: the
row it holds is its user's; the charge it is about to activate is paid, by that
user and for that plan; the charge it is about to record as a renewal is paid,
from an address the user has had (`BilledTo`), and so is the code it will store
(`OwnCode`). `RemoteOK` and `HooksOK` say of what Paystack holds and of the
events under way that they are of paid charges, `HeldOK` that whoever has an
address, or was charged under one, is in `held`. All of it survives the steps of
other calls because of three facts about every step: a paid charge stays as it
is (`PaidStays`), no row is taken from its owner (`OwnersStay`), and `held` only
grows. The last is why the theorems speak of the addresses an account has had:
who has an address now is not the same before and after an await. Besides
`PlanPeriods` it assumes `NoneIsNoCharge`: the mark of an unused reference is
not a charge.

With one call at a time `SerialOK` adds what the call has found out: that there
is no trial and no row to reuse, or that the row is active. `TrialsAreDated` is
needed because the code looks for trials by `trialEndsAt`.

`BillingProofs.tla`, for any users, plans, requests and references, any handlers,
calls and readers at once:

| Theorem | Statement |
|---|---|
| `ActiveRowsStayLive` | `Spec => []ActiveRowsAreLive` |
| `LinksStayOwn` | `Spec => []LinkedToOwnRow` |
| `MoneyNeedsSubscription` | `Spec => []NoMoneyWithoutSubscription` |
| `PaymentsAreSourced` | `Spec => []PaymentsHaveASource` |
| `CodesKeepTheirAddress` | `Spec => []CodeOfAddress` |
| `RowsStayWithOwner` | `Spec => RowsKeepTheirOwner` |
| `OnlyGiftsAndChargesWake` | `Spec => OnlyGiftsAndChargesWakeRows` |

    Inv == StoreInv /\ CardInv /\ (\A w \in Workers : GiftOK(w))
           /\ PaymentsHaveASource /\ ReadersOK

A theorem of an instantiated module is about that module's own specification, in
which nobody else writes the table. `StoreInv` and `CardInv` are therefore the
invariants of the two services over the variables of `Billing`, and the lemmas
prefixed `Store` and `Card` are the arguments of the two modules above, without
what only holds of a service by itself (in `Billing` a row can be active that no
card has paid for, and a payment can be the store's). New is that each part
survives the steps of the others (`StoreSurvives`, `CardsSurvive`,
`MeExpireKeepsInv`): again rows keep their owner, paid charges stay and `held`
grows, and the store creates rows without a code and copies the code of a row it
takes over. `GiftOK` follows a gift to its payment row: it goes to a user its
request names. `RowWrites` says what any step can do to a row, and the two
action properties follow from it. `StoreConstants` and `CardConstants` assume of
the constants what the two services assume of theirs.

`ModerationProofs.tla`, for any users, orders and edits, any number of
judgements in flight and any bounds on the tables and on failures:

| Theorem | Statement |
|---|---|
| `TypeCorrect` | `Spec => []TypeOK` |
| `ReportsKeepSubjects` | `Spec => []ReportsHaveSubjects` |
| `NoticesAreTrue` | `Spec => []NoticesFollowActs` |
| `ClosedIsHidden` | `Spec => []HiddenBeforeClosed` |
| `TakedownsHold` | `Spec => []TakedownHoldsWithTheBan` |

`HiddenBeforeClosed` looks at the next call of a judgement and so is not
inductive, and `NoticesFollowActs` depends on what that call is. The invariant

    IInv == TypeOK /\ ReportsHaveSubjects /\ NoticesFollowActs
                   /\ \A h \in Handlers : TaskOK(h)

speaks of the whole list that is left: in `TaskOK(h)` every "close", "tell" and
"thank" stands behind a "takedown" unless the shout is already hidden, and every
"tell" and "thank" behind the "act" unless the judgement has reached the
database. `TodoShape` and `ShapeIsOrdered` show it of the list a judgement
starts with, `NeedsTail` that it survives taking the head off, and `Grows` is
what every step (by `StepKeeps`) grants the other handlers: no removed shout is
undeleted, nothing done is undone, and an author is banned or has been spared
once he is (`Covered`). `TaskOK` has the order that makes `TakedownsHold` true:
by the time a "takedown" is the next call, its author is covered. With
`isHiddenShout` looking at the author of the original too, a share cannot show
what a covered, not spared author has posted.

`AccountsProofs.tla`:

| Theorem | Statement |
|---|---|
| `TypeCorrect` | `Spec => []TypeOK` |
| `MisaddressedCodesAreHarmless` | `Spec => []MisaddressedCodesOpenProvedAddresses` |
| `UsedCodesAreDeleted` | `Spec => []UsedCodesDie` |
| `AccountsImplementIdentity` | `Spec => ImplementsIdentity`, the refinement of `AccountIdentity` |

What a call read may be stale when it writes: an account may have moved, a code
been deleted. The argument is that an account only ever moves to an address
somebody has answered for (`Reached`, which only grows), or to none. So what a
call believes of an address is either still so, or the address has been answered
for. The invariant

    IInv == TypeOK /\ Len(users) <= MaxAccounts /\ CallsKnow /\ Unique
            /\ CodesHaveAddresses /\ JobsOpenProved /\ MailsOpenProved

says it for calls (`Knows`, by the list that is left), for the jobs in the queue
and for the mails delivered. `Grows` is what every step grants the other calls;
one lemma per step (`...Keeps`) proves the rest. `Knows` takes the tables as
parameters so that one lemma (`KnowsStays`) carries it over any step. The
refinement needs one thing more: what an Apple client typed may be confirmed,
and `Claimed` is `Reached` and that, so that linking and adopting are followed
by `Claimed`, moves by `Reached`. The rest is one write of one row at a time:
`KeptRow`, `MovedRow`, `BuriedRow`, `HiddenRow` and their like show for one
write of one row what happens to holders and confirmations (nothing, `Claim`,
`Move`, `Release` or `Confirm`), `UpdateRefines` and `NewRowRefines` combine
them; mails and signed sign-ins are `Prove`, those by an address in the body
`Say`. `UsedCodesAreDeleted` is proved on top of the invariant: a used code
stays in the list of its request until `Spend` or a `Fail`.

`ChatProofs.tla`:

| Theorem | Statement |
|---|---|
| `TypeCorrect` | `Spec => []TypeOK` |
| `RegistryIsRight` | `Spec => []RegistryIsTheLatestSocket` |
| `PresenceIsRight` | `Spec => []PresenceFollowsRegistry` |
| `StoredMessagesAreAnnounced` | `Spec => []StoredIsAnnounced` |
| `ChunksAreKept` | `Spec => []RecordingsKeepEveryChunk` |

Sockets, posts and recordings share only the counters of the bounds, so each has
an invariant of its own (`SocketInv`, `PostInv`, `ChunkInv`).
`PresenceFollowsRegistry` says nothing while a write is under way; `PresenceOK`
adds that an undisturbed user has at most one and that it says what the registry
says. `PostInv` follows a post from the row to the room, `ChunkInv` a chunk from the
buffer to the file: none is in two places, because what an end hands to a stream
it takes out of the buffer.

`NotificationsProofs.tla`:

| Theorem | Statement |
|---|---|
| `TypeCorrect` | `Spec => []TypeOK` |
| `PushesAreFollowed` | `Spec => []PushesFollowRegistration` |
| `DevicesAreKept` | `Spec => OnlyBadPayloadsCostDevices` |

A token is copied from the table into the call, from there into the job and into
the worker. `IInv` follows it (`DevicesAreHad`, `CallOK`, `JobsAreHad`,
`WorkerIsRight`): at each place it was the receiver's after the row was made, and
what the worker is about to delete is gone, or its job's payload does not fit.

`ShoutsProofs.tla`:

| Theorem | Statement |
|---|---|
| `TypeCorrect` | `Spec => []TypeOK` |
| `BlocksAreRespected` | `Spec => []NoticesRespectBlocks` |
| `CommentsAreReachable` | `Spec => []NoCommentIsLost` |
| `NothingIsSkipped` | `Spec => []PagesSkipNothing` |

`CallsKnow` says what a call has collected: at "blocks" its authors include all
the shout has, at "audience" those it leaves out include all who have stayed
apart, at "notify" none of these is in the audience. `ApartIsApart` relates the
history variable to rows and blocks. `CommentTree`: a comment's parent is there
and older, and its shout is there. `ReadingInv` is about the reader: what has
been in his feed all along is in it now, and as long as nothing has left the
list and the query has not overflowed, what he has not seen of it ranks behind
his page. A step that takes nothing from the list can only raise ranks
(`FS_Subset` on the finite sets that `Rank` counts), and a page shows the shout
of its rank.

Only model-checked: `EveryEventIsAnswered` and `NotificationsReachDevices`,
which are liveness under fairness, out of the prover's reach, and the violations.
Every other property of a passing run is a theorem, seven of them for handlers or
calls that run one at a time.

## 5. Not modelled

- Lists, searches, statistics and the pages of lists: single queries that write
  nothing. The queries other properties depend on (the feed's pages,
  profile and page of a shout, comments) are in `Shouts` and `Moderation`.
- The distance check of a shout's own page, and positions a client sends with a
  request instead of the stored one.
- Profile data, texts, media files and their storage; a media upload is one step
  of a post.
- The wrappers of Stripe and PayPal (nobody calls them), saved places, the FAQ,
  contact and support desks (single-statement CRUD no other component reads),
  roles, abilities and throttling (stateless checks), the seed command (run once;
  its plans give `MCSubscriptionService` its intervals).
- Call signals of the chat, which pass from one client to another and leave
  nothing behind; mail senders no code calls.
- Which of two refresh tokens of one user is current: `session` says only that
  there is one.
- What administrators edit in texts and settings.

## 6. Plan

Done: `SubscriptionTable`, `RevenueCat`, `StoreEntitlement`,
`SubscriptionService`, `Billing`, `Moderation`, `Accounts`, `AccountIdentity`,
`Shouts`, `Notifications`, `Chat`, and proofs about all of them.

Worth proving next: `PaymentsComeFromDeliveries` of `RevenueCat`; that
`SubscriptionService` with one call at a time implements an abstract promise of
its own, as `RevenueCat` does; which part of the single-handler theorems a unique
index on the table would save under concurrency.

Worth modelling next: `Shouts` and `Moderation` on one table, as `Billing` does
for subscriptions; `Accounts` and `SubscriptionService` on one table of users, in
place of `MoveAddress`.

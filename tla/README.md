# Native Life: a formal model of the API's core

Native Life is a FastAPI application over one PostgreSQL database (`src/app`), with
feature plugins (`src/plugins`) and maintenance scripts (`src/scripts`). It runs in one Uvicorn
process (`docs/websocket.md:8`), whose registry of WebSockets is in memory. Every HTTP request
runs its service in a worker thread, in a database session of its own
(`app/core/database.py:14`), at PostgreSQL's default isolation, READ COMMITTED. Almost all state is in rows, and almost all that is
hard is in what happens *between* the statements of two such sessions: a status read and then
acted upon, a conditional `UPDATE ... WHERE status = ...` that finds the row changed, a lock
that is waited for, a process that dies before its commit.

This directory holds TLA+ modules for those parts, the TLC configurations that check them, and
TLAPS proofs. Run, in this directory:

    tlc -workers 4 -config DealLifecycle_safety.cfg DealLifecycle
    tlc -workers 4 -config DeliveryRequests_safety.cfg MCDeliveryRequests
    tlc -workers 4 -config OrderStock_safety.cfg MCOrderStock
    tlc -workers 4 -config UserSessions.cfg MCUserSessions
    tlc -workers 4 -config Accounts.cfg MCAccounts
    tlc -workers 4 -config Market.cfg MCMarket
    tlapm DealLifecycleProofs.tla
    tlapm DeliveryProofs.tla
    tlapm OrderStockProofs.tla
    tlapm UserSessionsProofs.tla
    tlapm PluginLifecycle.tla
    tlapm MarketProofs.tla
    tlapm AccountPartsProofs.tla
    tlapm AccountsProofs.tla

`PROJECT.json` lists the runs, the source lines each definition models, the hazards and which
property covers each, faulty variants that each property is known to catch, and the theorems.

## Inventory

| Component (source under `src/app`) | State | Operations | Hard part | What makes it correct |
|---|---|---|---|---|
| **Deal lifecycle** (`services/deal_{service,submission_service,acceptance_service,expiry_service,item_service}`, `repositories/deal_{,invitation_}repository`) | `deals` row (status, accepted_count, deadline, published_at, deleted_at), `deal_invitations`, `deal_items` | create, edit, submit, refresh invitations, accept, decline, cancel, delete, expire | invited users race each other, the creator's cancellation and the deadline; status read then acted upon; notices claimed by several sessions | counter agrees with acceptances, published exactly when full and in time, decisions final, one notice each, no deal waits for ever |
| **Deal participation** (`deal_participation_service`) | `deal_participants`, `deals.joined_count` | join, leave | two leaves, leave against ordering, join against cancellation | joined_count = participants; nobody with an open order leaves |
| **Cart** (`cart_service`) | `cart_items` | put, remove, clear | order placed while edited | no item twice, limits |
| **Deal orders, direct orders** (`deal_order_service`, `direct_order_service`) | `orders`, `order_items` | place | last units of an item, rows locked in several orders | never oversold |
| **Order fulfilment and cancellation** (`business_order_service`, `order_service`, `seller_order_service`, `order_fulfilment`, `order_cancellation`) | order status | confirm, ship, deliver, cancel | customer cancels while the business ships | statuses only move forward; stock released exactly once |
| **Commerce stock** (`plugins/product/ecommerce`) | inventory quantity, movements | reserve, release, adjust | row locks in a fixed order, limits 0 and MAX | quantity = sum of movements |
| **Delivery requests** (`delivery_request_service`, `delivery_timeout_service`) | `delivery_requests` of an order | create, escalate, expire, accept, reject, re-request, cancel | several owners race for one order; timeouts against answers; unlocked reads | at most one active request, an accepted one stays with its owner |
| **Delivery routes, settings and plans** (`delivery_{route,settings,plan}_service`, `eligible_route_service`, `delivery_request_service`) | a promoter's routes, working days and fees; the day and fee of an order's request | plan, accept, re-plan, edit | nothing is locked; a plan is made before the request is written and a route chosen at acceptance | the customer is told and charged what was planned last; who accepted can deliver |
| **Addresses** (`user_address_service`) | addresses, default, orders on their way | add, edit, set default, delete | the default is cleared by an `UPDATE` that waits for rows; deletion against ordering | one default; open orders keep their address |
| **Business plugins** (`business_plugin_service`) | `business_plugins`, the log | enable, disable | two first enables, the plugin's removal, a crash before the log | each change logged once |
| **Businesses and their review** (`business_service`, `business_verification_service`) | `businesses` row | create, resubmit, activate, delete; escalate, approve, reject | nothing is locked; columns are written one by one | an active business was verified; one pending review of a new owner |
| **Plugin lifecycle** (`plugin_*_service`, `plugins/cli`) | folders, `plugins` rows, loaded code | import, install, apply, upgrade, enable, disable, uninstall | folders belong to nobody, checks before the lock, a process that dies halfway | versions never go back; an enabled plugin's dependencies are enabled |
| **Plugin runtime** (`plugins/`) | registry of loaded modules | resolve the load order, load, unload | missing, optional and circular dependencies | dependencies first, nothing left out that could load |
| **Account roles, upgrade requests** (`account_role_service`, `role_upgrade_request_service`) | `user_has_roles`, `role_upgrade_requests` | select, submit, approve, reject, assign | a selection and a review lock different rows; rows dated by their transaction's start | a verified role was reviewed; what is pending can be approved |
| **Sessions and tokens** (`session_token_service`) | active and refresh tokens | sign in, rotate, log out | two rotations of one token, logout against rotation | a refresh token works once; pairs are revoked together |
| **Phone and e-mail codes** (`phone_otp_service`, `phone_auth_service`, `email_verification_service`) | codes, the account's phone and address | send, verify, link, register | overlapping sends, guesses on several devices, an address changed meanwhile | a code is used once, guesses are bounded, what is verified was proved |
| **Google sign-in** (`google_auth_service`) | identities, addresses of accounts | sign in, register, link, administrator's edit | found first, written later; the index on addresses passes over deleted accounts | one Google account opens one account; no two live accounts share an address |
| **Native administrators** (`native_admin_service`) | a village's administrator, the role | create, remove | the village is read without a lock | who has the role is the village's administrator |
| **Follows and blocks** (`user_follow_service`, `user_settings_service`, `user_block_service`) | follows, requests, visibility, blocks | follow, accept, decline, change visibility, block | a request against a change of visibility; events after the commit | no request and follow at once, no request for a public owner, the client shows what is there |
| **Communities and polls** (`community_*_service`) | row with counter, members, votes | review, join, leave, block, vote | joins against limits, votes on several devices | counters agree with rows; one decision per submission |
| **Community chat and timeline** (`community_chat_service`, `community_timeline_service`, `community_read_service`) | messages, each member's mark, the client's pages | send, delete, read, load a page | rows are dated by their transaction's start, events come after the commit | unread is what came since the mark; a client that loaded all pages shows what there is |
| **Direct chat** (`direct_chat_service`, `user_block_service`) | conversation, messages, blocks | send, read, block | two first messages; a reading against a message | one conversation per pair; what is ticked was read |
| **Realtime** (`realtime/`, `presence_service`) | registry of sockets in memory | connect, publish, disconnect | a socket's handler leaves the loop to check and to announce | the registry holds only live sockets; the presence told is true |
| **Notifications** (`notification_service`) | rows, read or not, the badge | create, read one, read all | handlers publish the count they read, in any order | the client shows what is unread |
| **Push** (`push_{publisher,sender}`, `device_token_service`) | devices' tokens, the queue, a worker thread | register, remove, send, delete what is invalid | a registration against a deletion or the worker's clean-up | a reachable device stays registered for its last user |
| **Posts: counters, moderation, feeds** (`post_{,like,comment,share}_service`, `saved_post_service`, `community_post_moderation_service`, `post_repository`) | a post's row, likes, saves, comments, counters; membership and blocks | like, save, edit, publish, block, list | a counter moves in a transaction after its row; columns are written one by one; pages by `OFFSET` | counters agree with rows; what is blocked stays blocked; a page has what its reader may see |
| **Events, popular places, products' images** (`event_service`, `popular_place_service`, `plugins/product/ecommerce`) | rows and files | create, edit, add and remove images | files are outside the transaction | what is shown has its file; no file without a row |
| **Lost and found** (`lost_found_service`) | a report, notifications | report, respond, resolve | who was told is kept only in the notifications | whoever was told is told once that it is closed |
| **Categories** (`category_service`) | tree, status | create, suggest, review, move, delete | two moves at once, each checked against the tree before the other | a tree; what search offers may be assigned |
| **Geography** (`geography_import_service`, `geography_layer_detector`, `geography_boundary_derivation`, `native_place_admin_service`) | states, districts, taluks, villages; logs of imports | import, add a village | layers recognised by their columns; an import of a thousand rows in one transaction; a failure logged in another | what is accepted is a tree; all of an import or nothing |
| **Settings** (`setting_service`, `core/{timezone,formatting_context}`) | rows and a copy in memory | write, rename, refresh | of two refreshes the older may be last | the copy is what the rows say |
| **Plugin categories and tables** (`plugin_category_sync_service`, `plugin_installation_service`, `plugins/database_scripts`) | bindings, categories adopted or made, the plugin's tables | apply, upgrade, remove | one transaction over rows that administrators edit | bindings are those the version declares; each migration runs once |
| **Authorization and the handlers' guards** (`api`, `core/permissions`, `account_authorization_service`) | roles, which of them are verified, what they grant | select, approve, assign, grant; every request's check | a permission decides in a route, others in the service behind it, a third set decides who is told | whoever is told of a review may do it; an unverified role opens nothing |
| **Roles, permissions and the seed script** (`role_service`, `permission_service`, `user_service`, `scripts/seed`) | roles, permissions, who holds them | make, rename, grant, delete; seed; a plugin's seeder | the script commits row by row beside administrators; lists are written as differences | roles are as defined when it ends; nobody loses a role to it; only a super admin makes one |
| **Plugin packages, loading, mounting** (`plugin_{package,installation,removal}_service`, `plugins/{runtime,loader,packaging}`) | folder, package, row, what is loaded, what is mounted | package, import, install, apply, uninstall, start | the folder is read anew at each step; routes cannot be unmounted | a request is answered by the code applied; a backup can be installed; business routes are guarded |
| **Plugin manifests** (`plugins/{manifest,versioning}`) | plugins' rows, tables | parse, apply, uninstall | what is whose is told by prefixes of names | a plugin's removal takes its own and only that |
| **AI assistant** (`services/ai*`) | a question under way, the log of tools | ask | the provider may reply anything, and each step reads the database anew | tools are bounded, logged, and asked for by someone who may; no hidden post is told or shown |
| **Settings of users** (`user_settings_service`) | a row per section, preferred lists | read, update | rows made on demand, a commit per section | what was asked last is there; an answered update saved all of it |
| **Collections** (`collection_service`) | collections, their rows of saved posts | create, add, remove, delete | saved posts that go and come back as other rows | a collection holds only what its owner has saved |
| **Media of posts** (`post_media_service`) | rows, files | attach, remove | files are outside the transaction; places are counted first | every image has its files; the order is that of the uploads |
| **Tags, pages and update feed, activity log, delivery tracking, migrations and test data** | records of one owner, configuration, queries | CRUD | little or none | — |

Components interact through rows and direct calls: a deal's publication opens it to
participation and orders; an order reserves stock through the commerce provider a plugin
registers and creates a delivery request; cancelling an order releases its stock and cancels
its request; a business plugin's state decides whether a provider exists at all. After a
commit, services write activity rows and push notices; nothing waits for those.

## Plan

Done, in this order:

1. `DealLifecycle`, `DealContract`, `DealLifecycleProofs`.
2. `DeliveryRequests`, `DeliveryProofs`.
3. `OrderStock`, `OrderContract`, `OrderStockProofs`.
4. `UserSessions`, with liveness, and `UserSessionsProofs`.
5. Users, accounts and communities: `PhoneSignIn`, `EmailCodes`, `GoogleSignIn`, `AccountRoles`*,
   `Follows`, `Communities`*, `Chats`*, `PostInteractions`*, `PostFeed`, `AccountData`*,
   `DeliveryPlans`, `Notifications`*, `LostFound`, `GeographyImport`*, `Access`, `RoleSeeding`,
   `Assistant`, checked together by `MCAccounts`; `AccountPartsProofs`,
   `AccountsProofs`.
6. Customers, businesses, plugins and content: `Participation`, `ProductCatalog`,
   `PluginLifecycle`, `PluginManifests`*, `PluginStorage`*, `SettingsCache`, `BusinessRecords`*,
   `CategoryTree`, `Events`, `PostLifecycle`*, `PopularPlaces`, checked together by `MCMarket`;
   `MarketProofs`.

A module marked * holds two machines about the same things, which run apart; the tables below
give the first word of each one's `Init`, `Next` and type invariant (`VillageNext`). A variable
of both, such as `req`, is one machine's own while that one runs.

To come:

7. Proofs of what the two suites only check so far: devices and chats (`DevicesInformed`), and
   their type invariants.
8. A composition of orders, stock and delivery requests through their shared order row.
9. An individual seller's deal, which has limits and no stock.

Not planned: the last row of the inventory. Two requests meet there only in the last write of
one row, or not at all; `PROJECT.json` gives the reason for each component.

## How a database session is modelled

Every statement that reads or writes shared rows is one action; between two statements of a
request any other session may act. A row has a committed value and, when a session has
written it and not committed, one uncommitted value that belongs to that session, the holder
of the row's lock. A conditional update sees the committed row: if its `WHERE` fails it touches
nothing and does not wait; if it holds, it waits until the lock is free and is evaluated
against the row committed by then (this is READ COMMITTED's re-evaluation). A commit publishes
the session's uncommitted values, a rollback or a crash drops them, and both release the locks
(`CommitWrites`, `RollbackWrites`). The clock is a variable; a handler that reads it keeps the
time it read in `at`.

`DeliveryRequests` uses a lighter form of this. Its handlers write nothing before their commit
(the ORM session has `autoflush=False`), so the rows keep one value, a handler's writes are a
local `draft` that one step flushes and commits, and only `SELECT ... FOR UPDATE` holds a lock
from one statement to the next.

## DealLifecycle

One deal, from draft to its end. `deal`, `newDeal`, `dealLock` are its row (committed,
uncommitted, lock); `inv`, `newInv`, `invLock` the same for each user's invitation, `NONE` when
there is no row; `notified` the invitations whose `notified_at` is set; `notices` counts the
pushes sent. Per session, `req` and `pc` say which statement of which handler comes next.

| Handler | Actions, in order |
|---|---|
| `DealExpiryService.expire_overdue` (also the first thing refresh, accept, decline and cancel do) | `ExpireOverdue` or `NothingOverdue`, `CloseOpen`, `Commit` |
| `DealSubmissionService.submit` | `ReadDeal`, `SubmitDeal` or `UpdateMissed`, `InviteEligible`, `Commit`, `ListUnnotified`, then per invitation `ClaimForNotification` or `AlreadyClaimed` and `NotifyAcceptanceRequested`, `NotifyDone` |
| `refresh_invitations` | expiry, `ReadDeal`, `InviteEligible`, `Commit`, notices as above |
| `DealAcceptanceService.accept` | expiry, `ReadDeal`, `ReadInvitation`, `RecordAcceptance` or `UpdateMissed`, `Decide` or `DecideMissed`, `CloseOpen` when that published the deal, `Commit` |
| `decline` | expiry, `ReadDeal`, `ReadInvitation`, `Decide` or `DecideMissed`, `Commit` |
| `DealService.cancel` | expiry, `ReadDeal`, `CancelDeal` or `UpdateMissed`, `CloseOpen`, `Commit` |
| `DealService.delete`, `DealItemService.add/remove` | `ReadDeal`, `DeleteDeal` and `Commit`, or `EditItem` |

`Reject` stands for the checks on data that is not modelled (not the owner, not eligible, no
thumbnail); a check may always fail. Eligibility at the moment of the insertion is any set of
users. Left out: images, texts, natives, activity rows, and notices other than the acceptance
request. `DEAL_MAX_ACCEPTANCES` is 1 in the code, with a column and SQL written for any
number; the model has it as a constant, is checked with 1 and proved for any.

`DealContract` is the same deal without sessions: each operation is one step on the status and
the invitations. Two of its steps record what the code really allows: a refresh that read a
waiting deal may invite users after the deal ended (`Refresh` has no guard on the current
status), and a closing that races with an invitation may miss it (`C` is any set of open
invitations).

### Runs

| Run | Instance | Shows |
|---|---|---|
| `deal_safety` | 2 users, 2 sessions, one acceptance needed (the code's `DEAL_MAX_ACCEPTANCES`), all kinds of request, clock 1..2 with timeout 1, 1 crash; 1.25 M states | `TypeOK`; `AcceptanceOutcome` (the counter agrees with the acceptances, a deal is published exactly when full and in time, expired only after its deadline, and no invitation stays open when it ended); `NotifiedOnce`; `DecisionsFinal`; `ImplementsContract`: every step is a step of `DealContract` or changes nothing it sees |
| `deal_liveness` | 1 user, 2 sessions, 1 crash, no edits | `RequestsFinish`: every request ends; `OverdueResolved`: an overdue deal is resolved |

Two users and two sessions are the smallest instance where two acceptances, an acceptance and
a refusal by one user, or a close and an insertion meet; that more sessions and more needed
acceptances change nothing is what the proofs add. One tick of the clock reaches the
deadline, since what matters is only whether a time is before or after it.

### Fairness

`FairSpec` has strong fairness of each session's next statement: PostgreSQL queues lock
requests, so a statement that finds its row free again and again gets it. It has strong
fairness of a new run of the expiry script, which the README of the repository asks to be
scheduled ("python -m scripts.expire_deals"); no other request has to arrive.

### Draft deals

*"Only draft deals can be changed"* (`app/core/messages.py:311`) is not kept across a concurrent
submission: item edits and deletion check the status they read (`get_owned_draft`) and write
later without repeating the check, unlike `mark_submitted`, `record_acceptance`, `cancel` and
`expire_overdue`, which repeat it in their `WHERE` clause. `EditItem` and `DeleteDeal` are
modelled as the code does it; `DealContract` states what is left of the rule (`Delete` is
possible in any status). `PROJECT.json` lists both as hazards.

### Proofs

`DealLifecycleProofs` proves, for every set of users and sessions and every limit (assuming
that the users are finite, that `NoSession` and `NoUser` are no member of theirs, and that the
limits are naturals):

- `TypeCorrect`: `Spec => []TypeOK`.
- `Inductive`: `Spec => []IInv`. The safety invariants speak of committed rows, and are not
  inductive: a commit publishes what was written several statements earlier. `IInv` therefore
  says what every open transaction has written, by the statement its session is at
  (`DealWrites`, `InvitationWrites`), that locks and unfinished transactions correspond
  (`DealHeld`, `CleanRows`), and that an acceptance about to be committed has written both its
  rows (`AcceptanceWritten`). The step for a commit then has one case per handler; all other
  steps leave the committed rows alone (`RowStable`).
- `Safety`: `AcceptanceOutcome` follows.
- `FinalDecisions`, `ForwardStatus`: the two action properties.
- `Refinement`: `Spec => ImplementsContract`. Only a commit changes what the contract sees
  (`OnlyCommits`), and each commit is an operation of the contract (`CommitRefines`).
- `NotifiedOnceAlways`: nobody is sent the acceptance request twice, or uninvited. `NoticesInv`
  says of the sessions that send (`Sending`) that no two are about to send to one user, that his
  invitation is marked and his notice not yet counted; marking is one committed statement, so that
  a session that dies between it and the push loses the notice and repeats none. That an
  invitation never disappears (`InvitationsStay`) comes from `IInv`.

Model-checked only: both liveness properties (liveness under fairness is out of the prover's
reach).

## DeliveryRequests

One order and its delivery requests, from the one it was placed with. `order` is its status and
promoter; `requests` the rows by order of insertion, `NONE` when not inserted yet; `orderLock`
and `requestLock` who selected them `FOR UPDATE`; `before` in which order the transactions
started that inserted a request or are about to (it decides `created_at`, and so which request
is the latest). Per session: the handler it runs (`job`), its next statement (`pc`), who called
(`actor`), the request answered (`target`), what it read and not yet wrote (`seenOrder`,
`draft`, `seenActive`), and when an acceptance was sent (`began`, for one property).

| Handler of `delivery_request_service.py` and its callers | Actions, in order |
|---|---|
| `expire_overdue` (first in all below but `cancel`) | `NothingOverdue`, or `ExpireOverdue` and `CommitExpiry` |
| `list_for_promoter`, `get_for_order` | expiry only |
| `accept`, `reject` | expiry, `OpenRequest` or `NotOpen`, `CommitAnswer` or `RouteRefused` |
| `re_request` | expiry, `ReadOrder`, `ReadLatest` or `NotRetried`, `InsertRequest` or `InsertRefused` |
| `OrderCancellation.cancel`, called by customer, business or seller | `LockOrder` or `NotCancellable`, `ListActive` or `StockNotReleased`, `CommitCancellation` |
| `OrderFulfilment.change_status` | `ChangeStatus` |

A flush writes the order's promoter only if the handler changed the value it had read
(`WritesOrder`), as the ORM does, and then waits for the order's lock; the cancellation's flush
waits for the requests it writes. When both wait for each other, PostgreSQL fails one of them
(`DeadlockVictim`). Routes, fees, dates and distances are abstracted: whoever else could serve
the order, whether a plan exists and whom it names, whether a route can serve and whether stock
can be released are free choices. Left out: notices, activity rows, the views of stops and of
the rider, deletion of users.

### Runs

| Run | Instance | Shows |
|---|---|---|
| `delivery_safety` | 2 promoters, 2 sessions, every handler, crashes; `within` allows two requests and the clock 1..3, or three requests and no time; 1.7 M states | `TypeOK`; `RequestsConsistent` (one active request; the order's promoter is the one who accepted; the lock discipline); `FirstAcceptWins`; `OpenedOnce`: a request is opened to others at most once; `CancelTakesAll`: a cancellation takes all active requests |
| `delivery_liveness` | 1 request, clock 1..3, no re-request, no customer cancellation, no status change, no crashes | `HandlersFinish`: every handler ends; `OverdueResolved`: an overdue request is opened or ended |
| `delivery_cancelled` | 2 requests | `CancelledNotDelivered`, found violated: see Findings |

With both windows 1 and the clock at 3, an unanswered request passes its time and is opened, and
one refused at 1 and opened then passes its claim time too. Two promoters are one to be passed
over and one to claim. Three requests let two racing re-requests both succeed, one after the
other, and a fourth caller see the result; time adds nothing to that race, so `within` stops
the clock there. Promoters and sessions are symmetric except in the liveness run.

### Fairness

Strong fairness of a session's next statement and of `CommitExpiry`: PostgreSQL queues those who
wait for a row. Nothing expires a request but a call of one of the handlers, so
`OverdueResolved` also assumes of the environment that promoters go on listing their requests,
now and then at a moment when nobody holds one, and that such an expiry gets its turn.
Without that last assumption it fails: acceptances that are refused for their route can hold the
overdue row in turn, and `SKIP LOCKED` passes over it each time.

### Findings

*"This order can no longer be delivered"* (`app/core/messages.py:442`) is tested by `re_request`
on an order it read without a lock. `delivery_cancelled`: the customer asks again, the order is
cancelled after that read, and the cancelled order has an open request.

Two more races are in the model, and listed as hazards. A re-request tests the latest request by
`created_at`, the start of the inserting transaction: of two that start and insert in opposite
orders, the later one's refusal hides that the other's is active, and a third re-request is
stopped only by the unique index. And `accept` looks for overdue requests first, but skips a
row that another session holds: when that one gives up, a late acceptance is granted.

### Proofs

`DeliveryProofs` proves for any promoters, sessions, windows and bounds (the windows at
least 1, `NoPromoter` and `NoSession` no members):

- `Inductive`: `Spec => []IInv`. `OneActive` is kept by the index alone when a row is inserted,
  but a flush writes a row back from a draft made earlier: `RequestsHeld` says that a held row
  is still open, and so the one active row; hence only one session holds any
  (`FlushersHold` makes it be the one that flushes). That also fixes the order's promoter between
  its reading and the flush, for only flushes of held rows and insertions beside no active row
  write it: this is why the promoter may be left unwritten when it seems unchanged
  (`AcceptedByOrdersPromoter`).
- `TypeCorrect` and `Safety` (`RequestsConsistent`) follow.
- `FirstWins`: held rows are open, new rows replace none, and only the cancellation writes others.
- `CancelComplete`: `OrderHeld` says that all active requests stay among those the cancellation
  listed; new ones cannot be inserted while it holds the order.

Model-checked only: `OpenedOnce`, `HandlersFinish`, `OverdueResolved`.

## OrderStock

The orders on the products of one shop, and the stock behind them. `stock` is the committed
quantity of each product; `movements` the sum of the stock movements of each product per order
id, with `NoOrder` for the shop's own; `orders` each order's status, whether it is on the deal,
and its quantities (`NONE`: nobody's id yet). `itemLock`, `orderLock`, `stockLock` name the
session that selected a deal item, an order, a stock level `FOR UPDATE`. Per session: the
handler (`job`), its next statement (`pc`), the order it is about (`target`), what it will add
to each product's stock (`change`), and what it read (`seenStatus`, `seenStock`).

| Handler | Actions, in order |
|---|---|
| `DealOrderService.place` | `PlaceOnDeal`, `LockItem` per item, `CheckLimits` or `LimitExceeded`, `LockStock` per product, `CommitPlace` or `Insufficient` |
| `DirectOrderService.place` | `PlaceDirect`, `LockStock` per product, `CommitPlace` or `Insufficient` |
| `OrderCancellation.cancel`, called by the customer (`cancel_mine`), the business (`cancel`) | `AskCancel`, `LockOrder` or `NotPermitted`, `LockStock` per product or `NotServed`, `CommitCancel` or `Insufficient` |
| `OrderFulfilment.change_status` | `AskChangeStatus`, `LockOrder` or `NotPermitted`, `CommitStatus` |
| `InventoryService.adjust` | `AskAdjust`, `LockStock`, `CommitAdjust` or `Insufficient` |

A `SELECT ... ORDER BY id FOR UPDATE` of several rows takes them one at a time and may wait
before each; other sessions act in between. What a handler flushes before its commit stands
under locks that everybody who reads it for a decision takes first, so all it writes is one step,
the commit. `Die` is the end of its process or connection at any point.

Left out: the checks before a handler's first lock, which read rows that this module does not
have and refuse without a trace (deal open, joined, price, active product, plan); an individual
seller's deal (limits but no stock); thresholds; the last statement of a cancellation, which
writes the delivery request (`DeliveryRequests` has it, with the deadlock it can cause). The
deal's limits are constants: `DealLifecycle` shows when items may change.

`OrderContract` is the same without sessions: an order is placed if all its units are on hand
and within what is left of the deal's items *at that moment*; a cancellation gives them back.

### Runs

| Run | Instance | Shows |
|---|---|---|
| `orders_safety` | 2 products, their items numbered the other way round, with limits 1 and 2, 2 orders, 2 sessions, stock 0..2, all handlers, crashes; 750 000 states | `TypeOK` with the stock's limits; `OrderLedger`: an order takes its units once and gives them back at most once; `StockAccounted`: stock is the sum of its movements, and the deal's limits hold; `NoDeadlock`: no circle of waiting sessions; `StatusPath`; `ImplementsContract`: every commit is one atomic operation of `OrderContract` |
| `orders_liveness` | 2 products, 2 orders, stock at most 1; placing, the business's cancellation, change of status | `RequestsEnd`: every request comes to its end |

Two products whose rows and items sort differently are the least that a circle of waiting
needs, and two orders the least that oversell a limit of one: `MaxQuantity` is 1, so an order
takes one unit of either product or of both. One limit is above the orders' sum, so that the
stock is what refuses there. Larger quantities meet the same comparisons later; that nothing
depends on them is what the proofs add (`OrderStockProofs` holds for any quantity).

### Fairness

Strong fairness of every statement that waits for a row lock: PostgreSQL serves those who wait
in turn, so others that take and release the row again and again do not keep anyone out. Weak
fairness of the other statements. Requests, deaths and the plugin's absence are never forced.

### Proofs

`OrderStockProofs` proves for any products, items, limits, orders and sessions, and any maximal
stock:

- `Inductive`: `Spec => []IInv`. `Protected` says why a handler may act on what it read: the
  order that a session selected is still as it read it (`OrderSeen`), each stock level it holds
  too, and when it writes it holds all of its lines (`StockSeen`); an order that is being placed
  is one session's (`OrdersApart`). With these `OrderLedger` is kept by each commit: without
  `OrderSeen` a second cancellation would release again. `LocksInOrder` says that what a session
  has still to lock comes after all it holds, orders before items before stock.
- `TypeCorrect`, `LedgerHolds`, `StatusesFollow` follow.
- `StockAccountedAlways`: a product's stock is the sum of its movements, and its item on the deal
  never oversold. The sums over all orders are counted, not added up: `Units` is the set of
  pairs of an order and a number up to what it took of the product, and `Total` that set's
  cardinality, so that a commit, which changes one order, adds or removes a finite set disjoint
  from the rest (`TotalFollows`). `Accounted` adds to the property what a placing has still to
  write: it counted the deal's units when it had the item, and while it holds the item nobody
  else's order is added to them.
- `ContractImplemented`: `Spec => ImplementsContract`. The commits are the contract's operations;
  that the limits it tests *at that moment* hold is `Accounted`.
- `NeverDeadlocked`: among waiting sessions take the one whose awaited row has, in that order,
  the greatest place (the least distance from the end, a well-founded argument); its holder is
  not waiting, or waits for a row yet greater.

Model-checked only: `RequestsEnd`.

## UserSessions

One user's sessions. `active` is the set of active-token rows, `refresh` the state of each
refresh-token row, `family` the sign-in that a token descends from; `activeLock` and
`refreshLock` say which request's transaction has a row. `registered` is the connection
registry of the one process; `socket` says where each socket's handler is.

| Code | Actions |
|---|---|
| `SessionTokenService.issue` (sign-in) | `SignIn`, `Issue` |
| `rotate` | `SelectRefresh`, `DeactivateRotated`, then `Issue`, or `CommitRefusal` when the user was suspended |
| `AuthService.logout` | `AskLogout`, `DeleteActive`, `RevokePair`, `CommitLogout` (which schedules `CloseToken` on the event loop, or logs that it could not) |
| PostgreSQL's deadlock detection | `DeadlockVictim`: a logout locks a pair's rows in the opposite order of a rotation |
| the WebSocket endpoint and `ConnectionManager` | `Authenticate`, `Register`, `Drop`, `Leave`, `CloseToken` |
| `PresenceService`, `_announce` | `Describe`, then `Publish`; `AnnounceFails` before or after describing, which is logged and no more |
| time and the process | `Expire`, `Suspend`, `Restart` |

`Describe` reads the registry in a worker thread and `Publish` sends what was described later:
two announcements at once may arrive in the wrong order, and one that fails (a statement, the
publication, a user who is gone, a partner who is not connected or may not see him) is not
repeated: the handler goes on. So `PresenceTrue` excepts runs in which two announcements were under
way at once (`crossed`), and the time from a failed announcement to the next that is described
(`missed`). Both are the code's behaviour; `PROJECT.json` has them as a hazard.

| Run | Instance | Shows |
|---|---|---|
| `sessions` | `using` chooses 1 request and 3 tokens, 2 requests and 2 tokens, or 1 request, 1 token and 3 sockets (no suspension); at most 2 connections; 110 000 states | `TokensPaired`: a refresh token works once, a pair is revoked together; `PresenceTrue`: only live sockets are registered, and the presence told is true at rest, unless announcements crossed or the last one failed; `EverythingEnds`: every request and every socket comes to its end |

Three tokens let a rotation be rotated again, two requests race for one token, three sockets
meet a limit of two. Tokens and sockets only meet in `CloseToken`, so no part of the instance
needs all of everything. Fairness: weak for worker threads and the event loop, for a token's
expiry (time passes) and `close_token`; strong for statements that wait for a row lock, which
PostgreSQL grants in turn, `DeadlockVictim` among them. Clients never have to do anything: a
socket ends because its token's time is over.

### Proofs

`UserSessionsProofs` proves for any tokens, requests, sockets and limit of connections:

- `TypeCorrect`, `TokensPairedAlways`, `PresenceTrueAlways`, from `Invariance`: `Spec => []IInv`.
- `TokensPaired` speaks of rows, and is kept by a commit only because the token that a rotation
  selected is still valid, and its row still that rotation's, when it writes the next pair
  (`RowsHeld`); an active token is one of a valid pair (`ActiveValid`) and every token descends from
  one that was issued (`Descend`), or a logout could leave one of a family behind.
- `PresenceTrue` is about rest. `Announced` says what holds on the way: while a socket is
  registered, either somebody will still describe the user, or what was described last is
  "online"; while none is, the same of "offline", or a handler whose socket was dropped has still
  to leave. It is claimed under the property's exceptions, `crossed` and `missed`; an announcement
  that is described after a failed one makes it true again.

Model-checked only: `EverythingEnds` (liveness).

## Suites of independent components

`MCAccounts` and `MCMarket` check small components, each by itself. `scenario` says which one
runs; it is chosen in the initial state and never changes, and `Next` has one conjunct per
component (`IF scenario = ... THEN X!Next ELSE UNCHANGED ...`). Variables of the same name are
shared between components, the others are `"off"`. A run is then as large as the sum of its
components. Both configurations say `CHECK_DEADLOCK FALSE`: bounded components use up their
rows, and some are algorithms that end.

A suite's properties are one per area, each a conjunction of the components' own: the tables
below name both.

Many handlers of these components lock nothing between reading and writing, and some
properties one would like do not hold when two requests overlap, or when a process
dies between two commits. The model has those behaviours; a history variable records that one
has happened, and the property says what holds otherwise. Each is set by the very steps that do
the harm, never by more than the beginning of the request, and `PROJECT.json` lists the
important ones as hazards at the line that allows them. They are:

- requests that overlapped: `raced` (`PhoneSignIn`: an account written from an older reading),
  `hasty` (`EmailCodes`: two sends at once), `disturbed` (`Follows`: of which users;
  `RoleSeeding`: an administrator committed while the script ran), `touched` (`PluginStorage`:
  the folder edited during a handler), `overlapped` (`Participation`, `PluginLifecycle`,
  `Events`, `PostLifecycle`, `Notifications`, `AccountRoles`, `PopularPlaces`, `LostFound`,
  `DeliveryPlans`, `ProductCatalog`, in several of them the kinds of request or the rows
  concerned), `overlaps` (`AccountData`: of addresses, how often), `slips` (`PostInteractions`: how often),
  `crossed` (`CategoryTree`: two moves; `AccountData`: an order and an address's deletion;
  `SettingsCache`: a commit during a refresh; `GeographyImport`; `AccountData`: of which settings'
  sections and lists), `excused` (`BusinessRecords`), `contested` (`Notifications`: devices
  registered during their removal),
  `muddled` (chats: messages sent during a reading), `swapped` (`Chats`: announced after
  their deletion);
- cut short: `crashed`, `cut`, `left` (`ProductCatalog`: files saved before one that could not be);
- what administrators and moderators did: `moved` (`EmailCodes`: the address changed while a
  code was out; `PluginStorage`: a category moved), `irregular` (`AccountRoles`: an assignment,
  rows dated out of order), `edited` (`GoogleSignIn`: an address put in another's place;
  `DeliveryPlans`: settings changed after they were relied on), `roleFell` (`Communities`),
  `reviewed` (`BusinessRecords`), `deleted` (`AccountRoles`), `removed` (`PluginStorage`:
  uninstalled since the server started, which leaves its routes mounted).

### `accounts`: MCAccounts, 1.68 M states

| Module | State | Actions | Property |
|---|---|---|---|
| `PhoneSignIn` | `codes`, the advisory lock per phone (`sending`), the row locks of codes (`checking`), each account's phone and whether it is verified | `LockPhone`, `CommitCode`, `MessageSent`/`MessageFailed` (`PhoneOtpService.send`); `AskSignIn`, `AskLink`, `LinkCode`, `WrongCode` (`verify`); `CommitSignIn`, `ListHolders`, `CommitLink`, `CommitRegister` (`PhoneAuthService`); `AskEdit`, `CommitEdit` (`UserService.update`) | `CodesProved`: one code per phone, used once, sends within the limits; a verified phone was proved for that account |
| `EmailCodes` | the address, `codes` with attempts and locks, where the code went | `AskResend`, `AskLink`, `SaveAddress`, `EnforceCooldown`, `Invalidate`, `CreateCode`, `Mail`; `AskVerify`, `LockNewest`, `WrongCode`, `RightCode` | `CodesProved`: no more wrong answers than allowed however many guess at once; the verified address is the one the code went to |
| `GoogleSignIn` | accounts with their address, its verification mark and where it came from, `identities` | `SignIn`, `Register`, `CreateAccount`, `StartSession`, `Link`, `AddIdentity`; `EditEmail`, `SaveEmail`, `Delete`, `Suspend` | `CodesProved`: one account per Google account, no two live accounts share an address, and what is marked verified Google vouched for |
| `AccountRoles`: Account | role rows with the start of the transaction that made them, requests, three kinds of lock | `LockUser`, `CancelPending`, `CommitSelect`; `CheckState`, `CommitSubmit`; `LockRequest`, `LockAssignment`, `ReadRoles`, `CommitApprove`, `CommitReject`; `CommitAssign` | `RolesReviewed`: verified only by an approved request for that assignment; what is pending can be approved |
| `AccountRoles`: Village | the village's administrator, who holds the role | `Create`, `CommitCreate`, `Remove`, `CommitRemove`, `DeleteUser` | `RolesReviewed`: who has the role is the administrator, and the reverse |
| `Follows` | follows, requests, visibility, what the owner's client shows | one action per statement of `follow`, `unfollow`, `accept`, `decline`, `update_privacy`, and per event | `AudienceConsistent`: no follow and request at once, no request for a public owner, the client shows what there is |
| `Communities`: Community | the row, the members, the owner's role | `Lock`, then one commit per handler | `CountersTrue`: the counter is the number of active members, within the limit; `DecisionsHold`: decided once for each submission |
| `Chats`: Community | messages with the date of their transaction, the reader's mark, the client's `timeline` and `pager` | `SendToAll`, `CommitMessage`, `Delete`, `CommitDelete`, `Broadcast`, `AskRead`, `SaveMark`, `NextPage` | `DevicesInformed`: unread is what came since the mark; a client with all pages shows the messages there are |
| `Chats`: Direct | conversation, messages, blocks, the client's ticks | `Send`, `GetOrCreate`, `AddMessage`, `PublishMessage`, `MarkRead`, `UpdateRead`, `PublishRead`, `Block`, `Unblock` | `DevicesInformed`: ticked exactly if read |
| `PostFeed` | two posts, the reader's membership and blocks, the listing being paged through | `Open`, `NextPage`, `TimelineIds`, `TimelineDetails`, `OpenDetail`, `ChangePost`, `ChangeMembers`, `CloseCommunity`, `Save`, `Unsave` | `AudienceConsistent`: a page has what its reader may see, and no post is missed or repeated but by those that leave or come between two pages |
| `Communities`: Poll | votes, counters, the poll's lock | `CheckMember`, `LockPoll`, `CommitVote` | `CountersTrue`: each counter is the number of its votes |
| `PostInteractions`: Counter | rows, the counter | `Add`, `InsertRow`, `Remove`, `DeleteRow`, `AdjustCount`, `Crash` | `CountersTrue`: off by no more than the crashes and overlaps of one user |
| `AccountData`: Book | addresses, defaults, addresses of open orders, row locks | `Create`, `SetDefault`, `FindDefaults`, `ClearDefault`, `Write`; `Delete`, `DeleteRow`, `Replace`; `Order`, `PlaceOrder`, `OrderEnds` | `PlacesConsistent`: one default, no address deleted from under an open order |
| `DeliveryPlans` | routes, settings of promoters, the order's day and fee, its request, `quoted` | `Plan`, `InsertRequest`, `Accept`, `CommitAccept`, `Reject`, `Expire`, `Edit`, `SaveSettings`, `UpdateRoute`, `DeleteRoute`, `NextDay` | `PlacesConsistent`: the customer is told and charged the plan in force; who accepted can deliver |
| `GeographyImport`: Source | the archive, what each layer was taken for, the areas read | `Detect`, `ReadDirect`, `Derive`, `Validate` | `PlacesConsistent`: no reader meets a layer without its columns; what is accepted is a tree with every row in its place |
| `GeographyImport`: Import | areas, who writes them, the log | `StartImport`, `Upsert`, `Complete`, `RollBack`, `LogFailure`, `AddVillage`, `InsertVillage`, `Crash` | `PlacesConsistent`: all or nothing as the log says, no circle of waiting imports, no point covered twice by hand |
| `Notifications`: Notice | unread notes, the client's list and badge | `Create`, `AddSettings`, `AddNote`, `MarkRead`, `MarkAllRead`, `CommitRead`, `CountUnread`, `Publish`, `Reload` | `DevicesInformed`: the client shows what is unread |
| `Notifications`: Push | who registered which token, the queue, the worker's message | `SignIn`, `Register`, `Upsert`, `Remove`, `DeleteRow`, `Uninstall`; `PublishPush`, `Take`, `SendOne`, `DeleteInvalid`, `Crash` | `DevicesInformed`: a reachable device stays registered for its last user |
| `LostFound` | the report, who listens, who was told, responded, was told of the closing | `Create`, `AddReport`, `TellNearby`, `Respond`, `NotifyOwner`, `LogResponse`, `Resolve`, `SaveResolved`, `FindInformed`, `TellClosed`, `Delete`, `SaveDeleted` | `DevicesInformed`: whoever was told is told once that it is closed; one response each, answered unless its handler was cut short |
| `Access` | for each handler of each file of routes what its caller needs; one account's roles, which are verified, what roles grant, whether the plugin's seeders ran | `Select`, `Approve`, `Reject`, `Assign`, `NameAdmin`, `RemoveAdmin`, `SetStatus`, `Grant`, `ApplyPlugin`; a request's guard is `Calls` | `RolesReviewed`: a pending role opens no more than the base role does, administration asks for an administrator, who has an override permission passes the guard in front of it, whoever is told of a submission may see and approve it; `DecisionsHold`: an approval takes nothing away |
| `RoleSeeding` | permissions' names, roles with their permission rows, who holds which, the script's and one administrator's place | one action per commit of `scripts.seed` (`SeedPermission`, `ListRoles`, `CheckObsolete`, `RemoveObsolete`, `SyncRole`, `SeedUser`, `StopSeed`), `GrantDeclared`; `CreateRole`, `RenameRole`, `DeleteRole`, `RenamePermission`, `DeletePermission`, `AskGrant`, `CommitGrant`, `AskAssign`, `CommitAssign`, `AskDelete`, `CommitDelete` | `RolesReviewed`: a script that ends undisturbed leaves the roles as the code defines them; `DecisionsHold`: it takes a role only from who got it while it ran, and only a super admin's handler touches administrators |
| `Assistant` | what the database says of the asker, the posts and a plugin; the loop; the log; what was told and shown | `Ask`, `ReplyIntent`, `Retrieve`, `ReplyAnswer`, `RunTool`, `Edit` | `RolesReviewed`: each tool ran with the right it needs; `AudienceConsistent`: the provider is told, and the app shown, only posts that the asker could see at some time since asking; `DevicesInformed`: replies and calls are bounded, each call that was made is logged once |
| `AccountData`: Preference | a field of each section, the lists, what was last asked, each session's remaining statements | `Ask`, `Validate`, `Get`, `Add`, `Save`, `FindRows`, `DeleteRows`, `InsertRows`, `Log`, `CutShort` | `DevicesInformed`: a section is what its last update asked, unless that met another; an answered update saved and logged all of it |
| `PostInteractions`: Collection | owners, saved rows, entries | `Save`, `Unsave`, `ChangeVisibility`, `Create`; `Begin`, `GetOwned`, `GetVisible`, `GetSaved`, `AddEntry`, `DeleteEntry`, `DeleteCollection` | `AudienceConsistent`: a collection holds only posts its owner has saved |

Two users, two sessions, unless said otherwise. "one phone" has two accounts that claim one
phone, two codes and one wrong guess; "two phones" has no accounts and limits of one, so that
two sends race for the limit of an address. E-mail: two addresses, of which
the account starts with one, two codes, two guesses.
Google: two Google accounts with an address each. Roles: two roles to verify, three requests,
three dated transactions, enough for a request that is filed, superseded and reviewed late
(with four, 870 000 states, the same properties hold). Community: two
users and the owner, limits of 1, 2 or none, a bound of three resubmissions above the code's
limit, set to 2. Poll: two options, single or multiple choice. Chats: two messages; the
community's pages have one, so that a message is deleted between two pages. Feed: one session
of a visitor, a minor, an adult or a moderator pages one by one through two posts of three
kinds, while at most two things change. Addresses: three, so that a default is replaced by one
of two. Plans: two promoters, one with a route that does not reach the address, weeks of two
days, one edit. Imports: two of one state whose districts come in different orders. Archives:
all those of up to two rows in each layer. Push: two tokens, one worker, one message. Access:
one account, two roles at a time, each handler of every file of routes. Seeding: two users, two
permission rows, two built-in roles and one made by hand, two edits. Assistant: two posts, one tool iteration, one
change by others. Preferences: two sections, one list of two known ids, three updates that meet
in all they write. Collections: one collection of one post that is saved up to three times, two
sessions.

Finding: `roles_none`. *"Switching roles or going back to Individual User re-adds the base
role"* (`docs/roles-and-permissions.md:24`), so that no account is without one. A selection
locks the user's row and an approval the request's. A selection that read the roles before an
approval removed the base role takes the base role to be there and does not add it: the account
has no role at all (`AlwaysARole`). The run has the roles by themselves (`NoVillageRoles`).

### `market`: MCMarket, 1.37 M states

| Module | State | Actions | Property |
|---|---|---|---|
| `Participation` | participants, `joined_count`, cart lines, open orders of one deal | `AskJoin`, `CheckNotJoined`, `CommitJoin`; `CheckJoined`, `CheckNoOrder`, `CommitLeave`; `CheckOrderer`, `CommitOrder`, `CancelOrder`; the cart's `ReadLine`, `WriteAdded`, `WriteUpdated`, `DeleteLine`, `RemoveDeal` | `CustomersConsistent`: the count is exact unless one user sent two requests at once; orders and carts only on a joined deal |
| `PluginLifecycle` | folders, rows, loaded code, the advisory lock | `PlaceFiles`, `MoveAside`, `Validate`, `SmokeLoad`, `LockForApply`, `Register`, `FailApply`, `Load`; `AskEnable`, `AskDisable`, `CommitStatus`; `RemoveRecords`, `Unload`, `Erase`; `Restart` (`build_registry`) | `VersionsRise`, always; `PluginsConsistent` when requests do not overlap |
| `PluginManifests`: Order | the passes of `resolve_load_order` | `Examine`, `NextPass`, `StartSorting`, `Place`, `FailBlocked` | `PluginsConsistent`: dependencies first, every key placed or failed, "cycle" said of exactly the keys on one, nothing left out that could load |
| `PluginStorage`: Database | the version, bindings, the categories, migrations applied, the transaction's own view of all of them | `Ask`, `LockForApply`, `Resolve`, `Bind`, `Migrate`, `Commit`, `RemoveRecords`, `RollBack`; `Administer` | `PluginsConsistent`: bindings and tables are those of the registered version, whatever failed |
| `SettingsCache` | rows, the copy | `Write`, `Rename`, `Commit`, `ReadSetting`, `SetCache`, `RefreshFails`, `Restart` | `PluginsConsistent`: at rest the copy is what the rows say |
| `BusinessRecords`: Plugin | the row, its lock, the log | `FindRow`, `FindNothing`, `Insert`, `CommitStatus`, `WriteLog`, `RemovePlugin`, `Restart` | `BusinessesConsistent`: each change logged once |
| `BusinessRecords`: Review | the owner's businesses, whether the role is approved | one action per handler's check, `Commit` | `BusinessesConsistent`: one pending review of a new owner, what is active was verified |
| `CategoryTree` | the tree, each category's status | `Add`, `Approve`, `Reject`, `Update`, `Delete`, then per query `CheckMove`, `CheckParent`, `CheckChildren`, and `Commit` | `CategoriesConsistent`: every category is below a root; an active one is published; what search offers may be assigned |
| `Events` | schedule, state, images, files | `Update`, `Feature`, `Save`; `AddImages`, `CountImages`, `WriteFile`, `InsertRow`, `InsertFails`, `RemoveImage`, `DeleteRow`, `DeleteFile` | `ContentConsistent`: ends after it starts, featured only while scheduled, images within their limit and with their files |
| `PostLifecycle`: Moderation | the post, announcements | `Update`, `Unblock`, `Delete`, `Save`, `Announce` | `ContentConsistent`: what is blocked stays blocked; announced no more often than published |
| `PopularPlaces` | rows, files | `Update`, `Delete`, `WriteFile`, `Commit`, `CommitFails`, `Refresh`, `DeleteFile` | `ContentConsistent`: the image of a place is on disk |
| `ProductCatalog` | SKUs, prices, images, files | `Create`, `SaveFiles`, `SaveFails`, `CommitProduct`; `ChangePrice`, `CommitPrice`; `AddImage`, `CommitImage`; `RemoveImage`, `DeleteImage`, `DeleteFile` | `ContentConsistent`: no price above the original, no SKU twice, every image has its file |
| `PluginStorage`: Package | folder, package, row, loaded code, mounted routes, the handler under way | `Edit`, `AskPackage`, `Pack`, `Import`, `InstallFiles`; `AskFolder`, `Discover`, `Check`, `Register`, `Fail`, `Load`; `Start`, `Enable`, `Disable`, `Uninstall` | `PluginsConsistent`: a request is answered by the code that was applied and loaded, or refused; what was applied loads at a start unless its folder was edited; a backup can be installed; every route of a business is behind its check |
| `PluginManifests`: Manifest | the manifest under test, the plugins applied, the tables | `Apply`, `Uninstall` | `PluginsConsistent`: categories hang below the plugin's root, permissions of two plugins differ, required dependencies stay applied, versions compare as their numbers, removal drops all of a plugin's own tables and no others but those that two keys claim |
| `PostLifecycle`: Media | rows with their places, files | `Attach`, `CountRows`, `SaveFile`, `SaveThumbnail`, `AddRow`; `Remove`, `DeleteRow`, `DeleteFiles`; `CutShort` | `ContentConsistent`: every image and video has its files and no file is left over; they are listed in the order they were attached |

Two users or businesses, two sessions. Plugins: two, one of which needs the other, with one
session; or one with two sessions; two versions. The order of loading is computed for every
combination of manifests of three keys, of which at most one is missing, each naming the others
as required, optional, either with a range that does not allow the version found, or not at all.
Tables of a plugin: three versions that declare different ones of two categories and of three
migrations. Categories: two with every operation by two sessions, or three and moves only, which
is what a circle needs. Events, products and places have three images between them: an event may have
two, with every schedule of three times; of products there are two, with two SKUs, prices up to 2
and two images each. Packages: one edit of the folder. Manifests: one after
another of a set with each field good and wrong, beside two others whose keys and tables share
words. Media: three files in all, two sessions, uploads of which one is refused.

What the models show of the code, beyond the properties that hold (in each case the property
has the exception):

- two moves, each checked against the tree before the other's commit, make two categories each
  other's parent, against *"A category cannot be moved under one of its own
  descendants"* (`app/core/messages.py:226`);
- of two creations of a village's native administrator the second takes the village and both
  accounts keep the role (*"This native place already has a native admin"*,
  `app/core/messages.py:863`);
- a settings refresh that read before another's commit may be the last to write the copy, and
  the process then answers with the old value until a setting is written again;
- an update that reads a post's status again at its end announces what another request made of it;
- two overlapping edits leave a product dearer than its original price; an import of several
  product images that fails in the middle leaves files that nothing refers to;
- a counter of likes, saves, comments or shares that a crash left off by one stays so;
- an administrator's edit of an e-mail address keeps the mark that the former one was verified;
- a route request that was planned before its order's other request was written keeps a stale
  plan; a responder to a report is remembered only by the owner's notification, so that an owner
  who does not listen hears of one person twice;
- a page by `OFFSET` misses a post when one of an earlier page leaves the listing; the
  timeline's cursor does not;
- two replacements of one list of preferences that overlap can leave the union of both, and a
  first reading of the settings by two sessions fails one of them after earlier sections were saved;
- the place of a new image is the number there are, so that after a removal a later one can be
  listed before an older; a refused thumbnail leaves its video's file behind.

On rights and the seed script:

- running the script again resets the built-in roles to the core's list, which takes the plugin's
  grants away until it is applied again (`README.md` calls it safe to run again); a swap of two
  roles' names makes it stop at the unique name;
- what a plugin grants the native administrator opens none of its routes, whose services ask for a
  permission over all businesses too; no handler asks for `community.create`;
- a reviewer whose permission comes from a role not yet verified is told of submissions and may not
  review them;
- a deletion of a user that began before the user became super admin is committed after;
- `docs/roles-and-permissions.md` has no row for several permissions of `scripts/seed.py` (those of
  events, lost and found and plugins), and gives the `*_any` ones to the super admin only, where the
  script gives some to the native administrator as well.

On plugins:

- routes cannot be unmounted: after an uninstallation and an import in one process the old routes
  answer first, though the import says *"loaded; enable it to start serving requests"*
  (`app/core/messages.py:1114`);
- a backup of a plugin larger than an upload may be cannot be imported again;
- `docs/plugins.md` says that requests never import a plugin's code, which an installation does;
- a table `plg_abc_def_x` of plugin `abc` goes with plugin `abc_def`, or stays when `abc` goes
  while `abc_def` is applied;
- an upgrade is not checked against the ranges that other plugins declare for it.

On the assistant: when an answer is forced, the loop for chat completions runs the calls of the
last reply and the other drops them; tools and settings offered are those of the beginning, and
the first call uses the rights loaded when the request was authenticated.

Finding: `business_active`. *"A business must be verified before it can be activated"*
(`app/core/messages.py:188`). Approval and rejection read the business without a lock and write
the columns that differ from what they read. Of an approval and a rejection at once, the first
writes VERIFIED and ACTIVE; the second writes REJECTED, and not the status, which it had read as
INACTIVE: the business is rejected and active (`ActiveIsVerified`). The run has the verification
by itself (`NoPluginReview`).

### Proofs

`AccountsProofs` and `MarketProofs` prove properties of the two suites, for any users, businesses, images
and sessions of which there are finitely many (`FiniteAssumption`), where the values that mean
"none" are nobody's (`NoneAssumption`) and `MaxRequests` and `MaxTime` are any numbers. Each argument is about one component's own steps: an
invariant `scenario = "x" => X!IInv` is kept because the others' steps leave that component's
variables alone, and `scenario` never changes. The inductive invariants stand in the components'
modules, and were first checked with TLC on the suites' instances.

| Theorem | Inductive invariant, and why the property is not inductive by itself |
|---|---|
| `CustomersConsistentAlways` | `Participation!IInv`. A handler that acts on what it read must find it so: `ReadsHold`, of those whose requests did not overlap (`OneRequestEach`); another user's handlers touch neither his rows nor what his checks read. |
| `BusinessesConsistentAlways` | `BusinessRecords!PluginIInv`: a row that was found stays until the plugin is removed, and only an enable inserts one, so each change has its entry written or still to be. `ReviewIInv`: what a handler has yet to write is a decision on a submission (`WritesDecided`, `OnlySubmits`), and while nothing overlapped nothing is pending when one is submitted (`OneSubmission`). |
| `VersionsRiseAlways` | `PluginLifecycle!IInv`: who is about to write a row has the lock and a version no older than the row's, and nobody else writes it meanwhile (`HeldToWrite`). The module proves it for any plugins, dependencies, versions and sessions (`RegisteredVersionsRise`); the suite's two instances follow. |
| `ContentConsistentAlways` | Five invariants, one per machine. `Events!IInv`: unless two of a kind overlapped, a handler writes over the schedule, state or count that it read; a file just written is one handler's, and a file without a row is to get one or to go. `PostLifecycle!ModerationIInv`: of requests that change the status one at most is under way (`OneOfEachKind`), and who is to announce has published or found the post neither published nor blocked (`ToAnnounce`). `PopularPlaces!IInv`: a file yet to be committed is its handler's own, and what one is to delete is no place's any more (`HandlerApart`). `ProductCatalog!IInv`: a product being created and the images to be added are one session's (`CreatesAlone`, `ImagesApart`), and of a product written once at a time, price and room for images are still as read (`ReadHolds`). `PostLifecycle!MediaIInv`: files without a row are one request's (`FilesApart`), and while one request attaches at a time its next place is the number of rows, behind all others, and its files are later than theirs (`NextPlace`): order by place is order of upload. |
| `CountersTrueAlways` | `Communities!CommunityIInv`: a handler under way is the only one, has read the row and its member as they are, and the limit of resubmissions still allows what a rejection promises. `PollIInv`: a vote about to be written read the votes as they are. `PostInteractions!CounterIInv` follows the counter between a row's commit and its own: its difference from the rows (`Deviation`) is at most the slips, and at least `WrongDeletions - slips`, where a deletion under way of a row that is not there any more will subtract one; of handlers that claim the same row, all but one are slips. |
| `CodesProvedAlways` | Four invariants. `PhoneSignIn!IInv`: who is about to send has the phone's lock and a place kept under both limits (`Queued`, `LimitKept`: the codes sent and those about to be sent are fewer than the limit and the sessions together), who had a code accepted still has its row (`Checked`), and of the accounts that a handler writes those it had read otherwise are `raced`. `EmailCodes!IInv`: while no two sends overlapped one code is active (`OneActive`), guesses are counted by whoever has the code's lock, from the number it read (`Compared`), and the active code went to the address there is, or the address has `moved` (`SentThere`). `GoogleSignIn!IInv`: no two identities share a Google account or an account (`IdentitiesApart`), and a Google account was signed in to the account it is linked to and no other (`SignedToLinked`). |
| `RolesReviewedAlways` | Six invariants. `AccountRoles!ReviewIInv`: who changes a user's roles has locked the user (`UserLocked`), who reviews a request has its row, which stays pending meanwhile (`RequestsLocked`), and who approves has found the assignment that the request was made for (`RolesLocked`). `RegularIInv`: requests and changes have different times (`TimesDiffer`); unless two submissions or an assignment interfered, one role above the base one is held, who changes it has read no other (`Selecting`), and what is pending is the last request made, for that role (`PendingLast`). `VillageIInv`: creations, or removals, that did not overlap are one at a time and have read what is so. `Access!TypeOK`: the rest is what the tables of routes and grants say, so each clause is a lemma about the tables. `RoleSeeding!ScriptIInv`: unless an administrator wrote meanwhile, what the script found is there (`FoundInDatabase`), what it is to remove is listed (`ObsoleteListed`) and the roles before the next are as defined (`SyncedInOrder`). `Assistant!AskIInv`: a tool offered was allowed when the request began (`OfferedAsBegan`), and what was visible since then was remembered (`SinceBegan`). |
| `AudienceConsistentAlways` | Four invariants. `Follows!IInv`: unless requests about a user overlapped, one handler at most concerns him (`OneHandler`), and between its statements there is what it has found or written (`FoundSo`), so that its next one restores what `FollowsConsistent` says of users at rest. `PostFeed!IInv`: what was in the listing since its first page and has fewer rows ahead of it than there were pages is shown, unless some left; what is shown and still listed has fewer, unless some came (`PagesShown`). As rows are ranked 0, 1, 2, ... without a gap (`FeedNoGap`), an empty page means that none has that many ahead. The timeline's cursor needs no exception: posts published at or after it are shown (`CursorShown`), and a date changes only to one later than all (`TimesApart`). `Assistant!AskIInv`, as above. `PostInteractions!CollectionIInv`: rows of saved posts have owners and posts of their own (`RowsApart`), and who is about to add one to a collection found both to be its user's (`FoundOwn`). |
| `PlacesConsistentAlways` | Four invariants. `AccountData!BookIInv`: the defaults and the handlers under way are together at most one more than overlaps allow, or two more while each handler under way would, if it committed now, leave no more defaults than there are (`DefaultsCounted`): of handlers that run at the same time, the first to commit has seen all that there are; without overlaps the default is what the one handler found (`AloneKnows`). `DeliveryPlans!IInv`: what a plan, the request in force and who is about to accept it rely on holds of every promoter who has changed nothing since (`PlansKnow`, `RequestKnows`, `AcceptsKnow`), and who accepts has the row's lock and has read the order as it is. `GeographyImport!SourceIInv`: layers are taken for what their columns make them, and what is accepted is what was read of them (`Recognised`): that it is a tree with a place for each row is then a lemma on `Read` and `Derived`. `ImportIInv`: a handler holds exactly the areas that it has written and not committed (`HeldWritten`), which is why rolling back or dying undoes its own; every import writes the state first, so a handler that waits for another has nothing yet, or has the state that all others wait for. |
| `DecisionsHoldAlways` | `CommunityIInv`; `RoleSeeding!SeedIInv`: what a handler that is not a super administrator's is about to write touches no administrator's role (`RequestChecked`), and the script removes a role only while nobody holds it (`NobodyHolds`). That an approval takes no access away needs no invariant: it is so of each step, whatever the roles. |

`AccountPartsProofs` proves the parts of three of these. Of `CodesProvedAlways`: phones for any
phones, accounts, sessions and limits (`PhonesAlways`, assuming `Setting`: the values that mean "none"
are nobody's, and there are finitely many sessions), e-mail and Google for the limits of the suite.
Of `RolesReviewedAlways`: roles and villages for any roles, requests and times, the assistant for
the suite's one iteration and two posts. Of `AudienceConsistentAlways`: follows for any users and
sessions, collections for any posts, collections and number of saved rows, the feed for any posts
numbered by the time of their creation, kinds of posts and of readers, times and changes (`FeedSetting`).
`DeliveryProofs` proves those of `PlacesConsistentAlways`: addresses for any finite set of them and
any number of overlaps (`BookSetting`); plans for any promoters, routes, settings, days and number of
edits, where each promoter works on some day of the week (`PlanSetting`, which `DeliverySettingsUpdate`
demands); archives of any layers, the rows of each a sequence (`SourceSetting`); imports that begin
with one state and have codes and points (`ImportSetting`). `AccountsProofs` takes them from there,
after showing that both instantiate the same definitions (the lemmas `...Alike`).

`CounterIInv` showed a mistake of the model: a removal whose row was deleted by another handler and
inserted again does not delete the new row, and a handler that has read the new one is not affected
(`PostInteractions!DeleteRow`).

Model-checked only, of these suites: `CategoriesConsistent`, which rests on walks along parents of
any length, defined by recursion, so that what a move does to them is an induction over data;
`PluginsConsistent`, of which the load order is such a recursion; of `DevicesInformed`, what the
assistant answers and the settings saved, sequences that a fold flattens; and, not proved yet,
the rest of `DevicesInformed` and, as properties of the suites, both type invariants (most of
the components' are parts of the inductive invariants above).

## Not modelled

Within the modelled components:

- `UserSessions`: the thirty days of a refresh token; the checks of a sign-in other than the
  user's status; what is sent over a socket.
- `PhoneSignIn`, `EmailCodes`: the contents of codes, an hour's end (the bound on codes is one
  hour's). `GoogleSignIn`: names, pictures, the token's own verification.
- `AccountRoles`: documents, mails, roles deleted from the catalogue.
- `Follows`: blocks, notifications. `Communities`: names, images, logs, posts.
- `Chats`: polls and posts in the timeline, typing, history.
- `PostFeed`: search by words, tags and distance. `PostLifecycle`: tags, sizes and formats.
- `Access`: whose record a caller must own (in the module of the record), limits of requests.
  `RoleSeeding`: descriptions, permissions made by hand. `Assistant`: what prompts and answers
  say, languages, the ranking of searches. `PostInteractions`: names, other fields.
- `AccountData`: the fields of an address and of most settings. `DeliveryPlans`: names, paths and geometry of routes:
  whether one covers an address is given.
- `GeographyImport`: coordinates, simplification, names, the upload itself.
- `Notifications`, `LostFound`: texts and payloads, distances; a user who changes `system_updates`
  while a report is open.
- `Participation`: a cart line deleted and made anew counts as the same line; limits and stock
  are `OrderStock`'s. `ProductCatalog`: names, texts, products' categories.
- `PluginLifecycle`, `PluginStorage` (Database): failing disks; a package's content is known by its
  version (Package has contents, `--replace` and routes, with one handler at a time, but not which
  import is forbidden, nor the smoke test's own requests). `PluginManifests`:
  lengths and patterns of fields, bundles of the user interface.
- `BusinessRecords`: images, documents, logs, names, an administrator's jurisdiction.
- `CategoryTree`: names, slugs. `Events`, `PopularPlaces`: listings, distances.

Hazards known and in no property: a crash between the commit of `expire_overdue` and its
notices loses them; the expiry updates overdue deals in no fixed order, so that two of them may
deadlock and one fails; the limits of a deal's items are those loaded before their rows were
locked; sends to several phones at once exceed the limit of an address by at most the number of
sessions (`SendsBounded` says so); unique keys that refuse a second join or cart line surface as
errors of the database; two additions to one cart line lose one; an upgrade that dies between
its two moves leaves no folder.

Whole components: those of the last row of the inventory, each with its reason in
`PROJECT.json`.

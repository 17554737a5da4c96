# Xabarchi backend: models, checks and proofs

Xabarchi is an SMS gateway. An account holder (or a program with an API key)
queues messages over HTTP; the account's own Android phones claim them, put
them on a SIM and report back. The backend is a FastAPI application over
PostgreSQL (the state) and Redis (one-time codes and links, rate limits,
events). Every HTTP request is one transaction at READ COMMITTED, opened and
committed by `get_session` (`app/infrastructure/db/session.py:32-44`); one
background task, the lease reaper, does the same in a loop.

This directory holds TLA+ modules of the parts whose correctness depends on
how requests, phones, payments, background work and failures interleave, the
TLC configurations that check them on small instances, and proofs of the main
invariants for every instance. Paths below are relative to `src/app/` unless
they start with `src/`.

## 1. Inventory

### Components, their state and operations

| Component | State | Operations that change it | Module |
|---|---|---|---|
| Message ledger and gateway queue | rows of `messages`: status, device, lease, attempts, priority, schedule | send, resend, cancel, bulk cancel / priority / delete, clear, claim, ack, report | `MessageQueue`, `QueueTransactions` |
| Lease reaper | the same rows | requeue or fail out expired leases, promote due messages | `MessageQueue`, `QueueTransactions` |
| SMS metering | `users.sms_sent_this_month`, `plans.sms_per_month` | the quota check and increment of a send, resets; lapse, activation, revocation and edits of the plan | `SendMetering` |
| Devices and pairing | `devices`, `plans.max_devices`, QR codes in Redis | pair, QR start and complete, choose the default, unlink, heartbeat; changes of the cap | `DevicePairing`, `MessageQueue` |
| Plans and billing | `users.plan_*`, `invoices` | order.paid, subscription.active, subscription.revoked, an administrator's edit of plan and end | `PlanBilling` |
| Accounts and sign-in | `users`, `oauth_accounts`, links in Redis | register, provider sign-in, verify, reset, delete, restore, switch the verification | `Accounts` |
| Telegram bots | `telegram_bots`, subscribers, broadcasts, the webhook Telegram keeps | connect, disconnect, update, broadcast | `TelegramBot` |
| Contacts and groups | `contacts`, `contact_groups`, memberships | save and delete contacts, delete groups | `AddressBook` |
| Realtime events | Redis channels, open sockets and their three tasks | publish, subscribe, relay, ping, disconnect | `Realtime` |
| Rate limiter | a counter with a time to live in Redis | check | `RateLimiter`, `SendAdmission` |
| API keys and tokens | `api_keys`; tokens are kept nowhere | create, revoke, call | `Access` |
| Social sign-in redirects | the one-time `state` in Redis, codes at the provider | start, callback | `SignInState` |
| Notifications | `notifications` | create, list in pages, mark read | `Notifications` |
| Templates | `templates` | create, edit, count a use, delete | `Templates` |
| Plan prices | `plans.price`, the product at Polar | edit, push | `PlanPricing` |
| Segments | none | `sms_segments` | `SmsText` |
| Schema | tables, columns, constraints, indexes, `alembic_version` | the scripts 0001 to 0005, start-up | `SchemaMigrations` |
| Administration | all of the above | reset, delete, restore, edit of accounts and plans, notify | `SendMetering`, `DevicePairing`, `PlanBilling`, `PlanPricing`, `Accounts`, `Access`, `Notifications` |
| Analytics, validation, e-mail, crypto, wiring, scripts | none, or outside the server | | not modelled, see 7 |

### How they interact

* Through rows. A send reads the plan, the counter and the device, and writes
  messages and the counter in one transaction. A claim writes the rows that a
  cancel, an ack of the same phone, a report and the reaper write too. An
  activation of a plan writes the columns of the user row that a send writes,
  and an administrator those that the payments write.
* Through limits that are read when they are used. Quota and cap are those of the
  effective plan (`services/subscription_service.py:17-23`): they fall when it
  lapses, is revoked or edited, and what was sent or paired before stays.
* Through columns of objects loaded earlier. SQLAlchemy loads a user or device
  when the request authenticates, and a flush writes the columns whose value
  differs from the loaded one. So an increment is `loaded value + n`, and two
  overlapping requests can lose one another's update.
* Through Redis keys outside the transaction: a QR code or a link is taken with
  GETDEL and is gone even when the request is rolled back.
* Through unique indexes, which decide between overlapping inserts that both
  passed their look-up.
* Through other systems that answer late, twice or not at all: phones, Polar,
  Telegram, the mail and the browser. What Telegram was told stays told when
  the request is rolled back.

### What is hard here

Requests that overlap on rows, look-ups that are stale when used, row locks in
opposite orders, a phone that dies with a claimed batch, late and repeated acks
and reports, repeated and reordered webhooks, calls that had their effect
although they failed, and messages that must not wait for ever. PROJECT.json
lists these hazards, each at its line, with the properties that would catch it.
For each component the question is:

* queue: no message is sent by two phones, or more often than its attempts
  allow; none that was handed over is lost to the reaper; a closed one stays
  closed; a scheduled or addressed one is served in the end;
* transactions: the row-by-row execution of overlapping statements is still
  the queue as seen in one-step transactions, and every request ends;
* metering: the counter stays within the quota that the last send to write it was
  checked against, and within the plan's unless plan or quota changed since; it
  never overcharges, and is wrong only about requests that overlapped;
* pairing: a code pairs one phone, with the right account; the plan's cap holds
  but for overlapping pairings and phones paired under an earlier cap, and the
  single default device but for named races; unlinked is unlinked;
* billing: each order counts once, none that was acknowledged is lost, a plan
  is live only within a paid period or to an end that an administrator wrote, and
  the last report settles it until an administrator edits it;
* accounts: one account for a mail, one for an identity, and no password on an
  account a provider made;
* Telegram: a bot that says its webhook is set hears its chats, a chat gets a
  broadcast once, and the broadcast's row tells what happened;
* address book: no membership outlives its contact or group, and a save leaves
  the groups it asked for;
* realtime: whoever could listen is nudged about every committed message, or has
  claimed too early, and a socket that is gone gives its subscription back;
* limiter: a window passes no more than its limit, and ends;
* access: whoever is served had a valid key or token after the request began;
* sign-in: a flow signs in once, and returns where it was started;
* feed, templates, prices: paging loses no notice, a counter and placeholders
  are wrong only about overlaps, and Polar has the price shown here, in hundredths
  of the configured currency;
* schema: the database is always that of one revision, and a server that serves
  finds what its classes name.

## 2. Modules

| Module | Contents |
|---|---|
| `MessageLifecycle` | Abstract: what the ledger promises of a message, without rows, leases or requests. |
| `MessageQueue` | The ledger and the claim, ack, report protocol; each request one step. |
| `MessageQueueLifecycle` | The refinement mapping from `MessageQueue` to `MessageLifecycle`. |
| `QueueTransactions` | The same statements row by row with locks; refines `MessageLifecycle` as well. |
| `SendMetering`, `DevicePairing`, `PlanBilling`, `Accounts`, `TelegramBot`, `AddressBook`, `Access`, `Templates`, `PlanPricing` | One component each, as overlapping transactions. |
| `RateLimiter`, `Realtime`, `SignInState`, `Notifications` | One component each, between Redis, the database and those who wait outside. |
| `SendAdmission` | `RateLimiter` and `SendMetering` composed as a send composes them: limiter first, then quota, on a user row loaded before either. |
| `SchemaMigrations` | The Alembic scripts as lists of statements, the runs that execute them, and what the ORM classes need. |
| `SmsText` | `sms_segments` beside the packing a phone does. |
| `Identity`, `Channels`, `DevicesAndContacts`, `BackOffice` | Components that share no state, side by side: accounts, keys and sign-in; bots, nudges and feed; pairing and address book; templates, prices and segments. |
| `MessageQueueProofs`, `QueueTransactionsProofs`, `SendAdmissionProofs`, `DevicesAndContactsProofs`, `PlanBillingProofs`, `IdentityProofs`, `ChannelsProofs`, `BackOfficeProofs` | Proofs; each is named for the module it is about. |
| `MC*` | The instances that TLC checks. |

`MessageLifecycle` is what ties the two views of the queue together:
`MessageQueue` takes each transaction in one step, `QueueTransactions` breaks
it into snapshot, lock, recheck, write and commit, and both implement the same
abstract life of a message.

### MessageQueue

| TLA+ | Code |
|---|---|
| `messages[m]`, `nextId` | a row of `messages`, `NoRow` if absent; the identity sequence (`db/models/message.py:33-86`) |
| `lease`, `due` | `lease_expires_at` and `scheduled_at` against the clock: none, ahead, past |
| `smsSent`, `sentToday`, `paired` | `users.sms_sent_this_month`, `devices.sent_today`, `devices.deleted_at` is NULL |
| `handed`, `sims`, `online` | outside the server: copies a phone was given, copies on its SIM, phones that poll |
| `Send`, `Resend`, `Cancel`, `BulkCancel`, `BulkSetPriority`, `BulkDelete`, `ClearAll` | `services/sms_service.py:63-204` with the statements of `repositories/message_repo.py` |
| `Claim`, `Ack`, `Report`, `Heartbeat` | `services/sms_service.py:210-247`, `services/device_service.py:126-141` |
| `Reaper` | `main.py:50-66`: requeue and promotion in one transaction |
| `DeleteDevice` | unlinking; the rows of its messages are left as they are |

The network is in the phones' actions. A lost claim response is a copy that is
never transmitted; an ack or report may come any number of times, in any order,
after the phone had reason to send it. A heartbeat carries any count up to what
the phone transmitted, since the count of a new day starts again. Rows that
other transactions lock are the set `locked` a claim skips.

### QueueTransactions

A session begins a request with a statement's snapshot (`Begin`), visits the
selected rows in any order (`Visit` locks, rechecks and writes the latest
version; `Skip` is SKIP LOCKED; `Wait` waits), then commits or rolls back. The
reaper's promotion is a second statement of its transaction. `BreakDeadlock` is
the database's own detector. Left to the external side: snapshots, locks and
recheck of PostgreSQL, modelled as its documentation of READ COMMITTED has them.

### SendMetering, DevicePairing, PlanBilling, Accounts, TelegramBot, AddressBook

Each is written the same way. A request is an element of a finite set with a
phase; one action per point where the code awaits the database, Redis or another
system; a committed table; locks or "taken" keys of uncommitted rows; a `Fail`
or `Rollback` that can hit at every phase and leaves what is outside the
transaction. History variables (`overlapped`, `raced`, `crossed`, `tangled`,
`disturbed`, `lost`, `missed`) record which requests overlapped or failed: the
properties say exactly which guarantee holds *but for* those, so they state what
the code gives and not what one would like it to give. `SendMetering` has two
history counters, `month` (recipients committed since a reset) and `lone` (those
of sends that ran alone), against which the user's counter is judged. When the requests of an
instance are used up the action `Rest` stutters, so that deadlock checking stays
on and finds every other state in which nothing can happen (few of them where
the clock, an administrator or the plan can always move).

The plan is in three of them, each with what it needs of it. `PlanBilling` has the
columns `plan_id` and `plan_expires_at` with all their writers: the deliveries
and `Open` and `Amend`, the administrator's `update_user`; `granted` records that
an administrator wrote the end last. `SendMetering` and `DevicePairing` do not ask
who changes the plan: there the effective plan, or its cap, changes at any moment
to any value (`ChangePlan`, `Lapse`, `ChangeQuota`, an activation within
`CommitReset`; `ChangeCap`). A send keeps the plan it loaded (`seenPlan`), which
may lapse between its load and its check, and `granted` is the quota of that
check; a pairing keeps the cap it read (`room`), which may not be the committed
one any more. `allowed`, `moved` and `unsettled` say which quota the counter was
last checked against and whether plan or quota have changed since.

### The later modules

| Module | State and actions | Code |
|---|---|---|
| `RateLimiter` | `INCR`, then `EXPIRE` in a call of its own; either may fail, and a failure lets the request pass; the window ends | `infrastructure/redis/rate_limit.py` |
| `Realtime` | a send inserts, publishes and then commits or rolls back; a socket's relay subscribes, forwards and is cancelled with the ping and the reader; the phone claims on a frame or on its timer | `infrastructure/redis/pubsub.py`, `api/v1/ws.py`, `api/v1/gateway.py` |
| `Access` | look-up, check, stamp and owner of a key, in the order of the code; revocation by its owner; tokens that only time ends | `api/deps.py`, `services/apikey_service.py`, `core/security.py` |
| `SignInState` | the state under a random key with a time to live, GETDEL, the exchange of the code, the redirect | `services/oauth_service.py`, `api/v1/auth.py` |
| `Notifications` | insert, event and commit; the count and the page as two statements; marking of one and of all | `services/notification_service.py` and its repository |
| `Templates` | load, column-wise flush, commit; the counter of uses | `services/template_service.py` |
| `PlanPricing` | load, flush, push to Polar, commit; what is pushed is `Charged`, the price times 100 with the configured currency; a push may fail, fail with its effect, or arrive later | `services/admin_service.py`, `services/polar_service.py` |
| `SchemaMigrations` | a run locks `alembic_version`'s revision by the tables it touches, executes, stamps, commits or dies | `src/migrations`, `__main__.py`, `infrastructure/db/models` |
| `SmsText` | a text typed character by character, in four kinds of characters | `services/sms_service.py` |

## 3. What the runs check

TLC checks a module in a run of its own or beside others. `DevicesAndContacts`,
`Identity`, `Channels` and `BackOffice` (to which `MCBackOffice` adds the schema),
and `MCTransactionsEnd`, hold components that share no state: a variable `part`,
fixed in the initial state, says which one moves while the others rest. A behaviour is one of a single component, the state
spaces add up instead of multiplying, and each property is checked exactly as in a
run of its own. `SendAdmission`, on the other hand, is a true composition: the
steps of one send go through both of its parts.

| Run | Instance | Shows |
|---|---|---|
| `queue_safety` | 1 account, 2 phones, 2 messages, 2 attempts each | `AttemptBudget`, `OnePhonePerMessage`, `AckCountedOnce`, and the refinement `ImplementsLifecycle`, under every request and every lost, late or repeated call |
| `queue_liveness` | 2 accounts, 1 phone, 2 messages, 2 priorities | `ScheduledIsPromoted`, `SendingEnds`, `AddressedIsServed` |
| `at_least_once` | 1 account, 2 phones, 1 message | the delivery guarantee is violated, see 5 |
| `transaction_safety` | 2 sessions, 2 phones, 2 messages | `CommitsImplementLifecycle` |
| `transactions_end` | 2 sessions, 1 phone, 2 messages; 1 send, the sockets of a phone and of a page | `RequestsEnd`: waits and deadlocks end, connections come back; `GoneIsReleased`: so do subscriptions, but for a relay cancelled while it subscribes |
| `sending` | 3 sends, 1 reset, 2 plans, quotas 1 and 3, 1 change of plan or quota beside the activation, limit 2 | `CounterWithinQuota`, `LoneSendsCount`; `AtMostLimit`, `NoEndlessWindow` |
| `quota_is_enforced` | 2 sends, 1 plan, quota 2 | more than the quota is sent, see 5 |
| `devices_and_contacts` | 2 accounts, 2 pairings, 2 scans, 1 code, 2 choices, 1 deletion, cap 2 that may fall to 1; 1 contact, 2 groups, 4 saves, deletions of the contact and a group (of the second update and the deletion of the contact, one comes) | `CodeUsedOnce`, `CapButForRaces`, `OneDefaultButForRaces`, `DeletedStaysDeleted`; `NoGhosts`, `LoneSaveSettles` |
| `billing` | 2 purchases of 2 plans, 2 deliveries at a time, 2 periods, 1 edit by an administrator | `OrderAppliedOnce`, `AckedIsRecorded`, `EntitledOnlyWhilePaid`, `LoneDeliverySettles` |
| `identity` | 2 registrations, 3 sign-ins of one identity with a changed mail, 2 links, 2 clicks, 1 account set unverified; 1 key, 2 revocations, 2 calls; 2 flows, 3 callbacks, 2 codes | `OneAccountPerMail`, `IdentityKeepsAccount`, `SocialStaysSocial`; `ServedWasValid`; `FlowSignsInOnce` |
| `channels` | 2 accounts, 3 connects of one token, 1 disconnect, 3 updates of 2 chats, 1 broadcast; 2 sends, 2 sockets of a phone; 3 notices, pages of 1 | `BotHears`, `NoChatTwice`, `LedgerTellsTheTruth`; `NudgedUnlessEarly`; `PagingMissesNothing` |
| `back_office` | 2 servers, 1 operator, 5 revisions; 3 edits, 2 uses and 1 deletion of a template; 4 edits of a price, 1 currency; texts of up to 162 characters | `SchemaIsRevision`, `ServesItsModels`, `OnlyDataStopsAMigration`; `TemplateSettles`; `PricesAgree`; `SegmentsBound` |

The type invariants of `MessageQueue`, `SendMetering`, `RateLimiter`,
`DevicePairing`, `AddressBook`, `PlanBilling`, `Accounts`, `Access`, `SignInState`,
`TelegramBot`, `Realtime`, `Notifications`, `SmsText` and `SchemaMigrations`
are proved, by themselves or within an inductive invariant (section 4). Every property of a passing run has a mutant of a
mapped definition (defined next to it, marked "Mutant") that breaks it.

### Bounds and why they are enough

Rows do not interact except through claim order, the batch limit and the sums,
so two messages show every interaction of two rows; two phones show every race
of a claim with another; two attempts are the least for which a requeue and a
failing out differ. `MaxMessages` bounds the rows ever inserted, deleted ones
included. `Ops` names the operations of a transaction run: `transactions_end`
takes the two that lock many rows in different orders and the one that skips.
The requests of the other modules are finite sets (`Sends`, `Resets`, `Pairings`,
`Scans`, `Choices`, `Deletes`, `Registrations`, `SignIns`, `Clicks`, `Links`,
`Connects`, `Disconnects`, `Updates`, `Broadcasts`, `Creates`, and so on), each
with two or three members that can race and one more that comes after the race.
In `sending` two of three sends fit the window and
the quota, so that the limiter and the quota refuse each its own. Four edits of a
price let one push arrive after two later edits. 162 characters are the least
bound at which both alphabets have cut a text more than once (160 and 153
septets, 70 and 67 units). `Aims` has the empty schema and a revision in the
middle, so that runs go down as well as up; `PageSize` 1 makes every notice a page
boundary. `MaxLength` is the code's own bound, the thousand characters that a
send accepts. `Bounded` keeps `devices_and_contacts` within the time of a run: of
a second update and the deletion of a contact one comes, and the other three saves
meet either; the plan of one account changes once, to the smaller cap, and then
the neighbour is not deleted and one choice comes. `MaxMoves` bounds in `sending`
the lapses, revocations and edits, and `Bounded` of `MCPlanBilling` the edit: one,
beside one delivery at most, after which deliveries come one at a time. In
`identity` the mark of one account is cleared. The theorems have no such bounds. `Closable` names the accounts that may be deleted, `MaxPurchases` and `MaxTime`
the periods sold and the clock, `Priorities` the ranks a message may have.
Symmetry is declared only over members that the instance does not tell apart,
and never in a run with a liveness property.

### Fairness

`MessageQueue!Fairness`: the reaper's loop never ends and survives every error
(`main.py:50-66` catches everything but cancellation), so `WF(Reaper)`; a clock
runs on, so leases expire and due times arrive; a phone that is online polls,
so a claim of unlocked rows is weakly fair. Nothing is assumed of acks, reports,
transmissions or users. `QueueTransactions!Fairness`: a session that can go on
does; the database looks for deadlocks; waiters for a row are queued, so a
session whose row becomes free again and again gets it (strong fairness of that
visit). Rollbacks are never assumed to happen. `Realtime!Fairness`: a task that has
something to do goes on, since the event loop is fair; that a client ever
disconnects is not assumed. `GoneIsReleased` starts when it has.

## 4. What is proved

TLAPS checks the theorems below for every value of the constants that meets the
named assumptions of the modules: any sets of accounts, phones, requests, updates
or purchases (finite where something is counted), any ownership, caps, quotas,
limits and page sizes, any changes of a plan, its limits and its price. The assumptions say what a request is: that the sets of
requests of different kinds are disjoint, that a function gives each its account or
size, that a "none" is not a member of the set it stands beside.

| Module | Theorems | State |
|---|---|---|
| `MessageQueueProofs` | `TypeCorrect`, `LeaseTheorem`, `FailReasonTheorem`, `TenantTheorem` | `TypeOK`; a lease exactly while sending, a reason exactly when failed; no phone is given another account's message |
| | `AttemptTheorem`, `OnePhoneTheorem`, `AckTheorem` | `AttemptBudget`, `OnePhonePerMessage`, `AckCountedOnce` |
| | `ClosedTheorem`, `LifecycleTheorem` | the action property `ClosedStaysClosed`; the refinement `ImplementsLifecycle` |
| `QueueTransactionsProofs` | `CommitsTheorem` | the refinement `CommitsImplementLifecycle` |
| `SendAdmissionProofs` | `MeteringTypeCorrect`, `CounterTheorem`, `LoneSendsTheorem` | `TypeOK`, `CounterWithinQuota`, `LoneSendsCount` |
| | `LimitTheorem`, `WindowTheorem` | `AtMostLimit`, `NoEndlessWindow` |
| `DevicesAndContactsProofs` | `TypeCorrect`, `CodeTheorem`, `CapTheorem`, `DefaultTheorem`, `DeletedTheorem` | `TypeOK`, `CodeUsedOnce`, `CapButForRaces`, `OneDefaultButForRaces`, `DeletedStaysDeleted` |
| | `GhostTheorem`, `SettlesTheorem` | `NoGhosts`, `LoneSaveSettles` |
| `PlanBillingProofs` | `TypeCorrect`, `OrderTheorem`, `AckedTheorem`, `EntitledTheorem`, `SettlesTheorem` | `TypeOK` and all four properties of the run `billing` |
| `IdentityProofs` | `TypeCorrect`, `MailTheorem`, `IdentityTheorem`, `SocialTheorem` | `TypeOK`, `OneAccountPerMail`, `IdentityKeepsAccount`, `SocialStaysSocial` |
| | `ServedTheorem`, `FlowTheorem` | `ServedWasValid`, `FlowSignsInOnce` |
| `ChannelsProofs` | `TypeCorrect`, `HearsTheorem`, `ChatTheorem`, `LedgerTheorem` | `TypeOK`, `BotHears`, `NoChatTwice`, `LedgerTellsTheTruth` |
| | `NudgeTheorem`, `PagingTheorem` | `NudgedUnlessEarly`, `PagingMissesNothing` |
| `BackOfficeProofs` | `TemplateTheorem`, `PriceTheorem`, `SegmentsTheorem` | `TemplateSettles`, `PricesAgree`, `SegmentsBound` |
| | `RevisionTheorem`, `ServesTheorem`, `MigrationTheorem` | `SchemaIsRevision`, `ServesItsModels`, `OnlyDataStopsAMigration` |

Few of these are inductive by themselves; each proof module begins, or each part
of it, with the strengthening it needs.

* Queue. `AttemptBudget` needs that `handed` is bounded by the row's `attempts`,
  which a new row would break unless its id is fresh; a deletion loses the row's
  device, so `OnePhonePerMessage` needs that an id is never used again; tenancy
  needs that absent rows belong to nobody. `Inv` therefore adds `FreshIds` and
  `AbsentIsUnowned`. A request may rewrite many rows, but to one row only six
  things happen: `RowStep` lists them (untouched, inserted, deleted, handed,
  closed, returned). One lemma per action shows that it does one of the six to
  every row, and each invariant is then preserved row by row. The refinement uses
  the same list: each of the six maps to a step of `MessageLifecycle` or a stutter.
* The daily counter. `sent_today` is not bounded by the transmissions alone, since a
  heartbeat may bring it up to them between a transmission and its ack. `AckBound`
  says by how much it can be above: once for each message the phone transmitted
  that is no longer sending, which an ack makes one more of. The sums over messages
  come with their own lemmas, by minimal counterexample over finite sets.
* Transactions. A commit takes the abstract step, but the guard of that step was
  read when the row was visited. `DraftIsCurrent`: until the commit a draft stays a
  move of the committed version, since the row is locked and the one thing that
  still happens to it, the end of its lease, matters to no draft. `RowsAreFit`
  supplies what the abstract claim asks for and the statement does not look at.
* Metering. Every value a send has flushed was checked against the quota granted to
  it (`Vouched`), a reset flushes zero or the committed value (`Holding`), and the
  grant of a send is the quota of the account's plan unless a plan or a quota changed
  while it ran (`Current`). `SeenCountsLone`: what a
  running request has loaded counts every send that ran alone, as none of those
  commits while another request runs (`TogetherOverlap`).
* Limiter. `PassersAreCounted`: those a window let pass by its count are at most
  that count, whichever of the two calls failed.
* Pairing. What a request knows when it writes: a pairing that overlapped no other
  still has the room it has counted (`Aware`, `Fits`), which is that of the plan
  where the plan has not changed (`Honest`, `Within`). After a change the phones need
  not fit, and since others than the last may be unlinked, `Chain` speaks of every
  set of them: it fits the cap of one of its members. A choice holds the lock
  of every row of its account but those of pairings that overlapped it
  (`Crossing`, `Locking`). `Calm` collects the steps that begin and end no pairing.
* Address book. Between its sweep and its commit a deletion, and a save without
  overlap, has locked each membership of what it works on or has it still to delete
  (`Covered`), but for those of saves that know they overlapped (`AwareOfOverlap`);
  what such a save looked up is there still when it inserts (`Sees`).
* Billing. An order is in one running insert at most, and in none once it has an
  invoice (`InsertsApart`, which is what the unique index gives); the end of a
  period is that of a purchase or of a report without one, in every report that is
  flushed and, unless an administrator wrote it, in the row (`PeriodsEarned`); the
  row a lone delivery has loaded is still the row when it commits (`Alone`).
* Accounts. The unique indexes keep the keys of committed accounts and of running
  inserts apart; a sign-in that found an account found the one its identity has.
* Access. No write of another request undoes a revocation (`RevocationsStand`: a
  flush writes the column it changed and no other), and the owner is looked up
  last, so what closed before the call began stops it (`LateIsRefused`).
* Redirects. Redis holds, for a flow, what that flow asked for (`StoredAsAsked`),
  and only one callback ever takes it (`TakenOnce`).
* Telegram. The rows of a broadcast's audience are of different chats, and a row
  that is still to be sent to has a chat that has nothing yet (`SendsApart`);
  while nothing disturbs a token, one request works on it, one live bot holds it,
  and the webhook names that bot (`Tidy`).
* Realtime. Every event a subscription was given is with its socket, with its
  phone, or was claimed on (`EventsArrive`).
* Feed. What a walk has still to show is not on the pages behind it
  (`WalkIsOnTrack`): newer rows only push it further on.
* Templates. A request writes the columns it changed of the row it loaded, and takes
  the others as they are (`MergedIs`).
* Prices. An edit that changes the price holds the plan's row from its flush to its
  commit, and its push is in between: while no push failed, what was pushed last is
  the conversion of what is committed next.
* Segments. A part that is full lacks one unit at most (`Fills`), so short texts
  cannot gather a whole part. For this `MaxChars` must be at most the length a send
  accepts: with some ten thousand characters of the right kinds the statement is false.
* Schema. `Worked`: whatever schema were committed when a run is done, if it is the
  present one on the tables the run has locked, the run would have made of it what
  it has. Since a statement changes its own table only (`StatementIsLocal`), each
  statement preserves this, and commits of others cannot disturb it. When the run
  commits, all its statements have found their tables as they expect them, which
  is so in the revision it started from only; so what it commits is the schema of
  the revision it stamps. What the proof needs of the five scripts themselves is
  `ScriptsAssumption` and `ShapesAssumption` of `SchemaMigrations`: closed formulas
  without constants or variables, which TLC evaluates in the run `back_office`. They
  say what each script makes of each schema, statement by statement, with no other
  run about; what overlapping and broken runs do is the theorem's.

Model-checked only: the liveness properties and `GoneIsReleased`, because fairness
and ENABLED are beyond the prover. All other properties of the passing runs are
theorems. Where a proof needs an induction over a finite set or the naturals it
takes a minimal counterexample, since the theorems of the library that have an
operator as a parameter cannot be instantiated.

## 5. Where the code and what is said of it differ

Two runs show a disagreement, with a counterexample:

* `at_least_once`. A claim stores the phone in the row, and the reaper's requeue
  leaves it there (`repositories/message_repo.py:328-337`), while a claim takes
  only rows of its own phone or of none (`:156`). A message sent without
  choosing a phone, claimed by one that then dies, waits for that phone alone,
  although other phones of the account poll. `src/README.md:285-288` calls the
  requeue the guarantee of at-least-once delivery.
* `quota_is_enforced`. Sends that overlap check the counter they loaded at
  authentication; together they pass the quota, and the counter shows only the
  last of them.

Others, read while modelling, without a run of their own:

* A cancel is accepted for a requeued message whose first copy a phone still
  holds (`services/sms_service.py:144-156`): the copy may be sent after it.
* `report` is called the final report and has no status guard
  (`repositories/message_repo.py:202-223`): a late one rewrites an earlier one,
  and a canceled message can become delivered. `MessageLifecycle` has one stage
  "closed" for all of these.
* `sent_today` counts a message twice when a heartbeat with the phone's own
  count comes between the transmission and the ack
  (`services/device_service.py:137`, `services/sms_service.py:228`);
  `AckCountedOnce` says that it is at most twice.
* Reset and increment of the monthly counter overwrite each other when they
  overlap, so a reset may be lost; and nothing resets the counter of an account
  on the free plan but an administrator (`services/subscription_service.py:23`).
* The number of an invoice is a count plus one (`services/polar_service.py:410`):
  two orders whose deliveries overlap may share it.
* The limiter's docstring promises a fixed window; when `EXPIRE` is lost after
  `INCR`, the key never ends and the account stays refused
  (`infrastructure/redis/rate_limit.py:30`). `NoEndlessWindow` says that nothing
  else does that.
* `infrastructure/redis/pubsub.py:43-44` says the subscription is cleaned up; a
  relay that is cancelled while it subscribes leaves it behind (`orphans` in
  `Realtime`), and an error of `unsubscribe` skips `aclose`.
* `message.created` is published before the commit
  (`services/sms_service.py:113`): a phone that claims at once finds nothing and
  waits for its timer.
* Notices are counted and listed by two statements with two snapshots, and with
  `unreadOnly` marking one while paging makes the next page skip another.
  `PagingMissesNothing` excepts exactly that.
* Tokens are kept nowhere: a password reset ends no session, the token of a device
  works although its account is deleted, and `/ws` never looks the account up.
* Nothing brings an account below the limits of a plan that fell: after a lapse, a
  revocation or an edit the counter and the live phones may be above quota and cap
  with no overlap at all. `CounterWithinQuota` and `CapButForRaces` say what is left.
* An administrator's edit writes the plan's columns beside the payments: it can
  make a paid plan live that nobody paid for, and the next report overwrites it,
  column by column (`services/admin_service.py:140-150`).
* `sync_product_price` says an amount is sent as it is in minor units and
  multiplies it by 100, with the currency of the settings
  (`services/polar_service.py:199-200`, `:142-150`, `:215-216`). Prices here are in
  so'm; where that currency is not UZS, which `core/config.py:75-77` suggests for
  accounts at Polar without it, Polar charges the same figure in another currency.
  `PricesAgree` speaks of the figure and the configured currency, no more.
  `create_discount` multiplies a fixed amount as well;
  `list_discounts` says it is empty on any issue and lets errors out; a retried
  discount is a second one (`services/polar_service.py`).
* `sms_segments` (`services/sms_service.py:36-57`) counts a character outside the
  basic plane once, where a phone sends two units, and does not keep a character
  of two units whole at the edge of a part: the phone may send one part more.
  `SegmentsBound` says how far the two can differ in a text that a send accepts
  (`schemas/message.py:22`).
* Some indexes and constraints exist in the migrations only (the unique
  `external_id`, live subscriber and customer id, the partial index on due
  messages), and the partitions of `messages` end with 2026: later rows go to the
  default one.
* `scripts/seed_demo.py` says that it creates or resets; on a new database its
  first run fails, since a registration returns only a message.
* `db/base.py:11-13` says the ledger is never deleted; bulk delete and clear
  delete its rows.
* The mail of a deleted account is free for `get_by_email`
  (`repositories/user_repo.py:19-24`) and taken for the unique index: a new
  registration ends in an unhandled IntegrityError.
* `api/v1/telegram.py:28` says the webhook always answers 200; two overlapping
  deliveries of a first update end in an IntegrityError for one of them, which
  Telegram then repeats (harmlessly, as `NoChatTwice` shows).
* `db/models/telegram.py:37` says the token's hash serves to detect duplicate
  connects; nothing reads it, and a second account takes the webhook away.
* `requirements.txt` gives FastAPI only a lower bound. Newer versions close a
  dependency with yield after the response is sent, so a claim could be answered
  before its commit. `QueueTransactions` takes the commit first, as the
  docstring of `get_session` does.

## 6. Order of work, and what is left

Built in this order: the queue and its abstract life, because every other part
exists to feed it; its transactions; metering; pairing; billing; accounts;
Telegram; the address book; the proofs of the queue, its refinement and the
metering; then realtime, limiter and admission, access, redirects, feed,
templates, prices, schema and segments; then the proofs of the limiter, pairing,
billing, accounts and Telegram; then those of the transactions, admission, access,
redirects, nudges, feed, address book, templates, prices, segments and schema.

Left: `Realtime` composed with `MessageQueue`, so that a nudge that is lost shows
in the time a message waits; the free plan's counter as a question of liveness.

## 7. Not modelled

Reads (listings, search, analytics) change nothing; the one listing that is
modelled, the feed, is there for its pages. Schemas, hashing, signing, sealing,
configuration, logging and error shapes are pure functions or settings: the models
start from requests that passed them and from signatures that were right. E-mail
is outgoing I/O; `Accounts` has the moment a link is handed to it. Checkout, portal
and discount calls to Polar change nothing here. The mocked broadcasts of bots
without a token, the refresh of subscriber names and the edit of device, contact
and profile fields write columns that no rule reads. Creating and renaming a group
touches no membership. The seed script and the container files are run by hand.
Tests under `src/tests` were read as statements of intent.

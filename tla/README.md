# A verification development for the GameClubs backend

The backend sells seats in computer clubs. Clients book a computer and buy from the
bar with a prepaid balance, club owners moderate requests and override the state of
their computers, a superadmin tops balances up and blocks clubs, and a background task
releases the computers whose session has ended. It is a FastAPI program: every request
runs as a coroutine with one SQLAlchemy session (one transaction, READ COMMITTED), and
PostgreSQL row locks are the only thing that keeps two requests apart.

This directory holds TLA+ modules translated from `src/`, the TLC instances that check
them, and TLAPS proofs of what matters most.

## 1. Inventory

| component | state | operations | interaction |
|---|---|---|---|
| `core/services/booking_service.py` | `computers`, `bookings` | `book_seat`, `free_seat`, `create_booking_request`, `confirm_request`, `reject_request` | money through `core/finance.py`, commands through `core/ws.py`, fraud signals, notifications |
| `web/admin.py` (status) | the same rows | `update_computer_status` | no row lock on the computer while it decides |
| `core/finance.py` | `users.balance`, `balance_transactions` | `debit_user_balance`, `credit_user_balance`, `record_balance_transaction` | works on the `User` object the handler's session holds |
| `core/services/order_service.py`, `web/admin.py` | `orders` | `buy_product`, `complete_order` | debits |
| `core/services/payment_service.py`, `web/admin.py` | `payment_transactions` | `kaspi_test_top_up`, `top_up_balance` | credits |
| `main.py` | none of its own, rows selected before a loop | `cleanup_expired_sessions_once` and the loop around it | writes computers and bookings, commands clients |
| `web/superadmin.py` | `clubs.status`, roles | approve, reject, block, restore | decides what `user_can_manage_club` and the club's openness say |
| `web/auth.py`, `api/auth.py` | `users` (role, e-mail), `clubs`, signed tokens | `register`, `owner_register`, login | an approval by the superadmin opens the CRM to the owner |
| `core/dependencies.py` | none; `tokens_invalid_before` is read and set by no code | `get_current_user`, `_token_revoked` | **loads the actor in the session of the handler**; `/ws/user` repeats the check |
| `core/ws.py` | connected sockets | connect, disconnect, send | commands for PCs, events for users |
| `core/ratelimit.py` | a window of times per key | `check` | logins and registrations |
| `core/fraud.py` | `fraud_signals` | rules run inside bookings, top-ups, overrides | inserts whose foreign keys lock user rows |
| `core/services/review_service.py` | `club_reviews` | `submit_review` | reads, then inserts or updates; a unique constraint |
| `web/admin.py` (computers) | `computers.number` | `add_computers`, `add_computer` | reads, then inserts; a unique constraint |
| `web/admin.py` (goods) | `products`, `expenses`, `packages` | `add_product`, `import_products`, `add_expense`, `add_package` | check constraints of the tables |
| `core/integrations.py`, `web/admin.py` | `club_integrations` | save the connection to 1C, test it | a test waits in a thread for an outside system |
| `web/admin.py` (finance) | – | `build_finance_summary` | reads what bookings and orders were paid |
| `alembic` | the schema, `alembic_version` | `upgrade head`, `downgrade -1`, `stamp head` | what the service's models rely on |
| `docker-entrypoint.sh`, `docker-compose.yml`, `main.py` (start-up) | the process | upgrade, `populate_base_games`, `bootstrap_superadmin`, serve; restart | ends every open request, makes an account the superadmin |
| other reads, templates, schemas, games, observability, seeds | – | – | no state that the handlers above depend on |

Hard behaviours, and what makes each component right:

* *Stale objects.* `get_current_user` loads the actor before the handler locks its row,
  and a later `SELECT ... FOR UPDATE` does not refresh an object the session already
  has. So a lock serialises the handlers but not the balance they compute with.
  Right would be: the balance is the opening balance plus the ledger; it is at least
  never negative; nobody else's credit is lost.
* *Check and act.* `book_seat`, `create_booking_request`, `confirm_request` and
  `reject_request` check under a lock; `free_seat`, `update_computer_status`, the club's
  moderation and the cleanup task check without one and write later. Right: a seat is
  sold only while free, a request is decided and refunded once, an ended session is
  that of the person who ended it.
* *Partial writes of a row.* A flush writes only the columns that differ from what was
  loaded, so overlapping writers mix their columns. Right: a computer's row belongs to
  one session or to none.
* *Order of locks.* Users, computers, bookings and foreign keys are locked in different
  orders, and a flush locks a row and then waits for another. Right: clients and the
  cleanup task never deadlock among themselves; a deadlock with staff aborts one request,
  and the others go on.
* *Commands after the commit.* A client is unlocked or locked outside the transaction.
* *Reconnects.* A socket is replaced in a dictionary, and its end is noticed later, by a
  receive or by a send; a handler may end without either. Right: who is connected, and
  by one connection only, is reachable, and who is gone is forgotten.
* *Unlocked read, then insert or update.* Registrations, applications and the decisions
  about them, reviews, computer numbers and the settings of a connection rely on
  constraints, or on nothing. Right: nothing is there twice, nobody is left in a state
  between two decisions, a slow test takes back no setting.
* *Crash and restart.* The process may stop at any statement and while the database is
  upgraded. Right: the schema is what its version says and whole when it is served, the
  roles follow the decisions that were committed, and there is a superadmin.
* *Tokens.* `iat` and `exp` are whole seconds, a cutoff is not. Right: no token from
  before the cutoff gets in, and no fresh one is refused.
* *Counting windows.* The rate limiter and the fraud rules count what lies within a
  stretch of time, some rules with what is about to be committed, others without.
* *Failure.* A statement may raise anywhere, the cleanup task may fail in the middle.
  Right: nothing half done stays, nobody's lock stays, the next iteration finishes.
* *Boundaries.* Prices and deposits of zero, a balance that just suffices.

Every one of them is a row of `hazards` in `PROJECT.json`, at the line where it bites.

## 2. The modules

| module | models |
|---|---|
| `Tables` | constants with their assumptions, the tables, the row locks, the sessions, types and initial state |
| `Transactions` | access rules, unit of work (`Column`, `FlushedPc`), row locks (`Needs`, `Blockers`, `LockNeeded`), arrival, refusal, failure, commit, `core/finance.py` |
| `BookingService` | the five booking operations, `update_computer_status`, the command after the commit |
| `Payments` | `buy_product`, `complete_order`, `kaspi_test_top_up`, `top_up_balance` |
| `Cleanup` | the cleanup task |
| `ClubModeration` | `block_club`, `restore_club` |
| `GameClubs` | all of them side by side, deadlocks, failures, the clock, fairness, and the properties |
| `BookingLifecycle` | abstract: what the club promises of one booking and its money |
| `LifecycleRefinement` | `GameClubs` implements `BookingLifecycle` |
| `Applications` | `web/auth.py` registration, `add_club`, the superadmin's decisions and roles |
| `Sockets` | `core/ws.py` and the WebSocket endpoints of `main.py` |
| `RateLimiter` | `core/ratelimit.py` |
| `FraudSignals` | `core/fraud.py` |
| `Logins` | login, the tokens and their check, revocation, on top of `RateLimiter` |
| `FormRequests` | what the forms about a club share: the clubs, who may, partial updates |
| `SeatNumbers` | `add_computers` and `add_computer` of `web/admin.py` |
| `Integrations` | `save_1c_integration`, `test_1c_integration`, `core/integrations.py` |
| `Goods` | `add_product`, `import_products`, `add_expense`, `add_package` |
| `Reviews` | `core/services/review_service.py` |
| `ClubForms` | the four before it side by side, and the moderation of clubs |
| `Migrations` | `alembic/env.py` and the ten revisions |
| `Deployment` | the container: upgrade, start-up, service, crashes; composes `Applications` and `Migrations` |
| `MCGameClubs`, `MCDeployment`, `MCLogins`, `MCClubForms`, `MCFraudSignals` | the instances |
| `GameClubsProofs` (types, locks, seats), `LedgerProofs` (money, refinement), `DeploymentProofs` (with `Applications`), `SocketsProofs`, `RateLimiterProofs` (with `Logins`), `ClubFormsProofs` (with `SeatNumbers`), `FraudSignalsProofs` | the proofs |
| `Sums` | lemmas about finite sets, intervals and sums over them |

`GameClubs` EXTENDS `BookingService`, `Payments`, `Cleanup` and `ClubModeration`, each of
which EXTENDS `Transactions`, which EXTENDS `Tables`. The other modules share no state with
the bookings that the properties could tell apart. They form three compositions,
`Deployment`, `Logins` and `ClubForms`, and `Sockets` and `FraudSignals` stand alone.

### Bookings and money: how state and steps correspond to the code

A request `r` makes one call (`call[r]`: the operation, the authenticated user and the
arguments) and runs through phases `at[r]`. There is one action per statement that
reads or locks, because any other request may run at the `await` in between, and one
commit action in which all its writes become visible and its locks go. A flush writes
rows nobody else can see until the commit, so flush and commit are one action, but for
what a flush locks before it waits: the computer's row (`FlushSeat`, before the fraud
signal's foreign keys) and the computers of the cleanup task (`FlushExpired`, one by one). The
phases are: `start` (authenticated), `user` (the actor's row is locked), `booking` and
`refund` (the request's booking is locked, the computer or the refunded client comes
next), `update` (the bulk UPDATE of active bookings comes next), `flush` (the UPDATE of the
computer comes next), `commit`, `send`
(the command to the computer) and `done`.

* `lockedBy` says who holds the row lock of a user, a computer or a booking. `Needs(r)`
  are the rows the next statement of `r` locks: `FOR UPDATE`, the rows an UPDATE
  changes, and, at a commit, the rows foreign keys lock `FOR KEY SHARE` (which waits
  only for a `FOR UPDATE` holder, so it is waited for and not kept: whoever has got the last
  of them commits without waiting again). A request whose
  `Blockers` are not empty has no step but failing. `Waiting` are the transactions that
  wait, the cleanup task among them, and a set of them is `InCircle` if each waits for
  another one of it.
* `Debit` raises what `debit_user_balance` raises (`DebitRaises`: nothing to debit, or too
  little), and `DebitFails` is the unhandled error that follows.
* `orm[r]` is the identity map: the balance of the `User` the handler charges, the
  `Computer` and the `Club` as they were loaded. `LockActiveUser` leaves
  `orm[r].balance` as `Arrive` loaded it; `LockOtherUser` loads another user under the
  lock. The sessions are made with `autoflush=False` and `expire_on_commit=False`.
* `FlushedPc` writes a column only if the handler's value differs from the loaded one.
* `Refuse` is an early return or a raise, `Fail` a lost connection or the abort of a
  deadlock victim: the session closes, nothing is written, the locks go.
* `sweep` is the running iteration of the cleanup task: the rows it selected, those
  left to visit, those it will commit.
* `screen` is the last command a computer's client obeyed; with `LossySockets` a command
  may get lost, since `safe_send_pc_command` swallows errors.

A booking, an order or a payment is named by the request that inserted it. All data the
properties do not tell apart (names, messages, notifications, scores, HTML) is left out.

### Their abstractions, and why they are harmless

* `users.is_active` is never set to false anywhere, so the branch `AuthRequired` of
  `_lock_active_user` cannot be reached.
* Notifications and fraud signals are only inserted and read by nothing modelled; what
  counts is the user rows an override's signal locks (`Overrides`).
* An UPDATE that waits re-evaluates its WHERE on the new row version when it goes on
  (READ COMMITTED), so it is one action that is disabled while it waits.
* The roles of owners are fixed in these modules; `Applications` has their changes.
* The clock stops at `MaxTime`, a bound of the instances and not of the program.

### The other modules

*`Applications`.* `req[r]` is a request: what it read (`role`, `status`) and whether it is
still open. Sending it is the reads and the early answers of the handler; its commit,
any time later, writes in one transaction the columns that differ from what was read, so
a decision may write a role computed from an old one. An e-mail names a user, a club is
created by one request only. `approved` is history. Left out: the phone, which is unique
like the e-mail, the games of a club, and clubs without an owner, which no code makes
(`owner_id` is set at the insert and written by nothing else). A decision reads the club
and, in a second SELECT of the same load, its owner, which is one step here.

*`Sockets`.* One event loop runs everything, so an action is what a task does between
two awaits: a handler `Authenticate`s (token check), awaits `accept`, registers, and then
waits in its receive loop until it notices that the client is gone; a sender takes the
socket from the dictionary, awaits the send, and on failure disconnects it. `conn[c].alive`
is the client's side, `registered` the two dictionaries, whose keys (computers and users)
are disjoint. `wsToken` is the hash last issued, so an older token is refused. `BinaryFrame` is
the frame for which `receive_text` raises `KeyError`, which neither endpoint catches: the
handler is `crashed`, its connection closed, and nobody calls `disconnect`. `rivals[c]` is
history: the connections of the same id that were open, or being written to, at any time while
`c` was open. The claims of a user's JWT are left
out: a user's connection is authenticated as that user.

*`RateLimiter`.* `check` awaits nothing inside its lock, so a call is one step. `hits` are
the deques, time is counted in ticks that are fractions of a second since `int()` in
`retry_after` cuts fractions off; `admitted` and `refusal` are history and the reference
against which the deque is compared.

*`FraudSignals`.* A player's purchases and requests hold the player's row from before the
rules run until the commit, so they are one action each; top-ups for different users
overlap, each reading the signals before it and committing its own later. What differs
between the two and decides the counts is kept: a purchase is flushed before its rules
count (so a rule that adds one for "this one" counts it twice), a top-up's signals are
not. A rule's window compares `starts_at` for bookings, `created_at` for the others, and it
begins a window before the time at which the rule runs (`fraud.py:123`, `:182`), which is after the
flush: up to `Lag` later than the time of the purchase itself.
Amounts are in thousands of the currency, a tick stands for five minutes or, for
top-ups, most of a day; the thresholds are those of the code but for `RapidOrderLimit`.

*`Logins`* composes the limiter with what comes behind it. A web login is one call of `check`
and then goes on at its SELECT; `api_login` does not ask the limiter. The password check and
the making of the token are a step of their own after the SELECT, so that a revocation may
come in between; decoding a token and reading its user are two steps for the same reason.
The clock of the limiter is the clock of the tokens: `Iat` and `exp` are whole seconds of it,
a cutoff is any tick. `Restart` empties the limiter and ends what is open. No code sets
`tokens_invalid_before` or deactivates an account, so whoever runs the service does
(`Operator`). `token.at`, the moment a token was made, `decoded`, the moment it was
decoded, and `seen`, the user as it was read, are what the properties compare.

*`FormRequests`, `SeatNumbers`, `Integrations`, `Goods`, `Reviews`, `ClubForms`.* A request sends one form
of one of the four kinds, and a superadmin blocks and restores clubs in between.
`SeatNumbers`: a request reads the largest number or looks for one, and inserts its rows
later, in one transaction; `uq_computers_club_number` is the condition `Collides`.
`Integrations`: a save reads the row and writes later where it differs from what it read; a
test reads the row, asks the outside system in a thread, and then writes the status; two
columns stand for all that a form sets, and `saved` is history. `Goods`: which fields are let
through, and the check constraints of the tables, which are another translation of the
same rules from `models.py`; cells of a file are counted in halves, as `int(float())` cuts.
`Reviews`: one action per statement, find the club, find the review, insert or update.

*`Migrations`.* The revisions are numbered 1 to 10. `schema` is the set of revisions whose
changes are there, `version` what `alembic_version` says. `rows` holds, for a
table, one row that stands for all of them, as far as a revision looks at it: the status
and price of a booking, the minutes of a tariff, whether two computers of a club have
one number. An upgrade creates what must not exist (so it fails on a schema that has it),
its constraints are checked against the rows, and each revision's name must fit into
`version_num`; all of it is one transaction. The database is found new, at any revision
with old rows in it, or without a version and made by a `create_all` that knew the first n
revisions, for any n. `Stamp` writes revision 10 into `alembic_version` and looks at nothing
(`README.md:90` tells to do so once), and `blind` is history: it tells whether the last stamp
named a head that the schema had not reached. On such a schema the service fails where it lacks
a column its models name in every SELECT (`Needed`, `BootstrapRaises`, `WriteRows`).

*`Deployment`.* The phases of the process are `down`, `migrated` (uvicorn runs `startup`)
and `serving`. A request of `Applications` is served only while serving, and ends without
a commit when the process stops. The operator downgrades or stamps only while it is down:
a worker that is running is not told of a changed schema by anything, so nothing could be
said of it. The downgrade of revision 1 drops the tables of `Applications`, too. Decisions
need somebody who is a superadmin. `own` is history.

*Income.* `Income` in `GameClubs` is `build_finance_summary` over what the page selects. It is a
read, so it is an operator and no action.

## 3. What TLC checks

All instances of `GameClubs` use the customers `ann` and `bob`, the owner `boss`, the superadmin
`root`, one club and one computer, so that every pair of requests competes. The
tariffs cost 3 (fits), 0 (fits) and 4 (another category), the products 2 and 0, the
deposit is 2, test payments are 2 to 3; `ann` opens with 5, `bob` with 3, `boss` with 2.
With these `ann` can pay one booking but not two and the balances hit exactly zero.
Each cfg lists how many requests there are (3 or 4) and the calls each may choose from.
Three overlapping requests are what every race of two handlers and a third that prepared
their state needs; `managers` has a fourth, because a request is made, moderated twice and
disturbed. `MaxTime` is 0 where nothing depends on time, 1 or 2 where a session must end
and another be sold after it.
`CHECK_DEADLOCK FALSE`: when every request is done and no session is left to expire the
service is idle, which is no error.

The other instances are as small as their question allows:

* `deployment`: two e-mails, one of them the superadmin's, two clubs, three requests, so that
  an application meets two decisions, which overlap or are made again after a crash; two
  crashes; name columns of 32 and of 49 characters. The lengths of the names are those of
  the files. `upgrade`: the same without requests and with 32 characters only.
* `sockets`: a computer and a user, three connections that may be to the same one, a
  sender, one token and wrong ones; no symmetry, because it is about liveness, too.
* `logins`: one key, since keys share nothing, with a limit of 2 in a window of one second;
  half-second ticks up to five, so that the window slides by more than its length and a token,
  which lives for a second, expires; one account and two requests, which are a login and a
  use of its token, or two of either, among admissions of others.
* `club_forms`: two clubs and three requests, each free to send any form: two tests or saves
  and a third save, two batches and a single computer. Counts and numbers lie around the limits 1
  and `MaxCount`, which is 3 instead of 200; sums around 0 and above `MaxInteger`, which is 9;
  minutes around 0 and `MaxMinutes`, which is 3; one address is refused, one rating is out of range.
* `fraud_signals`: three purchases at times 0 to 2, windows of three ticks (bookings), two (orders) and
  one (top-ups), a flush that takes none or one, so that purchases lie inside the
  window, at its edge, and out of it by the flush alone; two
  users whose balance a superadmin tops up. The amounts reach a cumulative threshold with three purchases
  and with two top-ups. `RapidOrderLimit` is 3 instead of 5, so that three orders are a burst;
  `MaxSignals` lets top-ups and failed payments begin while fewer than three rows are there.

Symmetric sets (clubs, requests, users) are interchangeable in the runs with
SYMMETRY, none of which checks liveness. `CHECK_DEADLOCK FALSE`: requests, connections
and clocks are bounded, and a behaviour ends when they are used up.

Runs that pass:

| run | question | properties |
|---|---|---|
| `customers` | All that customers do, overlapping, with a rejection, a top-up, a freeing or an override by the owner or the cleanup task beside them, lost commands and failures: do rows stay whole, is money exact where it must be, who waits in a circle, is the income what was charged? | `TypeOK`, `SeatIsWhole`, `ChargedAndRefundedOnce`, `CirclesNeedForeignKeys`, `SoldWhileFree`, `OthersCreditsAreExact`, `IncomeWasCharged` |
| `managers` | Requests moderated twice beside sales, manual status changes and club blocking: is every request decided once, refunded once, and every seat granted? | `LockedSections`, `OnePendingPerSeat`, `ChargedAndRefundedOnce`, `SeatWasGranted`, `BookingsFollowLifecycle` |
| `progress` | Does every request end, and every ended session leave its computer? | `RequestsFinish`, `ExpiredSeatReleased` |
| `deployment` | However decisions overlap, the process stops and the database is moved up and down: does the CRM stay closed to whom nobody approved, is there a superadmin, is nothing served on a part of the schema unless a stamp vouched for it, are added columns filled? | `PendingOwnerHasNoActiveClub`, `AdminWasApproved`, `PendingOwnerHasApplied`, `VersionTellsSchema`, `ColumnsAreFilled`, `ServedSchemaIsWhole`, `BossModerates` |
| `sockets` | Which ended connections stay registered, can a client with one connection be unregistered, is a dead one forgotten? | `NoGhost`, `LoneIsReachable`, `DeadIsForgotten` |
| `logins` | Is the limit kept in every window and `Retry-After` enough, does no revoked or expired token get in, and is a fresh one never refused? | `WithinLimit`, `RetryAfterIsEnough`, `RefusedForAReason`, `RevokedIsRefused`, `ValidIsAccepted` |
| `club_forms` | Do overlapping forms keep batches consecutive and whole, settings as they were saved, rows within the constraints, first reviews single and undisturbed changes exact? | `TypeOK`, `BatchesAreConsecutive`, `AllOrNothing`, `SavedSettingsStay`, `ChecksCoverConstraints`, `CreatedOnce`, `ExactUnlessRaced` |
| `fraud_signals` | Is every burst and every split amount within a window, less the time of a flush, reported, and does a signal never state more than what was topped up? | `BurstsAreReported`, `SplitsAreReported`, `TotalsWereToppedUp` |

`SeatIsWhole` is about customers, the cleanup task and overrides by `free`; another manual
status may mark a computer busy that nobody occupies, and so may the confirmation of a request
without an end.

Handlers do deadlock, in `customers` as in `managers`. The last flush of the owner's
`free_seat` or `update_computer_status` updates the computer and keeps its row, and then its
fraud signal refers to the occupant's row; the occupant's second `book_seat` holds that row and
waits for the computer. `confirm_request` against a `book_seat` of its client is another such
pair, and two superadmins who top each other up. `CirclesNeedForeignKeys` says that every circle is of this
kind: somebody of the staff is in it, at the last flush. PostgreSQL aborts one of the
transactions and its client sees an error; `RequestsFinish` is checked on an instance where
this happens.

Runs in which TLC finds a behaviour that contradicts what the repository says of itself
(the quotations are in `findings`):

| run | property | what happens |
|---|---|---|
| `lost_update` | `LedgerReconciles` | two overlapping charges of one client: both are recorded, one is debited |
| `double_booking` | `NoDoubleBooking` | a confirmation makes a second booking of a busy computer active |
| `late_command` | `FreeSeatIsLocked` | the unlock of a booking arrives after the lock of the freeing that followed it |
| `upgrade` | `NewDatabaseIsServed` | the name of revision 5 has 49 characters, `version_num` is a VARCHAR(32): every upgrade of a new database is rolled back, and the service never runs |

With `Widths = {49}` instead of `{32}`, `NewDatabaseIsServed` holds: a wider column (or
shorter names) is all that is missing.

The models have further behaviours in which a reader of the repository would be surprised.
They are not runs of their own, and the properties above are stated so that they allow them:

* `free_seat` decides on an occupant it read without a lock, and may end the session of the
  client who came next (`booking_service.py:156`); the cleanup task expires the active
  bookings of a computer that was sold again after its SELECT (`main.py:131`).
* A tariff of price 0 is accepted, and every booking of it is an unhandled exception
  (`core/finance.py:64`). A refunded deposit stays in `bookings.amount_paid`, which the
  finance summary adds up (`web/admin.py:70`); `IncomeWasCharged` is about what was charged,
  refunds apart.
* A test of a connection may write a status that belongs to the settings before a save
  (`web/admin.py:748`); two saves that read the same row may mix their columns.
* A price too large for its column, or `inf`, costs all rows of an import (`web/admin.py:134`).
* A login whose password was checked before a revocation gets a token after it
  (`web/auth.py:51`).
* Approving a club of the superadmin's own account makes it an admin until the next start
  (`web/superadmin.py:76`). A downgrade below revision 9 is refused while there are pending or
  rejected bookings, and an upgrade to revision 5 while two computers have one number.
* A rejection that read the role before an approval of another club writes `user` after it
  (`web/superadmin.py:104`). The later of two registrations with one e-mail ends in an
  unhandled `IntegrityError` (`web/auth.py:122`).
* The end of an old socket, noticed after its client has reconnected, removes the registration of the
  new one (`core/ws.py:26`), although the manager is said to keep the active connections
  (`core/ws.py:19`).
* A database of an old `create_all` that is stamped `head`, as `README.md:90` tells to do, is served without
  the columns of the later revisions: the upgrade before it has nothing to do.
* A binary frame ends the handler of a WebSocket by a `KeyError` (`main.py:216`, `:234`), and the
  closed connection stays registered: a user's until something is sent to it, a computer's until
  a newer connection replaces or removes it, since `safe_send_pc_command` forgets nothing.
* Two overlapping changes of a review leave the rating of one and the comment of the other
  (`review_service.py:49`).
* A signal of rapid purchases counts the purchase at hand twice (`core/fraud.py:130`);
  overlapping top-ups for different users pass the daily threshold unreported
  (`core/fraud.py:269`). A purchase exactly one window before this one, or less by no more than its flush took,
  is not counted (`core/fraud.py:123`).

Each property of a passing run has a mutant: a definition that models code is replaced
by a slip of the kind one makes in that code (a lock dropped from one handler, a status
filter forgotten, a commit too early, another lock order), and the run then fails. The
slips are written beside the definitions they replace.

### Fairness

`FairSpec` assumes that the event loop runs a handler that can go on (WF of `Step(r)`),
that PostgreSQL's detector aborts a transaction of every deadlock (WF of
`Deadlocked(r) /\ Fail(r)`), that the supervisor of the cleanup task runs it again and
again (`main.py` catches everything an iteration raises and sleeps a minute) and that it
does not fail for ever, and that time passes. Nothing is assumed about arrivals or about
other failures.

`FairSpec` of `Sockets` assumes that a connection's handler goes on when it can: the event
loop runs it, and the server's ping makes a receive fail when the client is gone. Nothing
is assumed about clients and senders.

`LiveDeployment` assumes that the container is started until it runs (`restart:
unless-stopped`) and that `startup` ends. Without it the finding of `upgrade` would be a
container nobody starts.

## 4. What is proved

`tlapm` checks the following for all values of the constants that meet the assumptions of
the modules (`TablesAssumption`, `NamesAssumption`, `ApplicationsAssumption` ...): any number
of users, computers, clubs, connections and requests, any prices, any calls.

In `GameClubs`:

* `TypeCorrect`: `Spec => []TypeOK`. The part that is not bookkeeping is that no balance
  becomes negative although it is computed from an object older than the lock. It is
  not inductive alone: `TypeInv` adds that a request past authentication has a call
  that fits its phase (`HandlerInv`), that at `commit` the balance check has been made
  on the very object the debit uses (`CheckedInv`), and that bookings locked by a bulk
  UPDATE exist (`LockedRowsInv`), so that no step writes a row that is not there.
* `LocksExclude`: `Spec => []LockedSections`. The invariant is `LockInv`: a handler past
  a `FOR UPDATE` holds that lock (`HoldInv`), and a request's booking is inserted only
  by its own commit (`InsertInv`). A lock has one holder and only its holder releases
  it; so two handlers past the same lock are the same handler.
* `SaleIsExclusive`: `Spec => SoldWhileFree`. `SaleInv`: from the check of `book_seat`
  to its commit the computer stays free, because everybody who could change it either
  waits for its lock or leaves it free.
* `NoTwinRequests`: `Spec => []OnePendingPerSeat`. `AskInv`: a handler about to insert a
  request holds the client's lock and there is still no twin; a pending booking comes
  only from such a handler.
* `SeatsAreGranted`: `Spec => []SeatWasGranted`. `PendingInv`: a booking whose lock a
  moderator holds is still as pending as he found it (`LockedBookingStays`), so that what was
  granted is never rejected (`GrantStays`); and of all that writes a computer only a sale and
  a confirmation put somebody there, the others keep or clear its columns (`SeatStep`).
* `SeatsStayWhole`: `Spec => []SeatIsWhole`, if the staff override a status by `free` only and
  every confirmed session has an end. `WholeInv`: not only the rows are whole but also the copies
  of them that handlers and the cleanup task hold, and what the latter will release was
  read as busy (`RowsWhole`). A handler then writes a whole row or, since `FlushedPc` skips what
  did not differ, only columns in which two whole rows agree.
* `DeadlocksNeedStaff`: `Spec => []CirclesNeedForeignKeys`, without hypotheses about the
  calls. `HeldInv` and `SweepHeldInv` bound the locks a handler and the cleanup task hold in each of
  their phases. Short of the last flush of the staff everybody locks bookings first, then
  clients, then computers (`WaitsFor`), and of several computers only the cleanup task holds some
  while it waits for others: among such transactions nobody holds what the next one waits for.
* `MoneyMovesOnce`: `Spec => []ChargedAndRefundedOnce`. `MoneyInv` adds to the above
  that who holds a booking's lock decides it or found it active (`LockerInv`), without which
  a release could turn a rejected booking into a completed one; that what is about to be
  sold has a price (`PricedInv`), since a debit of nothing raises; and that orders and
  payments, too, are inserted by their own request's commit (`PaidInsertInv`).
* `CreditsAreExact`: `Spec => OthersCreditsAreExact`. `CreditInv`: whoever is about to
  credit another user has loaded the balance under the lock, and every writer of a balance
  holds that lock (`WhoWritesBalances`). For the actor's own balance, loaded before the lock,
  this is false, which is what `lost_update` shows.
* `IncomeIsWhatWasCharged`: `Spec => []IncomeWasCharged`. `IncomeInv` adds to `MoneyInv` from
  which operation the rows of a club come (`InsertedByInv`) and that finitely many requests have
  arrived. Two sums over different sets, one over the rows the page selects, one over the
  requests the club sold something to, are then equal term by term.
* `LifecycleIsImplemented`: `Spec => BookingsFollowLifecycle`, the refinement. `KeptIsWorth`: what
  the ledger keeps for a booking is its price, or nothing once it is rejected; so `kept`
  follows from the status, and each step of `GameClubs` is mapped by what it does to bookings:
  a sale, a request, a decision, a release of active bookings, or nothing.

`IncomeIsWhatWasCharged` and `KeptIsWorth` are about folds, which are recursive functions and
so defined by CHOOSE. `Sums` shows first that there is a function that satisfies their equation
(`SmallestSet` turns a set of parts for which it fails into a smallest one, by the library's
theorem that strict inclusion is well founded: an induction that needs no operator as a
parameter) and then how a sum over a finite set splits, grows and is compared.

In the other modules:

* `PendingOwnersStayHidden`, `AdminsWereApproved`, `PendingOwnersApplied` (`Applications`).
  The three need each other and: an open decision holds the club's owner, and a role it
  read that is no longer `pending_owner` never becomes it again (`DecisionInv`); the
  club an open application will create is its own (`ClaimInv`); owners exist (`UserInv`).
* `NoGhostHolds`, `LoneIsReachableHolds` (`Sockets`). `RivalsKnown`: whoever could
  take the registration of an open connection away, the others that are open, those being
  written to and the one registered in its place, is among its `rivals`. Hence, without rivals, none of
  them is there and nothing else removes it.
* `DecisionsSurviveCrashes`, `ServedSchemaIsWholeHolds`, `BossModeratesHolds` (`Deployment`).
  The same invariant holds beside crashes and migrations, since a lost request is like one
  whose commit failed. `VersionInv` adds that the schema is always that of the first
  so many revisions, and that after a blind stamp the version stays at the head (a downgrade would drop
  what is not there and is refused),
  `ProcessInv` that requests are open only while serving, `BossInv` that no open decision
  read the superadmin's account with another role: it could write that role back.
* `VersionTellsSchemaHolds`, `ColumnsAreFilledHolds` (`Deployment`). `RowsInv`: the row that stands
  for a table has filled what the revisions that are there have added (`RowsFit`). What an
  upgrade makes of it is a recursive function over the revisions between two versions
  (`Chain`), so each revision is shown to fill what it adds and to keep what was filled
  (`RevisionFills`), and the induction goes along the interval.
* `BurstsAreReportedHolds`, `SplitsAreReportedHolds`, `TotalsWereToppedUpHolds` (`FraudSignals`).
  `Reported` says of every row in the table what its own purchase could count and sum up, and that
  it was reported if that was enough. What a later purchase adds is not counted
  for an older one. `AddsInv`: the total of a top-up that waits
  for its commit is backed by its own amount and by those committed before it; signals are
  only appended, so it stays so however top-ups overlap.
* `LimitHolds`, `RefusalsHaveReason`, `WaitingIsEnough` (`RateLimiter`). The deque holds every admission within
  the window (`RemembersWindow`), in order (`InOrder`): what was dropped is too old to count
  now or later, so its length bounds the admissions of every window that ends now. For
  `Retry-After`, `WaitInv` says which admission a refusal was counted from, and when it
  leaves the window.
* `LoginsUseLimiter` (`LoginsSpec => Spec`) carries these over to logins
  (`LoginsAreLimited`). `RevokedTokensAreRefused`, `ValidTokensAreAccepted`: `LoginsInv` says
  that tokens are what `Token` makes of their moment and answers what was decided;
  the rest is arithmetic about whole seconds (`TokenAge`).
* `AllOrNothingHolds`, `TypeOKHolds`, `BatchesAreConsecutiveHolds`
  (`SeatNumbers`). A request still open has no rows, so its commit inserts all of its own
  beside those of the others (`IInv`, of which `uq_computers_club_number` is a part). For batches, `BInv`: the numbers are an initial piece
  of the naturals, and an open batch wants a piece that begins no later than one after it, so that
  it either collides or continues.
* `FormsImplementSeatNumbers` (`FormsSpec => Spec`) carries them over to all forms together
  (`ComputersAmongForms`). `SavedSettingsStayHolds` (`SettingsInv`: a row that was read is still
  there, and who saves from an older reading leaves no claim), `ChecksCoverConstraintsHolds`
  (`GoodsInv`: every row about to be inserted meets its constraints), `CreatedOnceHolds` and
  `ExactUnlessRacedHolds` (`ReviewInv`: a review that is there was added by exactly one request).

Every invariant and every action property of a passing run is stated by a theorem, one of
them under hypotheses about the calls, as said above. Only model-checked are the liveness properties
`RequestsFinish`, `ExpiredSeatReleased` and `DeadIsForgotten` (fairness and ENABLED are out of the
prover's reach), and that the properties of the violation runs fail. `TypeOK` is proved
where it is checked; in `FraudSignals` and `Logins` the types are part of the invariants.

## 5. Not modelled

* Reads other than the income, schemas and templates: they keep no state.
* Games and the links of clubs to games, notifications: rows nothing decides on.
* Observability (logs, request ids, redaction), configuration, seeds, `run_local.py`.
* `AUTO_CREATE_DB_SCHEMA`, which creates tables at a start of a developer's machine and is
  off in `docker-compose.yml`; tables of an older `create_all` other than those of the first n
  revisions.
* The SQL of a migration beyond what section 2 names: indices, columns without default, and
  constraints other than those of `bookings.status` and of the computers' numbers.
* What `check_integration` sends and how an address is judged; nothing in the code
  synchronises goods or balances with 1C yet.
* `ai_chat`, which asks an outside model a question about reads; that it blocks the event
  loop meanwhile is a hazard without a property.

## 6. Plan

Done: all modules of section 2, the runs of section 3, the theorems of section 4. Open:

1. Proofs: that there are no circles at all if the last flush of the staff locked users before
   computers; the weakest hypothesis for `SeatIsWhole` under manual statuses.
2. Composition: `Sockets` below the commands of `BookingService` instead of
   `LossySockets`: which computers stay unlocked after a lost or late command, and what a
   reconnecting client is told.
3. Roles as variables of `GameClubs`, so that an approval, a rejection or a block overlaps
   the manager's confirmations.

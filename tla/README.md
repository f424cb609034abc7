# Models of the Enlazer / bloom backend

TLA+ models of the Go HTTP service in `src/` (accounts, sessions, NFC business
cards, orders, subscriptions, profiles, rate limiting), the TLC configurations that check them on small
instances, and TLAPS proofs of what matters most for instances of any size.

## 1. The system

One process (`main.go`) serves a JSON API.  Every service has two modes, chosen
once at start: with `DATABASE_URL` and a reachable PostgreSQL it works on
tables, otherwise on Go maps under a mutex.  With a database almost every
handler is a **sequence of autocommit statements**: other requests run between
any two of them, an error is often ignored, and the constraints of the schema
(`internal/db/db.go`) are the only thing that is atomic over several tables.

| component | state | operations | how it meets the others | what is hard | what makes it correct |
|---|---|---|---|---|---|
| rate limiter `middleware/ratelimit.go` | visitors: tokens, two timestamps; clean-up ticker | Allow, clean-up, Close | wraps the auth routes | lazy refill, pruning beside requests, Retry-After | a token bucket per client; bounded map |
| sessions `auth/session.go`, `login.go`, `logout.go`, `change_password.go`, `password_reset.go` | table/map of sessions | create, look up (refresh, clean-up in goroutines), log out, revoke one or all | every protected route calls `currentUser`; account deletion and password reset remove sessions | goroutines nobody waits for, expiry boundaries, ignored errors | revoked stays revoked, live stays live, no orphan, fresh on acceptance |
| accounts `auth/signup.go`, `google.go`, `password_reset.go`, `saveUser` | users, index by email, reset tokens | sign-up, login, Google sign-in, change and reset of a password, deletion | creates sessions; cascade to all other tables | look-up then write of a stale copy, update by id *or email*, upserts | one account per email, credentials stay with their email, a token works once |
| cards `cards/cards.go` | cards: owner, status; profile link | create, batch, update, delete, claim, unlink | claims write profiles; account deletion sets owners NULL | check and claim are two statements; stale administrator updates | nobody owns what they did not claim; a claim takes nothing |
| analytics `analytics/analytics.go` | taps, counters | record a tap, read counts | a tap may create a card | three look-ups, then an upsert | the card made belongs to whom it should |
| profiles `profiles/`, socials `socials/` | profile rows, user names, social handles | get, update, check a handle, claim, vCard; add, replace and delete handles | share `nfc_cards` and `social_handles`; sign-up and Google sign-in write names | cooldown and availability read, then written; handles replaced with and without a transaction | names are unique and change once per week; handles are their owner's |
| store `store/store.go` | orders | order, initialise, verify, webhook, status | Paystack; e-mail | late and repeated webhooks, failures answered 200 | no order is confirmed unpaid, no payment is overlooked |
| billing `billing/billing.go` | subscriptions | get, subscribe, verify, cancel | Paystack | malformed statements, verification that fails open | only a paid plan is active |
| leads, links, account settings | rows per user | list, create, delete, upsert | deleted with the user | nothing beyond single statements | rows are their owner's |
| object storage `storage/r2.go` | none | upload, list, delete in R2 | avatars | time-outs | - |
| e-mail, Turnstile, CORS, templates | none | - | called by handlers, not awaited | - | - |

`PROJECT.json` lists the same components with what is modelled of each, and
under `hazards` every place where the code is hard to test, with the property
that would catch it going wrong.

## 2. Modules

    TokenBucket          what the limiter promises (abstract)
    RateLimiter          middleware/ratelimit.go; implements TokenBucket
    RateLimiterProofs    theorems about RateLimiter
    MCRateLimiter        the TLC instance
    Leases               what sessions promise (abstract)
    Sessions             the life of a session; implements Leases
    SessionsProofs       theorems about Sessions
    MCSessions, MCLogout TLC instances (MCLogout adds a watching client)
    Directory            what the accounts promise (abstract)
    Accounts             accounts, credentials, reset tokens; implements Directory
    AccountsProofs       theorems about Accounts
    DirectoryProofs      that Accounts implements Directory
    MCAccounts           TLC instance, used by three configurations
    Cards                cards, claims, taps
    CardsProofs          theorems about Cards
    MCCards              TLC instance, used by two configurations
    Ledger               what the store promises of orders and payments (abstract)
    Orders               orders, payments, Paystack's webhook; implements Ledger
    OrdersProofs         theorems about Orders
    MCOrders             TLC instance
    Profiles             user names and social handles
    ProfilesProofs       theorems about Profiles
    MCProfiles           TLC instance
    Billing              annual subscriptions
    BillingProofs        theorems about Billing
    MCBilling            TLC instance, used by two configurations

Conventions.  `db` is the mode of the process, a variable that never changes:
each run covers both.  A request is a record `req[r]` with the statement it
executes next (`pc`) and the arguments it carries, so a step is one statement
(or one critical section of a mutex, without a database).  `None` stands for
NULL, nil and "no row".  Variables under *history* record what happened for a
property's sake and are never read by a guard (except that tokens and ids are
not drawn twice).  A definition marked *(mutant)* is a plausible bug, used to
show that a property can fail.

### RateLimiter

`visitors` is `rl.visitors`.  A token is counted as `Cost` units so that
fractions stay integers, and a timestamp is kept as its distance to now, capped
at `AgeCap`.  `Admit` and `Refuse` are the two outcomes of `Allow`; `Sweep` is
one pass of `cleanupLoop`; `Tick` is time; `Close` and `LoopExit` end the loop
(with both channels ready the `select` may take either).  `waiting` and `audit`
are observers: time since a refusal, and a window of `AuditTicks` ticks opened
at any moment.  Two assumptions are conditions that `NewRateLimiter` does not
check and the default limiter satisfies: `ForgetsOnlyFull`
(ttl * rate >= burst) and `RetryAfterRefills` (60 s buy a token).

### Sessions

`sessions[t]` holds the owner, the time left and the idle time of the session
with token `t`, as distances to now that stop where the code cannot tell them
apart.  `Live` is the WHERE clause of `currentUser` with a database and its
tests on the map without one: they differ at the boundaries.  `Accept` and
`Reject` are its outcomes; with a database they leave a `Touch` or a `Purge` to
a goroutine, which runs at any later moment.  `Logout` has a channel (cookie or
header), because `destroySession` looks at the cookie only.  `DeleteSessions`
and `DeleteUser` are the statements of `HandleDeleteAccount` that matter here;
the foreign key of the table makes `Create` fail for a deleted account and
cascades.  `InvalidateSessions` is the `DELETE FROM sessions` of
`HandleResetPassword`, with a database: its request is signed in as nobody and
holds a reset token, which is answered to anyone who names the email, so it may
come at any time.  (The token and the password are in `Accounts`.)  `Faults`
lets the statements fail whose error is ignored.

`Leases` is what this amounts to for someone who sees neither statements nor
goroutines.  A token is granted a lease once; only time shortens it
(`left`), only its use renews it (`idle`), and it is over for good when it has
lapsed or was ended.  A request acts for a user after a sign-in (`SignIn`) or
with a live lease (`Enter`), and only for that user can it end leases
(`Revoke`) or the account (`RemoveAccount`).  Two steps end leases without
acting for anybody: `Logout` needs the token of the lease alone, and
`Invalidate`, a password reset, ends all leases of a user for whoever holds a
reset token.
The mapping is `lease <- sessions`, `drawn <- {t : born[t] # None}`,
`endedBy <- revokedBy` and `acting <- [r |-> req[r].user]`, so `touches`,
`purges` and the statement a request is at disappear: a clean-up is `Lapse` or a
stutter, never the end of a live lease; a late refresh is `Renew` or a stutter,
never a new lease; a statement that fails revokes nothing.

### Accounts

`users` are the rows, or the objects without a database: a handler that looked
a user up holds the object itself there, which outlives its entry in the maps.
`saveUser` is `SaveUpdate`, `SaveReselect`, `SaveInsert` (or `SaveObject`).  A
password is labelled with the email it was set under (that of the sign-up, of
the row of the reset token, of the signed-in account), a session with the email
that was signed in with; `CredentialsStayWithEmail` says that neither strays to
an account of another email.  *Who* chose a password is not modelled: no address
is confirmed at sign-up, and `HandleForgotPassword` answers the reset token to
the requester, whoever it is (`password_reset.go:109-114`), so `Validate` may
come from any request and its new password counts as set under the email of the
token.  Resets are `ForgotPassword`, `Validate`, `Consume`, `ResetPassword`,
`InvalidateSessions`.  `Failing` names the kinds of statement that may fail.

`Directory` says what all this amounts to for someone who knows an email only:
it leads to one account or none, and every step registers, changes or removes
the account of *one* email, which always keeps a way to sign in (a password that
was set under the email, or a Google identity of it).  With a database a change may exchange a
password or an identity but never lose it; without one two registrations at once
replace each other.  The refinement mapping is `account <- [e |-> Account(e)]`,
the account that a look-up by email finds, and `durable <- db`.  Ids, copies
held by requests, the two maps and the several statements of `saveUser` all
disappear under it: most steps stutter.

### Cards

`cards[c]` is the row or the map entry of uid `c`, `link[u]` the `card_uid` of
a profile.  `UpdateRead`/`UpdateWrite`, `ClaimRead`/`ClaimWrite`/`LinkProfile`/
`InsertProfile` and `TapRead`/`TapWrite` are the statements of UpdateCard,
ClaimCard (the one in `profiles/service.go` issues the same) and
HandleRecordTap.  Unlinking does nothing with a database: its statements lack
their parameters.  A card whose uid an update has blanked is out of reach of
every handler and counts as gone.  Statuses other than "claimed" are treated
alike by the code and are one value.  `NameOf` gives users whose name is also a
uid, because a tap may name a user: it then makes a card of that name.  Taps
with texts outside `Uids` are left out.  `released` and the field `read` of an
update are history: an administrator's update writes back a status, and when
that is not the one it has read from the card as it still is (it was given, the
SELECT failed, or a claim came in between), the card may become claimable while
it has an owner.  `OwnedIsRefused` says that nothing else does this.

### Orders

`orders[i]` is the row of id `i`: its `payment_ref`, its status, and `by`, a
history field that says which handler wrote the status last.  `memoryOrders` is
the list every order is also put on.  `Checkout` and `Issue` are
HandleInitializePaystack: the pending row is inserted before the reference
leaves the process.  `Order`, `InsertOrder` and `InsertBare` are HandleOrders
with its second, shorter INSERT.  The webhook is the one handler with a
transaction: `Lock` is its `SELECT ... FOR UPDATE`, which waits for rows other
webhooks have locked (`Unlocked`) and reads the status of *one* row of the
reference; `Confirm` is UPDATE and COMMIT, `ConfirmFails` their failure, and
`Ignore` the webhooks that stop earlier.  `UpdateRows` and `UpdateList` are the
administrator's update.  `Restart` stops the process between any two steps.
That a `SELECT ... FOR UPDATE` locks all rows of its reference is one step: it
waits until it can have them all.

`Ledger` is the store for someone who sees neither requests nor transactions:
orders are open or closed (confirmed or paid), a checkout is on record before
its reference is known, an order taken afterwards is closed from the start, and
a charge is owed until a webhook settles or drops it.  `Settle` is a webhook in
*one* step: one order of the reference, as it is at that moment, decides whether
all are closed.  The mapping is `rows <- [i |-> ToOrder(orders[i])]` and
`owed <- outbox`; the step that settles is `Confirm`, although the status that
decides was read by `Lock`, with inserts, updates and other webhooks in between.

Paystack is outside: it charges references that were issued (`paid`), and keeps
the event of a charge in `outbox` until it is answered 200, which the handler
does even when a statement fails.  Events are taken to be Paystack's, that is,
signed (`PAYSTACK_SECRET_KEY` is set); the order a customer posts after a
checkout carries a reference that was issued, or none.  Ids and references are
times in nanoseconds and taken to be different.  "shipped" stands for every
status the code does not compare with.  Prices, support tickets, the
verification that only asks Paystack, and e-mails are left out.

### Profiles

The mode with a database only.  `users[u]` is the name of an account and the age
of `username_changed_at`, `handles[i]` the row `i` of `social_handles`.  An
update of a profile is `ReadName` (name and cooldown), `Available`, `Rename`,
`WriteProfile`, then `StartDelete`/`EndDelete` and one `Insert` per handle, each
a statement of its own; without a name it begins at `WriteProfile` (`Update`).
`Register`, `SignIn` and `SaveUser` are the parts of sign-up and Google sign-in
that write names: `saveUser` writes back the name it read.  (The case that it
finds its row by email is in `Accounts`.)  `Free` is the UNIQUE index, which
decides when `Available` is out of date.

`Sync`, `SyncDelete`, `SyncInsert`, `SyncCommit` are the transaction of
`SyncUserSocials`: until it commits, `ids` is what it has deleted and `put` what
it has inserted.  Statements behave as in PostgreSQL at READ COMMITTED: a DELETE
takes the rows that are there when it starts, so rows that another request
inserts meanwhile stay; it waits for rows that an open transaction has deleted
(`Locked`); an INSERT keeps the user's row from being deleted until its
transaction ends.  The code ignores the errors inside the transaction, and the
database then refuses the COMMIT (`SyncFails`).

`renamed` and `overtaken` are history: when an update last changed the name of
an account, and which requests past their look at the cooldown have been
overtaken by another change (or could not read).

### Billing

Without a database `subs` is the map `subscriptions` of *objects*.  A handler
takes a pointer under the mutex and encodes the object after the unlock, so a
request in `encode` holds `Shared` (what the map points to, whatever was written
to it since) or, when a verification has put another object in the map
meanwhile, the old one (`Kept`).  Reading a status that is being changed is a
data race: `Answers` then allows the old value, the new one, or "torn" (a string
is two words).  `GetUserSubscription`, `CancelSubscription`,
`InitializeSubscription` and `VerifySubscription` are the handlers; a
verification goes on with `Accept` or `Refuse`, which are Paystack's answer (a
failed request or an answer that cannot be decoded accepts too), then
`Activate`, and `Encode` writes the answer.  `Listed` is what the list of the
administrator says.  `Restart` empties the map, `Pay` is Paystack's customer.
With a database all statements lack their `$n` and fail: nothing is stored, and
each answer is a subscription that begins now.

Time is in ticks, `PerDay` to the day, because a subscription is active until its
days, *truncated toward zero*, are negative: one day longer than its end
(`DaysRemaining`).  `VerifySubscription` takes the time before it takes the mutex;
`Tick` assumes that nobody waits a day for it.  `promised` and `lapsed` are
history: the latest end that a cancellation has answered, and who has been told
that theirs has expired.  Plans, amounts and features are texts that nothing
depends on; filters and sums of the list only read.

## 3. What the runs check

| run | configuration | result |
|---|---|---|
| rate_limiter | 2 clients; a token is 2 units, rate 1, burst 3, ttl 3, sweep every 2 ticks | passes: `WindowBound`, `RetryAfterHonoured`, refinement of `TokenBucket`, `IdleVisitorsForgotten` |
| sessions | 2 users, 2 tokens, 2 requests, idle limit 1 tick, lifetime 2, statements may fail | passes: `RevokedStaysRevoked`, `OnlyOwnersRevoke`, `NoSessionWithoutAccount`, `LiveSessionsAreKept`, `AcceptedIsFresh`, refinement of `Leases` (`ImplementsLeases`) |
| logout | the same without failures | violated: `LogoutTerminates` |
| accounts | 3 ids, 2 emails, 1 Google identity, 1 reset token, 2 requests; all kinds of statement fail but `consume` and `reselect` | passes: `OneAccountPerEmail`, `CredentialsStayWithEmail`, `IndexSound`, `SignInFindsAccount`, `AnsweredTokenRefused`, refinement of `Directory` (`ImplementsDirectory`) |
| reset_token, deleted_account | the same without failures | violated: `TokenAcceptedOnce`, `DeletedStaysDeleted` (stated with a database) |
| cards | 2 users, 2 cards whose uids are the users' names, 2 requests; SELECTs may fail | passes: `OwnersExist`, `OwnedByClaimant`, `OwnedIsRefused` |
| claim_race | the same without failures | violated: `ClaimTakesNothing` |
| orders | 2 ids, 1 reference, 2 requests; an administrator's id matches one row or both, and writes "pending" or "shipped"; all kinds of statement fail; 1 restart | passes: `ConfirmedMeansPaid`, `PaidIsAcknowledged`, `HoldersNeverWait`, `ChargesSettle`, refinement of `Ledger` (`ImplementsLedger`) |
| profiles | 2 users, 2 names, 1 handle, 2 row ids, 2 requests, a cooldown of 2 ticks; all kinds of statement fail | passes: `UniqueNames`, `NoOrphanHandles`, `CooldownKept`, `SyncWhole`, `OnlyOwnersRemove` |
| billing | 1 user, 1 reference, 2 requests; days of 2 ticks, a year of 2 days, 11 ticks; restarts | passes: `AccessUntilEnd`, `ExpiryNoticed`, `LapseIsFinal` |
| verify_payment | the same | violated: `ActivatedIsPaid` |

The violated runs are disagreements between what the code answers or documents
and what its interleaved statements do; `PROJECT.json` quotes the line under
`findings`:

* **Logout by header.** The token may come in a cookie, as a bearer token or in
  `X-Session-Token`; `destroySession` reads the cookie.  Others get
  "Logged out successfully" and keep a session that works.
* **A reset token accepted twice.** SELECT and UPDATE are separate and the
  UPDATE has no `AND NOT used`.
* **A deleted account that comes back**: a Google sign-in saves the user it read
  before.  With a database `saveUser` finds no row to update and inserts one;
  the property is stated for that mode, so the counterexample is this path.
  (Without one `SaveObject` puts the object back into the maps.)
* **A card claimed by two users**: the UPDATE of the claim has no condition.
* **A subscription activated unpaid**: `VerifySubscription` goes on to activate
  when its request to Paystack, or the decoding of the answer, fails.

Two more behaviours are in `Accounts` without a run of their own: two sign-ups
for one email that are both answered 201 (both look-ups find nothing, and the
second `saveUser` updates the row of the first by email), and a password reset
that a Google sign-in undoes by writing back the row it read.  `Directory`
allows both: they change one account, and its credentials stay those of its email.

Bounds.  Two requests suffice for every interleaving hazard listed: each is a
pair of handlers, or a handler and a single-step operation (those need no
request and may come any number of times).  Three ids let an account be deleted
and made again while another id is drawn.  Times are ages with a cap, so runs
are of any length; three ticks pass both session limits.  `MaxTouches` bounds
the refreshes of one session under way: each has the same effect, and one that
runs late is what matters.  In `accounts`, an error of `consume` is left out
because it defeats `AnsweredTokenRefused` at once (the code ignores it), one of
`reselect` because it defeats `SignInFindsAccount`; both are listed as hazards
or in the comments of the properties.  In `orders` two ids and one reference are
the case that matters, a checkout that is also posted as an order: events of
different references meet only through rows that an administrator updates
together, which the theorems cover for any number of each.  "confirmed" and
"paid" need not be written by an administrator, because both close an order.
In `billing` one
user is enough: users share nothing, and the theorems cover any number.  Two
requests are a holder of the object and whoever changes it; a year is two days
so that being cancelled, ended, noticed as expired a day later and bought again
fits in `Horizon`; the ticks of a day let a verification be late by less than a
day.  In `profiles`
one handle is enough to be there once, twice or not at all; two would only
double what the theorems cover for any number.  Symmetry is used in runs whose
properties do not name single elements, and never with liveness.

Not claimed of accounts: that a password was chosen by the holder of the email
(see `Validate` above), nor that this person is the one who ends the sessions
which a reset deletes.

Not claimed of profiles: that the cooldown holds between updates that overlap
(two that have both seen its end both change the name; `CooldownKept` says that
nothing else does it), that an update leaves exactly the handles it was given
(two at once leave those of both), and that a name once changed stays (a Google
sign-in writes the old one back).

Not claimed of cards: that a claim which comes between the two statements of an
administrator's update keeps its status (the update writes the old one back, and
`OwnedIsRefused` exempts the card).

Not claimed of orders, because the code does not promise it: that a status never
goes back (a late webhook confirms a shipped order again), and that every order
of a paid reference is confirmed (one row decides for all).

Not claimed of billing: that a payment is used once (the code keeps no
references, and every verification begins a new year), that a user who has paid
still has the subscription after a restart or with a database, and that the
status in an answer fits the days in it.

Fairness.  In `RateLimiter`, weak fairness of `Tick` (time passes) and of
`Sweep` (the Go scheduler runs the clean-up goroutine, and the mutex is released
by every holder).  In `Orders`, weak fairness of `Handle(r)`: a handler that has
begun goes on, so that a transaction ends and its locks with it; and strong
fairness of `Deliver(ref)`: Paystack sends an event again until it is answered,
and a `SELECT ... FOR UPDATE` that waits gets its turn although other requests
keep all slots of the model busy again and again.  Restarts are bounded, as a
process that always restarts finishes nothing.  No fairness is assumed of
clients, nor of the goroutines of `Sessions`: nothing in the code waits for
them.  The services never stop taking requests, so every run checks for
deadlock.

## 4. What is proved

For all values of the constants that satisfy the assumptions:

* `RateLimiterProofs`: `TypeCorrect`; `AgesAgree` (the two timestamps of a
  visitor are equal, which is why a lazily refilled bucket may be forgotten
  when `ForgetsOnlyFull` holds: by then it is full); `Implementation` (every
  step is a step or a stutter of `TokenBucket` under
  `credit <- Available`); from these `WindowsAreBounded` (invariant: what was
  spent in a window plus what is available is at most the budget) and
  `RetryAfterIsEnough` (invariant: a waiting client has gained `Rate` for each
  tick waited).
* `SessionsProofs`: `TypeCorrect`; `RevocationIsFinal`, `RevocationIsOwned`
  and `NoOrphans` from an inductive invariant that ties every row to the
  birth record of its token and keeps a revoked token from being drawn or
  upserted again; `CleanupSparesTheLiving` step by step;
  `AcceptedFresh` from an invariant on the clocks: age plus time left is the
  lifetime, and idle time is the time since the last use unless a refresh was
  delayed over a tick.  All of them hold with password resets that delete the
  sessions of a user at any time.  `SessionsAreLeases`, that `Sessions` implements
  `Leases`, goes through the actions one by one; besides types it needs that a
  request at rest carries no user (`Resting`).  What holds of every step of
  `Leases` then holds of `Sessions`: `SessionsAreOverForGood` is
  `OverForGood`, that a token is held only once, with one user, and with an end
  that never moves away.
* `AccountsProofs`: `TypeCorrect`, `IndexIsSound`, `UniqueAccounts`,
  `CredentialsKeepTheirEmail` from `CInv`: every request carries an id and a user that
  belong together (`OneEmailPerId`: an id never changes its email, be it in a
  row, in a request or in a session), all users carried or stored hold
  credentials of their own email only (`OwnUsers`), and what a handler may hold
  depends on the mode (`Modes`).  This is where the copies that go stale in
  `saveUser` are dealt with: an update by id *or email* writes to the row it was
  read from, or to one of the same email.  `UsedTokensRefused` assumes that the
  UPDATE which marks a token does not fail (`"consume" \notin Failing`), and
  `SignInsFindAccounts` that the SELECT after a conflicting INSERT does not
  (`"reselect" \notin Failing`): the code ignores these errors and both
  properties are false without the assumption.
* `DirectoryProofs`: `AccountsAreADirectory`, that `Accounts` implements
  `Directory`.  It adds `KeyInv` (every user, stored or carried, has a way to
  sign in), `TouchStep` (a step touches the accounts of one email at most) and
  `KeepStep` (with a database it loses neither a password nor an identity).
* `BillingProofs`: `TypeCorrect`, `AccessIsKept`, `ExpiryIsNoticed`,
  `LapsesAreFinal` from `BInv`.  Its core is an inequality: a cancellation may
  answer the end of an object that a delayed verification then replaces by one
  ending earlier, but by less than a day, and a day is what truncation adds to
  every subscription (`promised[u] < subs[u].end + PerDay`).
* `CardsProofs`: `TypeCorrect`; `OwnersAreAccounts` (the foreign keys, with the
  updates that precede them); `OwnedAreRefused` (with `WritesBack`: an update
  writes what it has read, or what it was given); and `OwnersClaimed`, whose
  invariant also covers what requests carry and what profiles link to: a tap
  hands on an owner it read before, so every pending tap and every link must be
  of a claim too.
* `OrdersProofs`: `TypeCorrect`; `PaidBeforeConfirmed`, for signed events, whose invariant adds
  that references in the hands of a confirming webhook, and settled ones, were
  charged; `PaymentsAcknowledged`, whose invariant says that an order about
  to be inserted has an id no row has (`HeldFresh`), and that rows which a
  transaction has locked are still of its reference and one of them still has
  the status it read (`LocksHold`) - what `FOR UPDATE` is for.  A row that comes
  later is confirmed, or pending under a reference that no webhook can name yet.
  `HoldersGoOn`: a transaction that already has rows finds the others of its reference
  free, because nobody else can have read that reference without waiting for
  these rows; it is why the transactions of webhooks never wait in a circle.
  `OrdersKeepALedger`, that `Orders` implements `Ledger`: `LocksHold` makes the
  decision that `Lock` took still true at `Confirm`, and `Known` says that what
  is about to be inserted has a reference customers know.  `ChargesAreKept`
  is `NoChargeLost`, an invariant of `Ledger` by its steps, carried over to
  `Orders` by the refinement: the safety half of `ChargesSettle`, without fairness.
* `ProfilesProofs`: all properties of the run.  `NamesAreUnique` follows from
  `Free` alone, step by step; `CooldownIsKept` from `ChangedIsRenamed` (history
  and column agree) and `SeenCool` (who may still change a name has seen the end
  of the cooldown or was overtaken); `HandlesHaveAccounts`,
  `SynchronisationIsAtomic` and `RemovalIsOwned` from `HInv`: what a request is
  about to delete is its user's, what an open transaction has deleted is still
  there for all others and locked, what it has inserted is there for nobody and
  under ids of its own, and its user is not deleted.

Liveness under fairness (`IdleVisitorsForgotten`, `ChargesSettle`) is out of the
prover's reach and only model-checked.  Every safety property of a passing run
has a theorem.  No model uses recursion.

## 5. Not modelled, and why

Pure functions and I/O (card signatures, e-mail templates, R2 requests, CORS,
Turnstile, JSON) keep no state that a property could be about.  Single-statement
CRUD (leads, links, account settings) has no step that anything could come
between.  Analytics reads only add up.  Profile texts and the
finish of a card are data that no modelled guard reads.  Without a database
profiles and handles are maps that one lock covers for a whole request.

## 6. Plan

1. *(done)* `RateLimiter` with its abstraction; `Sessions`; `Accounts`; `Cards`
   with taps; the proofs above.
2. *(done)* `Orders`; `Profiles` with the part of sign-up, sign-in and deletion
   that touches it.
3. *(done)* `Billing`, in both modes, with its proofs.
4. *(done)* `AccountsProofs`; `Directory`, the abstract store of accounts that
   both modes implement, and `DirectoryProofs`.
5. *(done)* `Ledger` and `Leases`, the abstract stores of orders and of sessions,
   with the proofs that `Orders` and `Sessions` implement them.
6. Left: a composition of account deletion over `Sessions` and `Cards`, which
   each have their own part of it now (`DeleteUser` with the foreign keys).

# Portal access, specified

TLA+ specifications of `backbone-portal`: the module of a Backbone host that
lets people outside the company (clients, vendors, candidates) into a portal,
through invitations, passwords checked by the host, and bearer links. They are
written from the Rust code under `src/src/`, its SQL and its migrations; a doc
is quoted only where the code does something else (see *Findings*). In this
file "the module" is the Rust crate, and a TLA+ module is named by its file.

## The system

### Components, state, operations

| Component (source) | State it keeps | Operations that change state |
|---|---|---|
| Invitations, `service/invite_service.rs` | `portal_invites` | `mint_invite`, `redeem`, `revoke_invite`, `revoke_pending_for_email`, `sweep_expired` |
| Bearer credentials, `service/token_service.rs` | `portal_tokens` | `mint_bearer`, `rotate_bearer`, `revoke_bearer`, `revoke_all_bearers`; `verify_bearer` reads |
| Attempt book, `service/token_service.rs` | a map behind a mutex, in memory | `check` (reads), `register_failure`, `reset` |
| Access, `service/access_service.rs` | `portal_users`, through the others | `login`, `signup`, `revoke_access` |
| Kill switch, `service/policy_service.rs` | `portal_signup_policies`, at most one row | `set_signup_policy`; `signup_open` reads |
| Sapiens subscription, `service/lifecycle_handler.rs` | `portal_users.sapiens_user_id` | `on_created`, `on_user_gone` |
| Audit trail, `service/audit.rs` | the shared `audit_trails` table | one row per audited fact |
| Credential port, `service/credential_port.rs` | one slot for the host's verifier | `install`, `check` |
| Own record and history, `service/portal_surface.rs` | ten display columns of `portal_users` | `update_my_details`; `my_details` and `my_access_history` read |
| Recipient credential, `service/token_service.rs` | none | mint and verify of a link without a row |
| Public routes, `presentation/http/public_routes.rs` | none | throttle, then verify, then a verb |
| Generated CRUD (entities, DTOs, services, handlers) | the same four tables | POST, PUT, PATCH, trash, restore and purge of a row, over columns whose meaning they do not know |

### How they interact

- Redemption flips an invitation and inserts a principal in one transaction,
  writes its audit row in another, then calls `mint_bearer`. Login and signup end
  in `mint_bearer` too.
- `revoke_access` flips the principal, then calls `revoke_all_bearers`, then
  revokes the pending invitations of the email: three commits.
- `rotate_bearer` calls `verify_bearer` and then opens its transaction. Every
  authenticated route calls `verify_bearer` first.
- The lifecycle handler runs when the host's bus delivers an envelope. It stamps
  a principal, or calls `revoke_access` and audits afterwards.
- Almost every verb audits after its own write committed, in a transaction of its
  own.
- Login, signup, rotate and redeem share one attempt book.
- `/me`, its PATCH and the history run `verify_bearer` and then one or two
  statements of their own; nothing holds the check and the write together.
- The generic routes write the rows that the verbs keep, and the self-service patch
  writes the columns the generic routes validate; the limits of those columns are
  written down once in the patch, once in the row rules and once in the table.

### What is hard here

There are no locks in the program: each verb is a chain of awaits, and the
database is the only thing that orders two of them. What a verb read may be
stale when it writes; the conditional `WHERE`, the transaction and the
unique-on-live index are the fences. A verb may stop at any await (a database
error returned by `?`, a future dropped with its connection, a crash), and nothing
resumes it. The bus delivers at least once and in any order. Time passes between a
check and its use. `PROJECT.json` lists the hazards at their lines with the
properties that cover each.

### What makes each component correct

- Invitations: one redemption, one principal; no redemption of a spent, expired or
  foreign one; no decided invitation changes again.
- Bearers: one live credential per sign-in through any number of concurrent
  rotations; chains of rotations; no grant without an instant at which all was
  good; nothing dead returns; a link leaves only once audited.
- Access: one live principal per email; after a revocation reports success, what
  was live at its flip is dead.
- Kill switch: no signup while it stayed off.
- Subscription: a departure revokes in the end, is audited once, and touches
  nobody else.
- Attempt book: the refused logins and signups of an identity are bounded however
  calls overlap; a lock is cut by no more than the delay of the clock reading that
  was registered.
- Own record: written only by its live and active principal, shown in each column as
  last written.
- Generic routes: a status moves by its verbs only; nobody is admitted by a POST; an
  edited row keeps an earlier link from meaning more than it did; a validated write
  fits its table; the column lists of each layer agree.
- Recipient credential: parsed from both ends, it verifies when it is some spelling of
  a minted one, and not otherwise.

## The modules

| Module | What it is |
|---|---|
| `PortalAccess` | The core: four tables, the trail, and every verb on them, one action per committed statement or transaction |
| `PortalPromise` | What the host is promised about credentials, without database or statements |
| `PortalLifecycle` | Sapiens, the bus and the handler, on top of `PortalAccess` |
| `AttemptBook` | The throttle and the verbs that ride it, over a clock |
| `PortalSurface` | A principal's own record, on top of `PortalAccess` |
| `PortalRecords` | What the generated layers know of the four tables, as operators |
| `PortalRecipient` | The recipient credential, as operators |
| `PortalOffice` | One row of one kind under generic routes, verbs and self-service; extends the two above |
| `PortalAccessProofs` | Type invariant and three safety properties of the core, proved |
| `PortalBearerProofs` | What a bearer call holds between its statements; two more properties of the core, proved |
| `PortalSurfaceProofs` | The core implements the promise, the surface implements the core; the surface's type invariant and two properties, proved |
| `PortalTrailProofs` | The trail is true and comes before the link, and an invitation is spent once, proved |
| `PortalVerbProofs` | Two properties that follow a verb of the core from its first statement to its last, proved |
| `PortalLifecycleProofs` | The subscription implements the core; its type invariant and three properties, proved |
| `PortalOfficeProofs` | The laws of the generated tables; the invariant of a stored row, and all properties of `PortalOffice`, proved |
| `AttemptBookProofs` | Type invariant, the guess budget and how far a lock can be cut, proved |
| `MCPortalAccess`, `MCAdmission`, `MCPortalSurface`, `MCPortalLifecycle`, `MCAttemptBook`, `MCPortalOffice` | Symmetry, constants and bounds for TLC |

Operators marked *Slip* are variants with one plausible mistake each; no
specification uses them. They record that a property notices the mistake.

### `PortalAccess`

*State.* `users`, `tokens`, `invites` are the tables as functions from ids to
rows; an id without a row has status `absent`, so drawing a fresh UUID is choosing
an absent id. `open` is the policy, `audit` the set of rows written. `late` holds
the ids whose `expires_at` has passed; `sent` the links some verb returned, the
only ones a caller can present (a link carries an HMAC over its row's
nonce, so an invented one is refused before any row matters). `req` says what
each call in flight is doing; its `pc` stands between two awaits. `due`,
`settled`, and the fields `doomed`, `vouched` and `line` are history: guards never
read them.

*Actions.* A verb without a fork is a chain. For example `rotate_bearer` is
`BeginVerify`, `VerifyRead` (first SELECT), `VerifyUser` (second SELECT),
`RotateTx` (UPDATE, INSERT, COMMIT), `WriteAudit`, `Deliver`. A multi-row UPDATE is
two actions, as under READ COMMITTED: its snapshot (`BearersRead`, `InvitesRead`,
`SweepExpiredRead`) and the write of the rows that still match when locked
(`BearersWrite`, `InvitesWrite`, `SweepExpiredWrite`). `Fail` ends a call at any
await. A refusal with nothing to write returns the call to idle, or takes no step
where the whole verb is one statement (`revoke_invite` of a decided invitation).

*What is left out.* Display names, reasons, actors, details of audit rows, link
parsing and MAC comparison, lengths of time to live, `last_used_at` and
`last_login_at` (best effort, read by nothing here).

*The world.* `Expire` makes one id late; only ids that could still be accepted,
since nothing reads the others' expiry. `SoftDelete` and `Restore` are the
generated CRUD on a principal; restoring meets the unique-on-live index. The bound
`Verb` says which verbs an instance calls: `clock` stands for `Expire`, `crud`
for the last two.

### `PortalPromise`

One step per decision: people are members, away or barred; a credential is live,
lapsed or spent; a question is asked, vouched for at one instant, granted, closed or
exchanged. `PortalAccess!KeepsPromise` maps the tables and program counters onto
it: a principal's standing from status and `deleted_at` (barred wins), a
credential's life from status and lateness, a question's stage from `pc` and
whether the first SELECT found the principal active. Audit rows, invitations'
steps and snapshots are stutters of the promise.

### `PortalLifecycle`

Sapiens publishes `created`, `deactivated`, `deleted`; the bus is a set of
envelopes, from which `Dispatch` picks any one. A handler occupies a request slot,
so that the `revoke_access` it calls is the core's, statement by statement.
`Redeliver` puts an envelope back although its handling goes on or will succeed;
`HandlerStops` ends a handling at any await and leaves the envelope with the bus.
`on_created` is `Stamp` then `AuditCreated`; `on_user_gone` is `Lookup`, `Revoke`,
the core's sweeps, `AuditRevoked`. An anonymized person takes the same arm as a
deleted one. A payload that does not parse fails before any state is touched and
is not modelled.

`Verb` contains `revoke_access`, since the handler calls it. `OfficersRevoke` says
whether officers call it too, in slots of their own; where they do not, every
revocation is the handler's, and `RevokedOnlyIfGone` can say of whom. An officer may
revoke anybody, so there is nothing to say about it where they do.

### `AttemptBook`

`entries` is the map; a key with no failures has no entry. `check`,
`register_failure` and `reset` each hold the mutex once, so each is one action, and
between the check and the outcome the call awaits. The clock is read where a method is
called, *before* the mutex is taken (`Utc::now()` is an argument), so a call may be
overtaken there: it checks by the reading in its `stamp` and registers with any
reading of `Readings`, which may be older than what others have registered.

`MaxDelay` bounds how old that reading is, and is assumed shorter than the shortest lock.
The code has no `.await` between the reading and the mutex, whose sections are a few map
operations, so the delay is one of thread scheduling, and the base is half a minute. Were it
unbounded, a failure could be registered at an instant so old that its lock has already
ended, and nothing could be promised.

Login checks the address by the reading it took for the identity; signup reads the clock
for each. Rotate checks and registers the address alone. Redeem registers on both keys
and checks neither, so its refusals lengthen locks and are bounded by nothing: they are in
`entries` and not in `guesses`, and that is the finding `redeem_unthrottled`. The seconds
that a refusal announces change no state and are left out.

### `PortalSurface`

In the core a bearer call that is not a rotation ends at `pc = "granted"` with its
principal. Here the route goes on from there. `AnswerAtOnce` is `GET /me`, and every
refusal of the PATCH (a body that is no patch, an empty one, a value too long, a
principal that is no longer active). `UpdateMyDetails` is the UPDATE, whose own
`WHERE` looks at the status and `deleted_at` again and whose SET names the columns of the
patch; `UpdateView` is the SELECT its answer comes from, a statement later. `record` holds
the writable columns one by one and the stamp of `metadata.updated_by`; `desk` is how far
a route is, and its `over` is history: the columns that others have written since. `Stop`
ends an update between its two statements. `GET /me/access-history` is one SELECT over the
trail; of it only the end of the call is here (see *Not modelled*).

### `PortalRecords`, `PortalRecipient`, `PortalOffice`

`PortalRecords` is what the generated code knows of the four tables. Each layer writes the
columns of its entity out again, and the module has the lists of each layer as that layer
has them: the struct and its required columns, the arms of `apply_patch`, the bodies of
POST and PUT, the assignments of the two conversions, the response, the row rules, the
CHECKs and NOT NULLs of the migrations, the ten limits of the self-service patch. None is
derived from another, so a column that one of them lacks shows (`updated_by`, a
policy's, has no patch arm). Builders are left out, since no route or verb uses one. A text
is its length in characters and its shape (a `wide` one takes two bytes a character), so
that `char_length` and Rust's `len()` differ where they do in the code.

`PortalRecipient` takes a credential as the sequence of its parts between dots. An
email is one part or more, and a part of it may read as a number. `Uuid::parse_str`,
`parse::<i64>` and `hex_decode` each accept several texts for one value (braces,
capitals, a sign, leading zeros): a part has a value and a spelling, `plain` as a mint
writes it or `other`, and the MAC is compared over what was read.

`PortalOffice` has one row of one kind, chosen initially. The officer's routes are
`Create`, `Read` (the form), `Update` (a PUT of a form read some time ago, one column
edited), `Patch`, `Trash`, `Untrash`, `Purge`; the verbs write the same row behind
their own guards; `UpdateMyDetails` is the principal's patch. A verb stores without
row rules, so the table is the only thing that may refuse it: `said` tells a refusal
(`refused`), a validated write that the table refused (`tripped`) and a verb's write
that it refused (`failed`): a revocation reason, a policy's note and the email of a
signup (`Admit`) reach the table unmeasured. What `backbone_core` does with a protected column is not
in this repository: the model lets it either refuse the write or keep what is
stored. `link` is what the minting verb handed out; its use, `Accepts`, looks at the
row as the routes have left it. A MAC is the record of its inputs. A link carries
whole seconds and a row does not, so the clock counts half seconds.

## The runs

All of them bound the ids of each kind and the calls in flight; ids are compared
for equality only and drawn fresh, so they are symmetric (the liveness run uses no
symmetry). Deadlock is not checked: when every id is used and no fault is left the
model has nothing more to do, which is the bound's doing; the program can
always be called again.

| Run | Instance | What it shows |
|---|---|---|
| `rotation` | 2 calls, 1 principal, 1 invitation; login, verify, rotate, revocation, and the routes behind verify. Either 3 bearer ids; or 2, two columns of the principal's record, archive and restore; or 2, which expire, and 1 stop | `TypeOK`, `STypeOK`, `OneHolder`, `RotationLinks`, `GrantedAtOneInstant`, `DeadForever`, `DeadOnArrival`, `SweepReachesAll`, `AuditedBeforeSent`, `ViewCurrent`, `OwnLiveWrites`, and the refinement `KeepsPromise` |
| `admission` | 2 calls, 2 principals, 1 bearer. Either 2 emails, 2 invitations, archive and restore, the clock, 1 stop and an officer's verbs; or 1 email with signup and the switch, archive and restore; or signups alone, 1 of which stops or cannot read the switch; or a principal who signs in, presents its link and is revoked | `OneLivePrincipal`, `OneShot`, `AuditTruthful`, `DeadOnArrival` |
| `lifecycle` | 2 persons of one email, 1 redelivery, 1 stop, archive, restore, no officer who revokes | `RevocationAuditedOnce`, `RevokedRowMeansSwept`, `RevokedOnlyIfGone` |
| `lifecycle_live` | 1 person, 1 redelivery, 1 stop, officers who revoke beside the handler | `LTypeOK`, `GoneIsRevoked` |
| `attempts` | 2 calls, 1 identity, 1 address, 7 instants, readings up to 1 old | `TypeOK`, `GuessBudget`, `LockKept` |
| `office` | one row of each kind, 2 ids, 2 instants, texts at, above and (in bytes) beyond every limit, 2 generic writes, 1 second | `OTypeOK`, `ChecksHold`, `StatusByVerb`, `LinkSound`, `CreatedNotAdmitted`, `RoutesAgree`, `RecipientBinds` |
| `left_to_sweep`, `reaccess`, `replay`, `performed_edge`, `redeem_unthrottled`, `signup_revoked` | as small as the case allows | one finding each |

*Why the bounds are enough.* A race on one link needs two calls that both verified it;
three bearer ids give the first row, its successor and a second successor of either,
or a second sign-in beside a rotation. What a third call could add, taking the
principal away in between, archiving does without a call. Two calls are also one
update against another update or a revocation; a patch sets one column, the other or
both, and one value besides NULL tells what was written from what was there. A
sign-in's rows never meet another principal's rows in any WHERE clause except through
the id and the email, so one principal suffices where those are not compared, and two
are used where they are (`admission`, where one bearer id is enough, as rotation is
the other run's). `rotation` and `admission` each cover the states within any of their
bounds, an action constraint: a step that would leave all of them is not followed, as
a step is not that finds no fresh id. The stop budget of one is enough for a stop
between any two statements and a second call after it. In `attempts`, two failures
make a lock of three ticks and the next one of four, the cap: the curve's free,
growing and capped parts all occur within seven instants; two calls are enough for one
to be past the check when the other sets the lock, and one tick of delay is enough for
a reading to be overtaken and a lock at the cap to be cut. In `office`, a column is
compared with nothing but itself, its limits and the link, so two ids and two instants
tell equal from changed. Two generic writes are an edit before a verb and a stale form
after it, or an edit and its reverse; a POST sets any column, a PUT or PATCH one of
ten, at least one of each type. Trash, restore and purge are not counted and happen in
any number.

## The properties

- `OneLivePrincipal`: the three ways to a live row of an email, redemption's
  plain INSERT, signup's ON CONFLICT and the host's restore, share one fence.
- `OneHolder`, `RotationLinks`: two calls may both have verified one link; only
  the UPDATE's condition separates them.
- `GrantedAtOneInstant`: the two SELECTs of `verify_bearer` are not one read; what
  they add up to was nevertheless true at one instant, because a principal found
  inactive is never active again unless it was archived, and the first SELECT looks
  at that.
- `DeadOnArrival`: relates a call's success to the state when it began.
- `SweepReachesAll`: relates a revocation's return to what was live when it
  committed, through any rotation or redemption of those rows meanwhile. It says
  nothing of rows that are born behind the sweep; `NothingLeftToSweep` does, and
  fails.
- `AuditedBeforeSent`, `AuditTruthful`: the trail is written by other
  transactions than what it tells of. `AuditTruthful` is about the rows that name a row
  of a table, and a login's. Of `signup_created` it says only that the principal is
  there, since the fallback writes it for a principal another call made; of
  `signup_refused_policy_closed` it says nothing, since a switch that cannot be read is
  audited as closed (see *Noticed*).
- `DeadForever`: an action property over all verbs at once.
- `RevocationAuditedOnce`, `RevokedRowMeansSwept`, `RevokedOnlyIfGone`: through
  redelivery, reordering, stops, and two persons who share an email.
- `GoneIsRevoked`: below.
- `GuessBudget`: the refused logins and signups of one identity are at most the free
  attempts, plus for each lock that ran out as many as calls can be in flight, a lock
  being shorter than the base by the delay of its reading. Redeem's refusals, which the
  check never stops, are not among them.
- `LockKept`: failures registered by calls that were already past the check fall inside a
  lock, and may carry an older reading than the one it was set with; they cut it by no
  more than that.
- `OwnLiveWrites`: the bearer check names the principal, another statement writes;
  only the UPDATE's own condition stands against a revocation in between.
- `ViewCurrent`: the answer to an update is a later read; in each column that was set it
  may show a later write or nothing, never what was replaced.
- `StatusByVerb`, `CreatedNotAdmitted`: any sequence of forms, patches, trashing
  and restoring, a form read before a revocation included.
- `ChecksHold`: three lists of limits, two ways to count, and rules that look only at
  the columns a write changes.
- `LinkSound`: the stored expiry, principal or address may be edited while the link is
  out; that must not make the link mean more.
- `RoutesAgree`: the columns that the layers write out one by one: a column missing from
  the arms of a PATCH, the assignments of a PUT, a body, a response or the conversion of a
  POST is silently lost by that route. `updated_by` is, and is excepted.
- `RecipientBinds`: over values put together from parts of minted ones in any spelling, what
  verifies is a spelling of a minted credential, and all of those do.

### Fairness

Only `PortalLifecycle` claims liveness, under `LSpec`:

- weak fairness of a handler's own steps (`Handle`) and of the steps of the call it
  has made (`Continue`): the async runtime polls a future whose await is ready.
  Nothing else is fair: nobody must call a verb, publish, stop or expire.
- strong fairness of some `Dispatch`: a bus that delivers at least once keeps
  offering what it holds. Strong, because a delivery needs a free request slot, and
  the slots are a bound of the model: other calls may take them again and again.

Stops and redeliveries are bounded by `MaxFaults` and `MaxReplays`: a handler that
crashes for ever never revokes, and no code could change that.

## The proofs

`tlapm` checks every step of the eight proof modules, for all sets of ids, any number
of calls, all `Verb` and all `MaxFaults`, persons, redeliveries and lockout curves, and any
number of writes to any columns at any instants.
The assumptions are those the modules declare:

- `PortalAccess`: `None` is no id, and ids of different tables differ (UUIDs of
  different tables are never compared, and `late`, `sent` and `due` mix them).
- `PortalLifecycle`: every person has an email, `None` is no person, and
  `revoke_access` is among the verbs, since the handler calls it.
- `AttemptBook`: the constants of the curve are positive and its base is at most its
  cap, as in `token_service.rs`; a reading is registered within `MaxDelay`, which is less
  than the base; an identity's key is no address's key (the code prefixes them
  `portal|id:` and `portal|ip:`); the requests are finitely many, since the budget counts
  them.
- `PortalOffice`: there is an id (an insert names one); no id is a word such as a status
  (ids are UUIDs, in columns of their own); `None`, which is NULL, is no text, time, name
  or id. Instants, the time to live and the bounds are numbers.

What is proved does not rest on the bounds of the runs: that two calls and three ids
are enough for a race on a link is argued above only for what is left to TLC.

- `TypeInvariant`, `TypeCorrect`. `TypeOK` alone is not inductive: at `pc = "audit"`
  the row to be written could be `None`, and a redemption could know no
  invitation. `TypeInv` adds `CallsSound`: the fields a call holds at each `pc` are
  the ones its next statement uses. Lemmas on `Becomes`, `Goto` and `Return` say when
  a changed call is sound; then there is one lemma per action.
- `DeathIsFinal` (`Spec => DeadForever`). `TokenSteps`, `InviteSteps` and `UserSteps`
  say which actions write a table at all; `TokenLife`, `InviteLife` and `UserLife`
  say what those can do to one row.
- `OneLivePrincipalHolds`. Inductive together with the type invariant: each of
  redemption, signup and restore finds no live row of the email in the same step
  that makes one.
- `GrantedAtOneInstantHolds`. The invariant is `BearerInv`: every row of `tokens` has
  a principal (`TokensOwned`); a call past its first SELECT holds the principal of
  its token (`Holds`); and if the first SELECT did not find that principal active,
  the principal is revoked by now (`Vouches`). The last part is what the second
  SELECT turns into a refusal. It is inductive because no principal leaves
  `revoked`, and an archived one cannot have passed the first SELECT.
- `RotationLinksHolds`. Needs `BearerInv`: the successor is inserted for the principal
  the call holds, which has to be its token's.
- `AccessKeepsPromise` (`Spec => KeepsPromise`). Each action, seen through the mapping, is
  a step of `PortalPromise` or a stutter. The invariants it uses: `BearerInv`, whose
  `Vouches` makes the second SELECT of a verification a grant of what the first one
  saw; `AskInv`, which ties a question to a credential that exists; and `PromiseInv`: a
  call about to mint does so for a principal that exists, and no id is past its expiry
  before it has a row. `SurfaceKeepsPromise` carries it, and the laws of links that the
  `rotation` run checks, over to `SSpec`.
- `AuditTruthfulHolds`. The invariant is `TrailInv`: the row a call is about to write
  (`pc = "audit"`) is already true, because the write it tells of has committed, and
  what it claims is of a kind that never changes back (`RowStays`, from the `...Life`
  lemmas). For the row about all the bearers of a principal it needs `Revoker`: only
  `revoke_access`, after its flip, gets to write one.
- `AuditedBeforeSentHolds`. Two more parts of `TrailInv`: a call that is to hand out a
  link has its row in hand or already on the trail (`Hands`), and any other call names
  only invitations that are out (`Carries`).
- `OneShotHolds`. `SpentInv`: an invitation names a principal exactly when it is spent, no
  two name the same one, and that principal exists and has its email. It needs that
  an insert takes an id no invitation names yet and that no step changes the email
  of a principal (`EmailStays`). That the redemption is recorded once follows from
  `TrailInv`: two rows about it agree in every column.
- `SurfaceImplementsAccess` (`SSpec => Spec`). Each step of a route is a step of the
  core or leaves the core alone, so every theorem above holds of `SSpec`.
  `SurfaceTypeCorrect` and `OwnLiveWritesHold` use `BearerInv` through it: the
  principal whose record is written is the token's.
- `OneHolderHolds`. Needs `LinesBorn`: a row that exists has as its line the id
  of a row that exists. Without it a fresh mint could start a line that another row is
  already on. A rotation keeps the line and takes its predecessor out of it.

- `SweepReachesAllHolds`. `SweepInv`: the rows noted at a flip exist, belong to the
  principal and carry its email for good (`DueKnown`); between the snapshot of a sweep
  and its write, whatever of them is still live was in the snapshot; past the write all
  of them are dead (`Sweeping`); and so they are once the verb has returned (`Swept`). It
  is inductive because no row is born live twice and a dead one stays dead
  (`TokenLife`, `InviteLife`, `InviteMail`).
- `DeadOnArrivalHolds`. `DoomInv` says where a call that had no chance can stand: a
  redemption before its only UPDATE, with the invitation still dead; a bearer call
  before its first SELECT with a dead link, or before its second with a revoked
  principal; a signup before it looks at the switch, or on its way out. Each of these
  reasons is kept by every step of every other call (`DeadStays`), except that the
  switch may open: then the signup is no longer doomed (`OpenSteps`). `InvitesKnown`
  says that a call names only invitations that exist.
- `ViewCurrentHolds`. `ViewInv`: from its UPDATE to its second SELECT a route's patch is
  what the record holds, unless somebody wrote over it (`Lasts`); what the SELECT then
  shows follows (`Shows`). It uses `DeskInv`: a route that is under way keeps its call.
- `LifecycleImplementsAccess` (`LSpec => Spec`). Each step of sapiens and the bus leaves
  the core alone, each of the handler is a stutter of the core or the `revoke_access` of
  its slot. `LifecycleInv` holds the types and `Quiet`: until its flip the handler has
  no call open in its slot, so what it starts there is a core step. With it every
  theorem about the core holds beneath the subscription.
- `RevocationAuditedOnceHolds`, `RevokedRowMeansSweptHolds`. `RevokeInv`: a handler that
  is to revoke holds a principal linked to its person, and links stay (`Holder`);
  one that sweeps has flipped that principal alone, its call is open or has settled,
  and there is no row about it yet (`SweepSound`); a row is the only one of its
  principal, which is linked to the row's person, revoked and settled (`RowSound`).
  Only one call ever flips a principal, whatever is redelivered. What is settled is
  swept by `SweepInv`.
- `RevokedOnlyIfGoneHolds`. `GoneInv`: envelopes of departure, on the bus or in work,
  speak of people who have left, and they do not come back. Then nobody becomes revoked
  but by the handler's flip, of the principal linked to its envelope's person.
- `LifecycleTypeCorrect`. The bound on the trail is what needs proof. `CountInv`: the
  copies of a person's `created` envelope, on the bus and in the slots, and the rows of
  one kind already written about it are together at most one and the redeliveries and
  stops so far. A row of a revocation is bounded by `RowSound`.
- `AttemptsTyped`, `LocksKept`. `BookInv`: besides types, a call between its
  check and its outcome knows the keys it will touch, and an entry's lock is the one
  that its last failure set, with a reading in the past. The lock of one failure more is
  no shorter, because the curve grows up to its cap (`LockLasts`, over the seventeen
  values of the exponent), and its reading is at most `MaxDelay` old (`ReadingsRecent`).
- `GuessesBudgeted`. `GuessInv`: the guesses of an identity and the calls past its check
  are together within the budget of the present (`Afloat`), and its guesses are within
  the budget of the latest its last failure can have been registered (`Used`), which is
  at least one shortest lock, less the delay, before any check that lets a call through.
  The sum is needed: the guesses alone could be at the budget while calls past the check
  are still to fail. What redeem registers in between only moves the lock.

- *The laws of the tables.* `PortalRecords` writes each entity's columns out layer by layer,
  as the code does. `ColumnLists` says what the lists of the four entities have in common
  (`ListsAgree`: the bodies, arms and protected columns are columns; a response names all
  of them and a PUT body no secret one; a PUT assigns what its body has, and a PATCH has
  an arm for it, `updated_by` excepted; a POST takes every column but the status);
  `StatusProtected` that the status is protected wherever there is one; `RulesAreChecks`
  that row rules and CHECKs are the same; `BirthIsStatus` that a new row has a status of
  its kind. They are proved entity by entity, list against list, and everything below
  rests on them and no longer on a list.
- `OfficeTyped`, `ChecksNeverTrip`, `GenericNeverAdmits`. The types alone are not inductive:
  what a verb may store, and what a PUT may, depends on the rest of the row. `OfficeInv`
  adds that a stored row has in each column a value of its kind and fits its table (`RowOk`),
  that a form is such a row with its nonce masked, that somebody inserted the row, that a
  principal inserted by a POST is invited or revoked, and that nothing has tripped. With
  it `SaveOutcome` says why a validated write fits: the rules look at the columns that
  change, and the others are as they were in a row that fitted. The self-service patch
  and the mint count bytes, which are no fewer than characters (`TextIsText`), under
  limits no larger than the table's (`LimitsAreNumbers`). `OverwriteOutcome` covers
  both things `backbone_core` may do with a protected column.
- `StatusMovesByVerb`. Proved with the same step lemmas: generic routes leave the status
  (`RewrittenStep`), a verb leaves it or takes an edge its guard has looked at (`VerbStep`,
  `MarkStep`, `MoveStep`).
- `LinksSpeakForTheirGrant`. What is accepted was compared with the stored row; that it has
  not outlived its second needs that the stored expiry still is a time, which is
  `OfficeInv`'s, and that halving keeps the order.
- `RoutesAgreeAlways`. A form put back, one edited column through either route and a POST
  of a row's columns are computed from the laws above (`PutBack`, `RoutesMeet`,
  `PostMeets`). They hold for every value, of any length, not only for those the run
  enumerates.
- `CredentialBinds`, `RecipientsBind`. What verifies is a spelling of a minted credential,
  for values of any length: the length of a minted value gives its email back from
  between the parts (`MintedParts`), every spelling of a minted value verifies
  (`RespelledVerifies`), and what verifies reads, part by part, as what is minted from
  what was read out of it (`VerifiedWasMinted`). That a part is a triple is all that is
  assumed of it.

*Model-checked only.* `GoneIsRevoked` (liveness under fairness is beyond this prover) and
the six violations. Every other property of a passing run is proved.

## Findings

Six places where the code does something other than what the repository says of it.
Each has a run in which TLC shows it.

- *A revocation that stopped is not completed* (`left_to_sweep`). The flip, the
  bearers and the invitations are three commits. If the call stops after the first,
  or a login or rotation that passed its checks mints behind the sweep, active rows
  remain, and a retry returns `Ok(false)` without looking. The comment in
  `access_service.rs:309` says the sweeps would find nothing. No access follows,
  since verification reads the principal's status.
- *A revoked person cannot be invited back* (`reaccess`). The schema says that
  re-access is a new invitation; its redemption meets the unique-on-live email
  index, on which the revoked row still counts, and rolls back.
- *A replay is audited* (`replay`). SPEC.md says replays audit nothing new; a
  replayed `created` finds the link set, matches no row, and is audited as a person
  without a principal.
- *A performed edge may not be audited* (`performed_edge`). The handler audits after
  the flip; stopped in between, its replay finds the principal revoked and takes
  that for an audited revocation.
- *Redemption is not throttled* (`redeem_unthrottled`). `token_service.rs:28` says that
  every verification endpoint is throttled per identity and per address. `redeem_invite`
  registers its refusals on both keys and checks neither: its own attempts are bounded by
  nothing, while they lock the login of the address they name.
- *A signup goes on as a revoked principal* (`signup_revoked`). A signup whose insert meets
  the unique-on-live index takes whoever holds the email, whatever its status: revoked
  between the search and the insert, it is audited as created and given a bearer row,
  where a login would be refused. No access follows, since verification reads the
  principal's status. The same lines audit `signup_created` for a principal that an
  invitation made meanwhile.

### Noticed

Places where a text and the code differ, or two parts of the code do, that need no
run to see:

- `portal_surface.rs:203` says the history shows mints and rotations; `record_audit`
  makes the token the subject of those rows, and the SELECT asks for the principal's.
- A signup that could not read the policy is refused and audited as
  `signup_refused_policy_closed`, though the portal may be open; failing closed is
  documented in `policy_service.rs`, the wording of the row is not.
- `check` announces `num_seconds()`, which drops the fraction of the last second: who waits
  as long as told may be refused once more.
- A recipient credential verifies in spellings that nobody minted (capitals, a sign,
  leading zeros), because the MAC is computed over what was read. The code promises
  that a value says who, for which address and until when, not that it is the only text.
- A login failure registered with an overtaken reading cuts a lock at the cap by the delay.
- The schema has `revoked_at` stamped and never cleared; the verbs do so, but a generic
  PUT or PATCH may write it like any column.
- The schema has a principal go from `invited` to `active` at the first login, and to
  `archived`; no code takes those edges. A row of a generic POST stays `invited`.
- `all_crud_routes` is documented as all endpoints and mounts the reads.
- `updated_by` of a policy is in the bodies of its PUT and PATCH, but has no patch arm: a
  PATCH of it answers success and changes nothing.
- Signup asks of an email only that it has an @; one over 320 characters is refused by the
  table's CHECK, as a database error (`Admit`, `said = "failed"`).
- The self-service patch counts bytes where the schema speaks of characters; it is the
  stricter of the two, which `ChecksHold` needs.
- `bearer_principal` answers 401 to every error of the verification, a database error
  included.
- `mint_invite` without a configured secret inserts and audits the invitation before
  it fails.
- A revocation reason over 120 characters trips the table's CHECK, and the revocation
  fails with it (`said = "failed"`).

## Not modelled

- `credential_port::install`: done once when the host is composed.
- The HMAC and the hex encoding of a link: taken as injective. Which other spellings of a
  part there are: one stands for all.
- The rest of the generated CRUD, which belongs to `backbone_core`: bulk and upsert
  routes, lists, filters, pages, error bodies. The page arithmetic of the repository
  traits (an offset multiplied in `u32`) is used by no route or verb here. The Rust module mounts
  only the GET routes (`lib.rs`); the write routes are exported for a host to mount, and
  `PortalOffice` is such a host.
- Generic writes in the presence of many rows and calls: `PortalOffice` has one
  row and one writer at a time, the core has `SoftDelete` and `Restore` only. The
  unique-on-live index, foreign keys and the metadata triggers do not bind one row.
- Subjects, details and times of audit rows, and with them the answer of
  `my_access_history`: its filter, order and `LIMIT` read nothing else, and it changes
  nothing.
- Builders of the entities: no route and no verb uses one.
- Lifecycle payloads that do not parse: refused before any state is touched.
- Seeders, exports, OpenAPI, configuration, module wiring: generated or compose-time
  code without state of its own.
- A second officer setting the policy at the same time: the singleton index makes
  the later one fail without effect, a stutter here.

## Plan

Done: the core, its promise, the subscription, the throttle, a principal's own
surface, the generic routes over all four entities, the recipient credential; proofs of
every safety and action property that the runs check, and of the three refinements. Left:

1. The archive and its interplay with a departure: a principal archived while its
   departure is handled and restored later; an invitation redeemed after its person's
   `created` envelope was handled. Both leave a departed person active, which no
   document here rules out; a property of them needs a promise of the host.
2. `PortalOffice` with a second row, so that the generic routes meet the unique-on-live
   index, which only the core's `Restore` does now.

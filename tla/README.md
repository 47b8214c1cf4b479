# A specification of the identity service

The repository is a Go template for a single-tenant web service: accounts,
password logins, sessions, roles made of permissions, invitations, API keys, an
audit log and a rate limiter, over one Postgres database. This directory models
the parts of it that keep state and can go wrong in an order nobody wrote a test
for, checks its properties with TLC and proves all of them but liveness with TLAPS.

Paths are relative to `src/`. `PROJECT.json` maps every definition to the lines
it models and lists runs, findings, hazards and theorems in a form a tool can
read; this file says the same for a reader.

## The system

Several replicas of one binary (`cmd/server`) serve HTTP from one database. A
replica keeps no state of its own but the limiter's map; everything else is rows.
The operator has a CLI in the same binary that talks to the database directly.

| Component | State | Operations | Correct when |
| --- | --- | --- | --- |
| Users, roles, assignments (`identity/service.go`, `roles_service.go`, `roles_repository.go`) | `users`, `roles`, `role_permissions`, `user_roles` | CreateRole, UpdateRole, DeleteRole, SetUserRoles, SetUserActive, Register; from the CLI SetSuperuser, GrantRoleByKey | nobody comes to hold what no caller had to give; shipped roles never change; a held role exists; an admin remains; the audit row is true |
| Passwords, sessions, reset links (`service.go`, `password_reset.go`, `repository.go`) | `users.password_hash`, `sessions`, `password_resets` | Login, Logout, RevokeSession, ChangePassword, RequestPasswordReset, ResetPassword, deactivation, cleanup | what was open before a change of password is dead after it; a link works once, and only the newest; rows do not pile up |
| Invitations (`service.go`, `repository.go`) | `invitations` | Invite, AcceptInvitation, RevokeInvitation; DeleteRole's cascade | one open invitation per email; a withdrawn link creates no account; offers are for roles that exist |
| Rate limiter (`server/ratelimit.go`) | a map of buckets per replica | allow, reap | it is a fixed-window counter; the map does not grow for ever |
| Permission catalog (`permissions.go`) | `permissions` | SyncPermissions at start-up | what a replica lets pass is in the table; replicas that start together do not stop each other |
| Email verification (`email_verification.go`) | `email_verifications`, `users.email_verified_at` | send, resend, verify | as a reset link; who came by an invitation needs none |
| API keys (`apikeys_*.go`) | `api_keys`, `api_key_permissions` | create, revoke, authenticate | a key never does more than its maker could, and writes nothing beyond its frozen scope |
| Audit log (`audit/audit.go`) | `audit_log` (append-only trigger) | Record, List, Purge | as many rows as changes, whatever fails; paging misses nothing; rows go only by retention |
| HTTP pipeline (`server/server.go`, `middleware.go`, `handlers*.go`) | the request's context | requireAuth, requireAccess, requirePermission, rateLimit, handlers, Shutdown | a handler is reached only with the authority its route names |
| The server's life (`cmd/server/main.go`, `server/server.go`) | run's position, the listener, the pool | start, listen, drain, close | it stops when told, and answers what it has accepted |
| Reaper and CLI (`cmd/server/main.go`) | a ticker | hourly cleanup; migrate, purge, grant-* | dead rows go |
| Database access (`database/postgres.go`, `migrations/`) | a pool | InTx | a transaction is all or nothing |
| Settings, logger, mail, hashing, tokens, headers | none | | |

They interact through rows, and that is where the difficulty is:

- `database.InTx` begins a transaction at Postgres' default isolation, READ
  COMMITTED, and no query of the program says FOR UPDATE. Every SELECT sees what
  is committed when it starts; a check and the write it protects are never one
  step unless they are one statement, or a unique index or a foreign key stands
  behind them.
- The middleware resolves the caller's authority once. Handlers check against
  that copy for the rest of the request.
- Login is three transactions; mail is sent after a commit; the limiter reads the
  clock before it takes its lock.

The hazards these make are listed in `PROJECT.json` at their lines, each with the
properties that would catch it or the reason none does yet.

## Modules

| Module | What it is |
| --- | --- |
| `Rbac` | users, roles, assignments; the middleware; the CLI |
| `AtomicRbac` | the abstract role editor: each operation one step, judged by the caller's authority at that moment, rank included |
| `RbacKeys` | extends `Rbac` with API keys as credentials of the same handlers |
| `Credentials` | passwords, sessions, reset links, the reaper |
| `RateLimit`, `FixedWindow` | the limiter, and the counter it promises to be |
| `Invitations` | invitations and the accounts they create |
| `Accounts` | extends `Invitations` with the verification of addresses |
| `AuditLog` | the log: transactions that write it, refusals, paging, purging |
| `Replicas` | processes of several builds: start-up with `SyncPermissions`, serving, draining, exit |
| `RbacProofs`, `RbacKeysProofs`, `CredentialsProofs`, `RateLimitProofs`, `AccountsProofs`, `AuditLogProofs`, `ReplicasProofs` | theorems about the module each is named after; `AccountsProofs` deals with `Invitations` too |
| `RbacSerialProofs` | theorems about `Rbac` with one request at a time, on top of `RbacProofs` |
| `MCRbac`, `MCRbacKeys`, `MCCredentials`, `MCRateLimit`, `MCAccounts`, `MCAuditLog`, `MCReplicas` | instances, initial installations and symmetries for TLC |

Where one module extends another, its next-state relation takes the other's
handlers as they are and adds what the composition changes: `RbacKeys` replaces
the middleware and no handler, `Accounts` wraps registration, acceptance and the
end of a request, and leaves the rest of `Invitations` alone.

Operators whose comment begins with "Bug:" are not part of the specification.
Each is the definition after it with a mistake somebody could make in that code;
a run that holds with the definition and fails with the mistake is one that looks
at the code in question.

### How a request is modelled

In all but `RateLimit` and `Replicas` a request is a slot of `req`: a record
with a program counter, what the handler has read so far, and its result. Once
answered it keeps only what a property asks about it. The
number of slots is the number of requests served at once, over all replicas. One
action is the part of a handler between two points where another transaction's
commit can change what it sees:

- **a SELECT** is a step: it reads the tables as they are and keeps the answer;
- **an UPDATE or DELETE** is a step that remembers which rows it saw (`seen`,
  `rows`); what it does to them becomes visible with the commit. A row that
  changed in the meantime has its WHERE clause asked again, which is why `Kill`
  and `Withdrawn` look at the state of a row once more, and a row inserted since
  is not touched, which is where several of the findings come from;
- **the last write and the commit** are one step, with the checks of the unique
  indexes and foreign keys, and the audit row;
- statements on a row that another transaction holds wait. `RowLocked` in
  `Credentials` is the lock on a `users` row. In `SetUserRolesAssign` the DELETE
  of rows that another is deleting waits for its commit and then finds them gone.

`Finish` frees a slot in any state: the client was answered, the process died, a
query failed, the deadline passed or Postgres chose the transaction as the victim
of a deadlock. Before the commit, nothing of the transaction is in the tables, so
freeing the slot is the rollback. Crashes need no more than this, as the database
is the only memory the handlers have.

The fields of a request called `known` and `knownLinks`, and the variables `conferred`, `epoch`,
`verdict`, `applied`, `due`, the `grants` of `RateLimit`, with `uses` of a link and
`via` of an account, are history: nothing in an action's guard depends on them except
the bound `MaxRotations`.

### Rbac

`Authenticate` and `Authorize` are `requireAuth` and `requireAccess`: two reads,
the second from the `users` row the first has read. `Forbid` is
`requirePermission` saying no. The handlers then start from the slot's `access`
alone. `CreateRole` reads nothing it depends on and is one step. `UpdateRole` and
`DeleteRole` are a read and a write. `SetUserRoles` is five statements:
`...Resolve` (GetRolesByIDs and checkEscalation), `...Load` (the target's roles
and the question of rank), `...Count` (the last-admin guard), `...Clear` (the
DELETE) and `...Assign` (the INSERTs and the commit). `SetUserActive` is three.

`conferred` is what the callers were given from outside: what they hold at the
start and whatever the CLI gives to one of them. Nothing the API does enlarges it.

Left out: names and keys of roles beyond their collisions, validation of text,
the paging reads, the dead letters of the audit log's metadata that no property
compares.

### Credentials

A stored hash is the password it verifies, with a flag for `NeedsRehash`. A token
is the row it digests to, so requests present rows. `LoginVerify`, `LoginRehash`,
`LoginOpen` are the three parts of a login. `ChangePassword`, `ResetPassword` and
`Deactivate` lead to `Rotate` (their statements) and `RotateCommit`. Expiry is an
action on a row; the retention before the reaper deletes it (30 days) is not
counted, so the reaper may delete earlier than it would, which leaves the safety
properties stronger. `ResetPassword` picks the user from the link, as
`ConsumePasswordReset` does. Accounts without a password (`password_hash` NULL)
are left out: they can neither log in nor ask for a reset. Email addresses that
no account has are answered alike and change nothing, so they are left out too.

### RateLimit

Times are relative to the present. `Stamp` and `ReaperStamp` are the calls of
`time.Now`; `Allow` and `Reap` are the critical sections. A request carries the
list of keys it must pass, in order, and is dropped at the first that refuses.
`MaxStall` bounds how long a goroutine is held up between the stamp and the lock;
Go promises no bound, so the run names the one it assumes, and the theorems say which
of the properties need one. One replica is
modelled: replicas share nothing (`settings.go:53-58` says so). A limiter that is
switched off is a `nil` and has no state.

`grants` is history: the attempts of each key that got through during the last
window, each as its age, which attempt of its bucket it was (`nth`), how many
buckets have been opened for the key since (`newer`), and whether it opened its bucket
with a stamp that was no longer of the moment (`late`). Counting them is what
`AtMostTwice` and `AtMostThrice` do; where they came from is what the proof needs.

### Invitations and Accounts

An invitation is its link. `Invite` is three steps (checks, the withdrawal of the
older one, the insertion with the commit and the mail), accepting is two.
`Grantable` abstracts the inviter's authority, which `Rbac` deals with in full.
`Reassign` is what the rest of the API may do to an account meanwhile.

`Accounts` adds `verified` (`email_verified_at`), the rows of `email_verifications`
and, per request, where `SendVerificationEmail` stands. It is called after
Register's commit and by `ResendVerification`, for the user as it was read then;
it withdraws the links it can see (`SeeLinks`) and stores its own (`StoreLink`);
if it fails (`SendFails`) nobody is told. `VerifyEmail` writes the first row it
looks at, so it is one step. `AcceptVerified` is acceptance with the
`MarkEmailVerified` at the end of its transaction. Link ids are used again once
the reaper (`Cleanup`) has deleted the row, so a behaviour sends any number.

### RbacKeys

What a key changes is the middleware. `AuthenticateAPIKey` is the query with its
three conditions (not revoked, not expired, the owner active); `AuthorizeKey` puts
the scope frozen at creation into the request instead of the owner's authority,
with no roles and without `viaSuperuser`, and the owner's `users` row beside it.
The handlers then ask the scope, but for two that ask the row: `CreateAPIKey` for
the new key's owner, and `SetUserActive` for its exemption. The permissions of a
key are inserted with it and never updated, so reading them is no step of its own.
`via` remembers the key until the request is answered (`Release`); only
`KeysConfined` compares it. Listing keys, `last_used_at` and the routes only a
session may use (`sessionOnly`) are left out of this module: the last are those of
`Credentials`.

### AuditLog

The position in `log` is the id, a uuidv7 drawn at the INSERT; `created` is
`now()`, the start of the transaction; an entry becomes visible with the commit.
An aborted transaction leaves its id used up. `Commit` may be followed by an error
to the caller: nobody's answer is part of the state, so nothing depends on it.
`Refuse` and `RecordRefusal` are the denials, written on the pool after the
rollback, and the failed logins, written under the request's own context and so
not once the client is gone. A `Scroll` is a client of `GET /audit-log` that goes
on with the cursor it was given until a page is not full (`Rest` is the WHERE clause,
`Page` the ORDER BY and LIMIT). `Purge` takes any instant
up to the present for its `now()`: the transaction may have begun earlier.

### Replicas

A replica is where `run` stands. `SyncKey` is one upsert of `SyncPermissions`: it
waits for whoever has locked the row, and `synced` is what the open transaction has
locked. Catalogs are sequences, because the order of the loop is the order of the
locks. `SyncDeadlocked` is Postgres ending one of a cycle of waiters.
`Shutdown` closes the listener, `Drained` and `Deadline` end it, and `Close` is
`pool.Close`, which waits for the connection a handler holds. One kind of request
is served, the saving of a custom role by a superuser: the one in which both
catalogs and a connection take part. What it is refused for here is the catalog;
the rest is `Rbac`'s.

## What the runs show

Every passing run explores its instance completely. Symmetry is used only in runs
without a liveness property, over ids nothing in the specification orders.

| Run | Shows | Instance |
| --- | --- | --- |
| `rbac_concurrent` | `NoEscalation`, `HeldRolesExist`, `SystemRolesIntact` under any interleaving | two requests of one caller with a middling role beside an admin who is not a caller; both roles of the migration, a custom one and one to be created; two permissions, one beyond the caller's reach |
| `rbac_serial` | `AdminRemains`, `DemotionByAdmin`, `AuditTellsChange`, `AtomicButForRank` | one request at a time by an admin, a superuser and somebody who registers and is given the roles of a member; the new role's key collides |
| `rbac_keys` | `KeysTypeOK`, `NoKeyEscalation`, `KeysConfined` beside the CLI and registrations | one request, by session or by one of two keys, that may straddle any number of grants and revocations; its caller has yet to register, may be given the admin role or made a superuser, and loses both again; two permissions, one the custom role lacks |
| `credentials_concurrent` | `TypeOK`, `OldSessionsDie`, `OldLinksDie`, `LinkUsedOnce` | two requests, one session, two links, two rotations, one password: none of the four compares passwords, and which password wins is the question of the serial run |
| `credentials_serial` | `NoStaleSession`, `OneLiveLink`, `LoginKeepsPassword`, and `RowsPruned` (liveness) under `FairSpec` | one request, two sessions, two links, two passwords, one rotation |
| `ratelimit` | `TypeOK`, `AtMostTwice`, `AtMostThrice`, `ImplementsFixedWindow`, and `Forgotten` (liveness) under `FairSpec` | two requests, each about an address and then an email, limit 2, window 2, requests and reaper held up for 1 at most |
| `accounts` | `AccountsTypeOK`, `OldLinksDie`, `AcceptedIsSpent`, `OffersLiveRoles`, `NewestLinkWorks`, `AsManyLinksAsRequests`, `InvitedNeedNoLink` | two requests about one address, two invitations, two roles of which one may be offered, three verification links in use at a time |
| `audit_log` | `TypeOK`, `ChangesMatchEntries`, `ScrollsComplete`, `AppendOnly` | two requests, one reader who leaves the failed logins out, three entries, pages of one, three instants, a retention of one or none |
| `replicas` | `TypeOK`, `ServedPermissionsExist`, `DeadlockTakesTwoOrders`, and under `FairSpec` the liveness of `StartsOrEnds`, `SignalStops`, `AcceptedIsAnswered` | two replicas, an old build and a new one that lists two permissions the other way round and has dropped a third |

Why these are enough to be interesting: every race in these handlers is between
two transactions on one user, role, link or address, and two slots of each kind
let the two overlap at every step. A further user, role or permission is there where
somebody must be outside the race (a permission nobody in it holds, a session that
is the other one). Slots are freed and used again without limit, so sequences of
requests are of any length; what ends a behaviour is only the supply of fresh ids
(`SessionIds`, `LinkIds` of `Credentials`, `InvitationIds`, `RoleIds`, `KeyIds`),
`MaxRotations`, and in `AuditLog` `MaxEntries` and `MaxClock`. Two entries of two
overlapping transactions are what it takes for the orders of ids, of times and of
commits to differ, and the third entry arrives while the reader is between them;
pages of one are the smallest a cursor has to carry on from. `Replicas` is not
bounded: its replicas start, crash and are upgraded for ever.

The properties worth a second look:

- **`NoEscalation`** is not "checkEscalation is called". The snapshot may be out of
  date, the role may be edited between the check and the INSERT, the caller may
  have been demoted long ago. What holds is the bound on the callers together:
  whoever raised the role in the meantime passed the same guard.
- **`NoKeyEscalation`** is the same bound with keys that keep a scope their owner
  has lost, and may mint further keys and roles from it. No chain of them gets past
  what was conferred. That a key outlives its owner's authority is not a violation:
  the code says the scope is frozen.
- **`KeysConfined`** is what "frozen at creation" comes to once the owner has been
  promoted, demoted or made a superuser while the key's request is under way: what the
  request leaves behind in the tables is within the key's scope. It compares the tables
  on both sides of a commit with the key's row, and not what the request remembers. Of
  the old permissions of a role it edits, deletes or hands out it speaks only where
  nothing runs beside it: another request may raise the role between the guard and the
  write, and then only `NoKeyEscalation` bounds what is there.
- **`AtomicButForRank`** says that one at a time, the staged handlers are the
  atomic operations of `AtomicRbac`, whose guards look at the state at the commit, but
  for one: `Activate` asks for the rank that `README.md:158-163` asks for, and
  the code does not. That exception is `UnrankedSwitch`, and `rbac_deactivation`
  shows that it is taken. That two requests at a time are not atomic is what
  the other findings show.
- **`AcceptedIsSpent`** is about the step that makes an account, whatever the
  acceptance had found before: the invitation is claimed there, for that address, the
  first time, and no request that withdrew it has been answered.
- **`OldSessionsDie`** holds at any interleaving because it speaks of the sessions
  that were live when the request arrived; **`NoStaleSession`**, which speaks of
  every session, does not. **`NewestLinkWorks`** and **`AsManyLinksAsRequests`**
  draw the same line for verification links: links of requests that overlap
  survive each other, and only those.
- **`AtMostTwice`** and **`AtMostThrice`** are the comment's "up to 2x" measured
  over every interval as long as a window, not window by window. Twice holds where the
  buckets the attempts come from were opened on time; where one was opened by a
  goroutine held up before the lock it may be three times.
- **`ImplementsFixedWindow`** takes in the reaper, however late its stamp, and every
  decision made on time, also of buckets that others opened late. `FixedWindow` counts
  each key for itself, so the order in which a request's keys are asked is modelled but
  not judged: nothing in the code says which of them a refused attempt ought to use up.
- **`ChangesMatchEntries`** counts both sides of the transaction. It holds through
  commits whose acknowledgement is lost, because it compares tables and not answers.
- **`ScrollsComplete`** promises what was visible when the scroll began. An entry
  committed later may carry an id the cursor has already passed, and is then missed
  by this scroll; see below.
- **`DeadlockTakesTwoOrders`** is why the catalog is a slice and not a map: a
  rolling upgrade that reorders it may lose a replica to a deadlock, a restart of
  one build may not.

### Findings

Each is a run whose single property is a sentence of the repository.

| Run | What the code does |
| --- | --- |
| `rbac_last_admin_race` | Two demotions of two admins both count two. `CountUsersWithRole`'s comment (`roles_repository.go:295-299`) expects the transaction to prevent it; at READ COMMITTED it does not. |
| `rbac_deactivation` | A member whose custom role holds `users.update` deactivates an admin, with one request and nothing beside it. `README.md:158-163` says that a member may not and that the service checks it; `SetUserRoles` does (`roles_service.go:230`), `SetUserActive` asks only how many admins are active (`service.go:375`). |
| `credentials_stale_session` | A login that verified the old password opens its session after the rotation that revoked all. |

The same models show more, for which no run is kept. Of roles:

- Demoting counts deactivated admins and deactivating does not, so the last admin
  who can log in can be demoted, one request at a time (`ActiveAdmins = {}` is
  reachable from two admins, against `models.go:48-51`).
- A superuser who demotes the last admin is refused, while `service.go:372-374`
  speaks of an identical exemption in `SetUserRoles`. Deactivation has the
  exemption, and a superuser's key of narrow scope has it too: the flag comes from
  the owner's row.
- Two PUTs of one user's roles at once both succeed and the user holds both sets
  (`handlers_roles.go:123` calls the body the complete new set): `AuditTellsChange`
  in an instance with two requests.

Of passwords, links and invitations:

- A login that upgrades a weak hash writes the old password back over one changed in
  the meantime (`service.go:161-166`): `LoginKeepsPassword` in an instance with two
  requests.
- Two reset requests at once leave two live links (`password_reset.go:71-73`):
  `OneLiveLink` in an instance with two requests. Two resends of a verification do
  the same, and a resend that read the user before a verification committed leaves a
  live link for a verified address; using it sets `email_verified_at` anew.
- Registering an address that has been invited makes the invitation impossible to
  accept: the result is `email_taken` for as long as it stays open.
- Two invitations of one email at once: the loser is told that the email has an
  account (`errors.go:25-26`), which it has not; the result `email_taken` of
  `Issue` on a conflict.

Of the limiter, the log and the processes:

- With a goroutine held up before the limiter's lock, more than twice the limit
  passes within one window (`ratelimit.go:38-39`): `AtMostTwice` in the instance of
  `ratelimit` without its condition on late openings.
- Ids of the log are drawn at the INSERT, so the order a reader sees
  (`audit.go:288-291`) is neither that of `created_at` nor that of the commits, and
  a scroll misses an entry whose transaction was open when the cursor passed its id.
- A commit that has failed for the caller may have lasted (`postgres.go:84`): the
  caller hears of an error, and both the change and its entry are there.
- A failed login of a client that hangs up leaves no entry (`service.go:214` writes
  under the request's context, where `auditDenial` does not).
- A role that grants a permission a build does not know cannot be edited through
  that build, not even by a superuser, whose access is that build's catalog.
- Past the shutdown deadline `pool.Close` still waits for connections in use, so
  "not forever" (`main.go:248`) rests on every query ending by itself. If the
  listener fails, `run` returns without a `Shutdown`.

`DemotionByAdmin`, `AuditTellsChange`, `AdminRemains`, `NoStaleSession`,
`OneLiveLink` and `LoginKeepsPassword` are checked with one request at a time
because they fail with two, for one reason: what was read is not what is written
over. With one they say that the guards reach the commit and that sequences of
requests compose; they say nothing of the races, and no hazard that is a race lists them
as what covers it unless a finding's run shows it. What holds at any
interleaving is stated on its own: `NoEscalation`, `HeldRolesExist`,
`SystemRolesIntact`, `OldSessionsDie`, `OldLinksDie`, `LinkUsedOnce`.

### Fairness

Safety runs assume none. `Credentials!FairSpec` assumes that a session or a link
runs out its lifetime, which `settings.go:233-244` requires to be positive, and
that the reaper's hourly ticker keeps firing (`main.go:301-337`; a failed cleanup
is tried again on the next tick). `RateLimit!FairSpec` assumes that time passes,
that the limiter's ticker fires while the server is up, and that the runtime
schedules every goroutine that can run and gives it the mutex. All of these are
weak fairness of single actions. No request is assumed to arrive, and no client to
come back.

`Replicas!FairSpec` assumes weak fairness of each replica's own steps and of its
handler's (a process that is up runs, and its statements end), and strong fairness
of `SyncKey`: a row that is locked and released over and over by replicas that
start and crash still comes to the one that waits, since Postgres queues the waiters
of a row. Nothing makes a replica start, a signal come, a request arrive or the
shutdown deadline strike; `SignalStops` holds without the deadline.

## Proofs

Every invariant, action property and refinement that a passing run checks is also a
theorem, for any values of the constants: any number of users, roles, links, keys of
the limiter, entries, replicas and requests at once. The runs show the same on their
instances, and in addition that the models reach what the theorems are about. What a
theorem assumes beyond its module's own assumptions is part of its statement:

| Hypothesis | Meaning | Where |
| --- | --- | --- |
| `Serial` | requests are served one at a time | the properties that the findings show to fail with two |
| `CliUsers = {}` | the operator's CLI is not used between the statements of a request | `OnlyAdminsDemote`, `AuditTellsTheChange`, `SerialRbacIsAtomicButForRank`: the CLI is a second writer, and breaks them as a second request does |
| `Staffed` | the installation starts with an admin | `AnAdminRemains` |
| `IsFiniteSet(Users)` | the number of admins is a number | the theorems of `RbacSerialProofs` |
| `2 * MaxStall <= Window` | goroutines are held up for half a window at most | `StalledLimiterLetsThrice`; with a window and stalls of 2 TLC finds it violated |

The assumptions of the modules (`RbacAssumption`, `RbacKeysAssumption`,
`CredentialsAssumption`, `InvitationsAssumption`, `AccountsAssumption`,
`RateLimitAssumption`, `AuditLogAssumption`, `FiltersAssumption`,
`ReplicasAssumption`) say what the migration and the settings establish, that a
placeholder is no member of the set it is added to, and, in `AccountsAssumption`,
that there are finitely many requests. TLC evaluates each of them in the runs.

### Rbac

| Theorem | Statement |
| --- | --- |
| `TypeCorrect` | `Spec => []TypeOK` |
| `EscalationImpossible` | `Spec => []NoEscalation` |
| `HeldRolesAlwaysExist` | `Spec => []HeldRolesExist` |
| `SystemRolesStayIntact` | `Spec => []SystemRolesIntact` |

`TypeOK` contains `Shape`, what a request in flight has been given by the steps
before, which makes it inductive on its own. The runs check it inside `KeysTypeOK`.

`NoEscalation` is not inductive: a request about to assign roles could name any.
`Ceiling` strengthens it to everything that may still be handed out. The snapshot
of each request, the permission set on its way into a role, and the permissions of
each role about to be assigned are all within `conferred`; and so are the roles of
each caller. The step that needs thought is `UpdateRoleWrite`: it changes what a
role grants under every request that has already checked the role, and is harmless
because the new permissions are within `conferred` too. `CeilingStep` states what a
step has to leave in place for the requests it does not touch; each handler then
has a lemma with a step per action.

`HeldRolesExist` is inductive with `TypeOK`: a deletion asks who holds the role in
the step that commits, and an assignment asks whether the roles are live in the
step that commits, which is what the foreign key does for the code.
`SystemRolesIntact` follows from `Shape`: a request that is updating or deleting
names a role that is not a system role, `is_system` never changes, and ids are not
drawn twice.

### Rbac, one request at a time

| Theorem | Assuming | Statement |
| --- | --- | --- |
| `AnAdminRemains` | `Serial`, `Staffed` | `Spec => []AdminRemains` |
| `OnlyAdminsDemote` | `Serial`, `CliUsers = {}` | `Spec => DemotionByAdmin` |
| `AuditTellsTheChange` | `Serial`, `CliUsers = {}` | `Spec => AuditTellsChange` |
| `SerialRbacIsAtomicButForRank` | `Serial`, `CliUsers = {}` | `Spec => AtomicButForRank` |

`AdminRemains` needs only `LeavesAdmin`: an assignment past the count that leaves the
admin role out has left somebody else who holds it. Nothing the CLI does takes a
role away, so it may come between any two statements.

The other three rest on `Fits`, which says that what a request has read is still so.
Its parts go with the handlers: `Current` (the snapshot of the caller's authority is
what the tables say), `Editable` (the role to be edited is there and grants what it
did), `Assignable` (the roles to be given, the target's roles and the rows about to be
deleted), `Deactivatable` (somebody else is an active admin). With them the guards of
`AtomicRbac`, which are evaluated at the commit, follow from what the handler asked
one to four statements before; each of the last steps is a step of `AtomicRbac`, and
each of the others a stutter. A deactivation is an `Activate` if the caller outranks
the target and an `UnrankedSwitch` if not (`AtomicSwitch`): no guard decides which.

### RbacKeys

| Theorem | Statement |
| --- | --- |
| `KeysTypeCorrect` | `KeysSpec => []KeysTypeOK` |
| `KeysDoNotEscalate` | `KeysSpec => []NoKeyEscalation` |
| `KeysStayConfined` | `KeysSpec => KeysConfined` |

The first two share one inductive invariant, `KeysInv`: `KeysTypeOK`, `Ceiling` as
before, and `KeysBound`, which says that what a key grants is within `conferred` and
that keys, and requests that hold a caller's row, are a caller's. The last part is
needed because a key speaks for its owner: with a superuser's row in hand a request
is bounded only if that superuser is one of those on whom something was conferred.
A step of `Rbac` is a `Next` of `Rbac` (`RbacStepIsNext`), so the lemmas of
`RbacProofs` deal with it; what is left is that `conferred` only grows
(`ConferredGrows`) and the few actions of the middleware and of key management.

`KeysStayConfined` has an invariant of its own, `KeyScope`: from `Authorize` on, a
request that came with a key carries that key's permissions as its authority, and what
it is about to write into a role is among them (`Scoped`); where it is the only request,
so is what the role it edits or deletes grants now, and what the roles it is about to
hand out grant. `ScopesFrozen` says that no step changes the permissions of a key in use, so
the scope that was checked is the one compared at the commit, and nothing that happens
to the owner comes into it. Then `NextConfined` goes through the steps that answer with
success: each writes what the guards let into the slot, and the others write nothing.

### Credentials

| Theorem | Assuming | Statement |
| --- | --- | --- |
| `CredentialsTypeCorrect` | | `Spec => []TypeOK` |
| `OldSessionsAlwaysDie` | | `Spec => []OldSessionsDie` |
| `OldLinksAlwaysDie` | | `Spec => []OldLinksDie` |
| `LinksAreUsedOnce` | | `Spec => []LinkUsedOnce` |
| `NoSessionIsStale` | `Serial` | `Spec => []NoStaleSession` |
| `OnlyOneLinkLives` | `Serial` | `Spec => []OneLiveLink` |
| `LoginsKeepThePassword` | `Serial` | `Spec => LoginKeepsPassword` |

The first four share `CredentialsInv`. What makes it inductive is `Ending`: once the
statements of a rotation have run, whatever of the sessions known at the start they
did not see is already dead, so killing what they saw kills them all; and the lemma
that rows only evolve (`Evolves`: an owner stays, and what is dead stays dead), which
carries `Ending` over every step of another request. `Locked` is the lock on the users
row: two rotations of one user do not commit side by side. `SpentIfUsed` says that a
link that has set a password is spent, so the UPDATE that asks again does not find it.

With one request at a time `SerialInv` adds that what a login has verified is still
the password (`InStep`), that live sessions carry the present epoch (`Fresh`) and that
two live links of one user are the same (`SingleLive`).

### RateLimit

| Theorem | Assuming | Statement |
| --- | --- | --- |
| `LimiterTypeCorrect` | | `Spec => []TypeOK` |
| `LimiterLetsTwice` | | `Spec => []AtMostTwice` |
| `StalledLimiterLetsThrice` | `2 * MaxStall <= Window` | `Spec => []AtMostThrice` |
| `LimiterIsFixedWindow` | | `Spec => ImplementsFixedWindow` |

`Spaced` relates the attempts that got through to the bucket that is there: no two are
the same attempt of the same bucket; those of the bucket before were let through
before the present one was stored, so they are at least as old as the part of the
window that has gone, less one stall; those of the bucket before that are a whole window
older, less two. With two stalls within a window at most three buckets count (`Few`), and
no bucket lets more than the limit through. That a reaper may have deleted the bucket
between two others is why the bound is twice `MaxStall` and not once.

`AtMostTwice` needs no bound on stalls but another invariant, `Dated`, about openings: an
attempt of a bucket that was followed by another is older than the opening of that one, and
a bucket opened on time is followed only when its opening has left the window. So if none
of the recent attempts opened late, none comes from two buckets back (`OnTimeFew`).

For the refinement, a bucket that has expired is the abstract counter with nothing
used, which is why `Reap` is a stutter at any age of its stamp, `Allow` with a stamp of
the moment is the counter's step for the key it asks, and `Tick` is the counter's.

### Invitations and Accounts

| Theorem | Statement |
| --- | --- |
| `AccountsTypeCorrect` | `AccountsSpec => []AccountsTypeOK` |
| `OldInvitationsDie` | `AccountsSpec => []OldLinksDie` |
| `AcceptedAreSpent` | `AccountsSpec => AcceptedIsSpent` |
| `OnlyLiveRolesAreOffered` | `AccountsSpec => []OffersLiveRoles` |
| `OnlyNewestLinksWork` | `AccountsSpec => []NewestLinkWorks` |
| `InvitedAreVerified` | `AccountsSpec => []InvitedNeedNoLink` |
| `LinksAreBounded` | `AccountsSpec => []AsManyLinksAsRequests` |

`InvitationsInv` is the part without links: `Offers` (an open invitation is the only
one for its address, and for a role that exists), `Holders` (an account that came by an
invitation, by a spent one of its own address) and `Asked` (what a request knew to be
open is dead once it has succeeded). `AcceptedAreSpent` follows from them in the step that
claims (`ClaimSpends`): the invitation is open there, and one that is spent or known to
a request that has succeeded is not. `AccountsInv` adds where each sending stands
(`SendOK`) and whose links are (`LinksOwned`): a link belongs to an account that
registered, which is why accepting an invitation never leaves one behind.

`LinksAreBounded` is the one that no statement about single links gives. `Credited`
says that there is a way to credit each live link to a request so that no two links of
an address are credited to one; a request that stores a link withdraws, in the same
step, the one credited to it before, because it has seen it. The live links then inject
into the requests. The credit is not a variable: the invariant says that one exists.

### AuditLog

| Theorem | Statement |
| --- | --- |
| `AuditLogTypeCorrect` | `Spec => []TypeOK` |
| `EveryChangeIsLogged` | `Spec => []ChangesMatchEntries` |
| `ScrollsAreComplete` | `Spec => []ScrollsComplete` |
| `LogIsAppendOnly` | `Spec => AppendOnly` |

`Drawn` says that a transaction's entry is pending and nobody else's, so a commit adds
exactly one to the set whose size `applied` is, and a rollback nothing. `Sound` is the
invariant of a reader: what was there to see when it began and lies on this side of
the cursor has been shown, or was purged, and what has been shown descends to the
cursor. Entries that become visible behind the cursor do not disturb it, as they were
not there when it began. `ScrollsComplete` is stated about where a scroll has come to
and not about what a page must contain, which is what makes it provable for any page
size.

### Replicas

| Theorem | Statement |
| --- | --- |
| `ReplicasTypeCorrect` | `Spec => []TypeOK` |
| `PermissionsServedExist` | `Spec => []ServedPermissionsExist` |
| `DeadlocksTakeTwoOrders` | `Spec => []DeadlockTakesTwoOrders` |

`Synced` says that past `SyncPermissions` the table has all that the build enforces,
since nothing deletes a permission; `InOrder`, that the rows a replica has locked are
a prefix of its catalog. Two replicas that wait for each other then each want a row
that the other has locked before its own: two permissions in opposite orders.

### Only model-checked

The liveness properties (`RowsPruned`, `Forgotten`, `StartsOrEnds`, `SignalStops`,
`AcceptedIsAnswered`): their proofs need ENABLED, which is beyond the proof system.
The three findings are traces, which TLC gives.

## Not modelled, and the plan

Not modelled and not planned: hashing, token generation, mail transport, logging,
headers, CORS, request decoding, settings and the migration runner. They keep no
state the other parts depend on, or are a library's. Of the parts that are modelled,
left out are what formats, pages and validates without deciding anything: listings
other than the audit log's, the health probes, the bytes of names and headers. The
last are where one hazard stays out of reach: a User-Agent cut at its 512th byte
(`audit.go:254`) may end inside a character, which fails the INSERT and with it the
transaction; in `AuditLog` that is one more way for `Fail` to come.

Done so far, in this order: `Rbac` with `AtomicRbac` and its proofs, `Credentials`,
`RateLimit` with `FixedWindow`, `Invitations`, `RbacKeys` with its proofs,
`Accounts`, `AuditLog`, `Replicas`; then the proofs of these five and of the serial
properties and the refinement of `Rbac`.

Next, in the order of what it would add:

1. What a second writer may break and what not, as theorems: which parts of `Fits`
   survive requests about other users and roles, so that `DemotionByAdmin` and
   `AuditTellsChange` hold whenever no two requests are about the same target.
2. An abstract specification of `Credentials` with an atomic rotation, implemented
   with one request at a time.
3. In the models: invitations as a way to hand out what `Ceiling` bounds, so that
   `NoEscalation` covers the accounts they create.

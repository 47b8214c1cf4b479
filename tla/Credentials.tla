----------------------------- MODULE Credentials -----------------------------
(***************************************************************************)
(* Passwords, the sessions opened with them, and the links that reset      *)
(* them: internal/identity/service.go, password_reset.go and the queries   *)
(* of repository.go they run.                                              *)
(*                                                                         *)
(* A request is a slot of `req`.  As in Rbac, transactions are READ        *)
(* COMMITTED: a statement sees what is committed when it starts, and what  *)
(* it writes is seen by others when its transaction commits.               *)
(* ChangePassword, ResetPassword and a deactivation update the users row   *)
(* before they revoke, so its lock serializes them from that statement to  *)
(* the commit; Login locks nothing, and its read, its rehash and its       *)
(* insert are three transactions.                                          *)
(*                                                                         *)
(* Argon2, SHA-256 and the random tokens are abstracted: a stored hash is  *)
(* the password it verifies, with a flag for weak parameters, and a token  *)
(* is the row it digests to.  Time passes by expiring sessions and links.  *)
(***************************************************************************)
EXTENDS Naturals, FiniteSets

CONSTANTS
    Users, Passwords,
    SessionIds, LinkIds,    \* rows that will ever be inserted
    Reqs,                   \* requests served at the same time
    MaxRotations,           \* bound: password changes and deactivations per user
    Nobody, NoSession, NoLink, NoPassword    \* fillers

ASSUME CredentialsAssumption ==
    /\ Nobody \notin Users /\ NoPassword \notin Passwords
    /\ NoSession \notin SessionIds /\ NoLink \notin LinkIds
    /\ MaxRotations \in Nat

VARIABLES
    password,     \* users.password_hash, as the password it verifies
    weak,         \* NeedsRehash: the hash was made under weaker parameters
    active,       \* users.is_active
    sessions,     \* rows of sessions
    links,        \* rows of password_resets
    epoch,        \* history: rotations of the password or deactivations so far
    req

db == <<password, weak, active, sessions, links>>
vars == <<db, epoch, req>>

\* A row that is not revoked, used or expired is live; "revoked" is revoked_at of a
\* session and used_at of a link.  The reaper deletes dead rows.
RowStates == {"unused", "live", "revoked", "expired", "deleted"}

\* `epoch` is history: the user's epoch when the login read the password hash.
SessionRow == [state : RowStates, user : Users \cup {Nobody}, epoch : 0..MaxRotations]
\* `uses` is history: how many passwords were set through the link.
LinkRow == [state : RowStates, user : Users \cup {Nobody}, uses : Nat]

LiveSessions(u) ==
    {s \in SessionIds : sessions[s].state = "live" /\ sessions[s].user = u}
LiveLinks(u) == {k \in LinkIds : links[k].state = "live" /\ links[k].user = u}

\* Bug: ConsumePasswordReset does not ask for used_at.
SpentNever(k) == links[k].state = "deleted"

\* Where ConsumePasswordReset finds used_at set, or no row at all.
Spent(k) == links[k].state \in {"revoked", "deleted"}

\* RevokeUserSessions and InvalidatePasswordResets, on the rows they have seen.
\* A row that died in the meantime is left as it is.
Kill(rows, ids) ==
    [i \in DOMAIN rows |-> IF i \in ids /\ rows[i].state = "live"
                           THEN [rows[i] EXCEPT !.state = "revoked"] ELSE rows[i]]

-----------------------------------------------------------------------------
(* Requests. *)

Ops == {"none", "login", "change", "reset", "deactivate", "link", "manage"}
Pcs == {"idle", "verified", "entering", "authenticated", "rotating",
        "committing", "linking", "issuing", "done"}
Results == {"none", "ok", "refused"}

Request ==
    [pc : Pcs, op : Ops, user : Users \cup {Nobody},
     password : Passwords \cup {NoPassword},   \* verified, or to be set
     rehash : BOOLEAN, epoch : 0..MaxRotations,   \* Login: the row it has read
     session : SessionIds \cup {NoSession},    \* the caller's own session
     link : LinkIds \cup {NoLink},             \* the reset token presented
     seen : SUBSET SessionIds,                 \* what the UPDATE of sessions saw
     seenLinks : SUBSET LinkIds,
     known : SUBSET SessionIds,                \* history: live when it arrived
     knownLinks : SUBSET LinkIds,
     result : Results]

Idle == [pc |-> "idle", op |-> "none", user |-> Nobody, password |-> NoPassword,
         rehash |-> FALSE, epoch |-> 0, session |-> NoSession, link |-> NoLink,
         seen |-> {}, seenLinks |-> {}, known |-> {}, knownLinks |-> {},
         result |-> "none"]

Put(q, x) == req' = [req EXCEPT ![q] = x]

\* The answer.  Of a request that ended or replaced something, what the properties
\* ask about it stays with it until the client is gone.
Answer(q, result) ==
    LET x == req[q]
        served == [Idle EXCEPT !.pc = "done", !.result = result] IN
    Put(q, IF result = "ok" /\ x.op \in {"change", "reset", "deactivate", "link"}
           THEN [served EXCEPT !.op = x.op, !.known = x.known,
                               !.knownLinks = x.knownLinks]
           ELSE served)

\* A request that arrives about user u, and what it finds live of what its kind
\* of request is to end.
Arrival(u, op, pc) ==
    [Idle EXCEPT !.pc = pc, !.op = op, !.user = u,
        !.known = IF op = "link" THEN {} ELSE LiveSessions(u),
        !.knownLinks = IF op \in {"link", "reset"} THEN LiveLinks(u) ELSE {}]

Refuse(q) ==
    /\ Put(q, [Idle EXCEPT !.pc = "done", !.result = "refused"])
    /\ UNCHANGED <<db, epoch>>

\* Another transaction has updated u's row and not committed yet.
RowLocked(u) == \E q \in Reqs : req[q].pc = "committing" /\ req[q].user = u

-----------------------------------------------------------------------------
(* Login: read and verify, rehash, open the session. *)

\* Bug: the hash is not verified.
LoginVerifyNot(q, u, p) ==
    /\ req[q].pc = "idle" /\ active[u]
    /\ Put(q, [Idle EXCEPT !.pc = "verified", !.op = "login", !.user = u,
                           !.password = p, !.rehash = weak[u], !.epoch = epoch[u]])
    /\ UNCHANGED <<db, epoch>>

LoginVerify(q, u, p) ==
    /\ req[q].pc = "idle"
    /\ \/ ~(active[u] /\ password[u] = p) /\ Refuse(q)
       \/ /\ active[u] /\ password[u] = p
          /\ Put(q, [Idle EXCEPT !.pc = "verified", !.op = "login", !.user = u,
                                 !.password = p, !.rehash = weak[u],
                                 !.epoch = epoch[u]])
          /\ UNCHANGED <<db, epoch>>

\* UpdateUserPassword with a new hash of the password just verified.  A failure
\* is logged and the login goes on.
LoginRehash(q) ==
    /\ req[q].pc = "verified"
    /\ Put(q, [req[q] EXCEPT !.pc = "entering"])
    /\ \/ /\ req[q].rehash /\ ~RowLocked(req[q].user)
          /\ password' = [password EXCEPT ![req[q].user] = req[q].password]
          /\ weak' = [weak EXCEPT ![req[q].user] = FALSE]
       \/ UNCHANGED <<password, weak>>
    /\ UNCHANGED <<active, sessions, links, epoch>>

LoginOpen(q, s) ==
    /\ req[q].pc = "entering"
    /\ sessions[s].state = "unused"
    /\ sessions' = [sessions EXCEPT ![s] = [state |-> "live", user |-> req[q].user,
                                            epoch |-> req[q].epoch]]
    /\ Answer(q, "ok")
    /\ UNCHANGED <<password, weak, active, links, epoch>>

-----------------------------------------------------------------------------
(* Requests that carry a session token. *)

\* AuthenticateSession: unrevoked, unexpired, of an active user.
Authenticate(q, s) ==
    LET u == sessions[s].user IN
    /\ req[q].pc = "idle"
    /\ sessions[s].state # "unused"
    /\ \/ ~(sessions[s].state = "live" /\ active[u]) /\ Refuse(q)
       \/ /\ sessions[s].state = "live" /\ active[u]
          /\ Put(q, [Arrival(u, "manage", "authenticated") EXCEPT !.session = s])
          /\ UNCHANGED <<db, epoch>>

\* RevokeSession never fails: the token may be dead already.
Logout(q) ==
    /\ req[q].pc = "authenticated"
    /\ sessions' = Kill(sessions, {req[q].session})
    /\ Answer(q, "ok")
    /\ UNCHANGED <<password, weak, active, links, epoch>>

\* RevokeSessionByID: one of the caller's own sessions, expired or not.
RevokeSession(q, s) ==
    LET found == /\ sessions[s].user = req[q].user
                 /\ sessions[s].state \in {"live", "expired"} IN
    /\ req[q].pc = "authenticated"
    /\ \/ found /\ sessions' = Kill(sessions, {s}) /\ Answer(q, "ok")
       \/ ~found /\ UNCHANGED sessions /\ Answer(q, "refused")
    /\ UNCHANGED <<password, weak, active, links, epoch>>

\* ChangePassword as far as the verification of the current password.
ChangePassword(q, current, next) ==
    /\ req[q].pc = "authenticated"
    /\ \/ password[req[q].user] # current /\ Answer(q, "refused")
       \/ /\ password[req[q].user] = current
          /\ Put(q, [req[q] EXCEPT !.pc = "rotating", !.op = "change",
                                   !.password = next])
    /\ UNCHANGED <<db, epoch>>

-----------------------------------------------------------------------------
(* Rotations: ChangePassword, ResetPassword and the write of SetUserActive. *)

\* Bug: the new password is lost on the way.
ResetPasswordEmpty(q, k, next) ==
    /\ req[q].pc = "idle"
    /\ links[k].state # "unused"
    /\ Put(q, [Arrival(links[k].user, "reset", "rotating") EXCEPT !.link = k])
    /\ UNCHANGED <<db, epoch>>

ResetPassword(q, k, next) ==
    /\ req[q].pc = "idle"
    /\ links[k].state # "unused"
    /\ Put(q, [Arrival(links[k].user, "reset", "rotating") EXCEPT
                 !.password = next, !.link = k])
    /\ UNCHANGED <<db, epoch>>

Deactivate(q, u) ==
    /\ req[q].pc = "idle"
    /\ Put(q, Arrival(u, "deactivate", "rotating"))
    /\ UNCHANGED <<db, epoch>>

\* Bug: only the caller's own session is revoked, and no other link.
RotateOwn(q) ==
    LET u == req[q].user
        k == req[q].link IN
    /\ req[q].pc = "rotating"
    /\ k # NoLink => links[k].state = "live"
    /\ ~RowLocked(u) /\ epoch[u] < MaxRotations
    /\ Put(q, [req[q] EXCEPT !.pc = "committing", !.seen = {req[q].session}])
    /\ UNCHANGED <<db, epoch>>

\* The statements of the transaction: ConsumePasswordReset, the UPDATE of the
\* users row, RevokeUserSessions and, for a reset, InvalidatePasswordResets.
Rotate(q) ==
    LET u == req[q].user
        reset == req[q].op = "reset" IN
    /\ req[q].pc = "rotating"
    /\ \/ /\ reset /\ (Spent(req[q].link) \/ links[req[q].link].state = "expired")
          /\ Answer(q, "refused")
       \/ /\ reset => ~Spent(req[q].link) /\ links[req[q].link].state # "expired"
          /\ ~RowLocked(u) /\ epoch[u] < MaxRotations
          /\ Put(q, [req[q] EXCEPT
                       !.pc = "committing", !.seen = LiveSessions(u),
                       !.seenLinks = IF reset THEN LiveLinks(u) ELSE {}])
    /\ UNCHANGED <<db, epoch>>

\* The commit.  ConsumePasswordReset waits for a transaction that is spending the
\* same link, and then matches no row.
RotateCommit(q) ==
    LET u == req[q].user
        k == req[q].link
        lost == req[q].op = "reset" /\ Spent(k)
        dead == Kill(links, req[q].seenLinks) IN
    /\ req[q].pc = "committing"
    /\ \/ lost /\ Answer(q, "refused") /\ UNCHANGED <<db, epoch>>
       \/ /\ ~lost
          /\ sessions' = Kill(sessions, req[q].seen)
          /\ links' = IF req[q].op = "reset"
                      THEN [dead EXCEPT ![k].state = "revoked", ![k].uses = @ + 1]
                      ELSE links
          /\ IF req[q].op = "deactivate"
             THEN /\ active' = [active EXCEPT ![u] = FALSE]
                  /\ UNCHANGED <<password, weak>>
             ELSE /\ password' = [password EXCEPT ![u] = req[q].password]
                  /\ weak' = [weak EXCEPT ![u] = FALSE]
                  /\ UNCHANGED active
          /\ epoch' = [epoch EXCEPT ![u] = @ + 1]
          /\ Answer(q, "ok")

\* SetUserActive(true) is a single UPDATE.
Reactivate(u) ==
    /\ ~active[u] /\ ~RowLocked(u)
    /\ active' = [active EXCEPT ![u] = TRUE]
    /\ UNCHANGED <<password, weak, sessions, links, epoch, req>>

-----------------------------------------------------------------------------
(* RequestPasswordReset: read the user, invalidate, insert, commit, mail. *)

RequestPasswordReset(q, u) ==
    /\ req[q].pc = "idle"
    /\ \/ ~active[u] /\ Refuse(q)
       \/ /\ active[u]
          /\ Put(q, Arrival(u, "link", "linking"))
          /\ UNCHANGED <<db, epoch>>

\* Bug: older links are left alone.
InvalidateNoLinks(q) ==
    /\ req[q].pc = "linking"
    /\ Put(q, [req[q] EXCEPT !.pc = "issuing"])
    /\ UNCHANGED <<db, epoch>>

InvalidateLinks(q) ==
    /\ req[q].pc = "linking"
    /\ Put(q, [req[q] EXCEPT !.pc = "issuing", !.seenLinks = LiveLinks(req[q].user)])
    /\ UNCHANGED <<db, epoch>>

IssueLink(q, k) ==
    /\ req[q].pc = "issuing"
    /\ links[k].state = "unused"
    /\ links' = [Kill(links, req[q].seenLinks) EXCEPT
                   ![k] = [state |-> "live", user |-> req[q].user, uses |-> 0]]
    /\ Answer(q, "ok")
    /\ UNCHANGED <<password, weak, active, sessions, epoch>>

-----------------------------------------------------------------------------
(* Time, the reaper, and requests that end. *)

ExpireSession(s) ==
    /\ sessions[s].state = "live"
    /\ sessions' = [sessions EXCEPT ![s].state = "expired"]
    /\ UNCHANGED <<password, weak, active, links, epoch, req>>

ExpireLink(k) ==
    /\ links[k].state = "live"
    /\ links' = [links EXCEPT ![k].state = "expired"]
    /\ UNCHANGED <<password, weak, active, sessions, epoch, req>>

\* Bug: rows that have only expired are kept.
Revoked(row) == row.state = "revoked"

Dead(row) == row.state \in {"revoked", "expired"}

\* DeleteDeadSessions and DeleteDeadPasswordResets, on the hourly ticker.
Prune(rows) ==
    [i \in DOMAIN rows |-> IF Dead(rows[i])
                           THEN [rows[i] EXCEPT !.state = "deleted"] ELSE rows[i]]

CleanupSessions ==
    /\ \E s \in SessionIds : Dead(sessions[s])
    /\ sessions' = Prune(sessions)
    /\ UNCHANGED <<password, weak, active, links, epoch, req>>

CleanupPasswordResets ==
    /\ \E k \in LinkIds : Dead(links[k])
    /\ links' = Prune(links)
    /\ UNCHANGED <<password, weak, active, sessions, epoch, req>>

\* The client has its answer, or the request failed and was rolled back.
Finish(q) ==
    /\ req[q].pc # "idle"
    /\ Put(q, Idle)
    /\ UNCHANGED <<db, epoch>>

-----------------------------------------------------------------------------

Init ==
    /\ password \in [Users -> Passwords]
    /\ weak \in [Users -> BOOLEAN]
    /\ active = [u \in Users |-> TRUE]
    /\ sessions = [s \in SessionIds |-> [state |-> "unused", user |-> Nobody,
                                         epoch |-> 0]]
    /\ links = [k \in LinkIds |-> [state |-> "unused", user |-> Nobody,
                                   uses |-> 0]]
    /\ epoch = [u \in Users |-> 0]
    /\ req = [q \in Reqs |-> Idle]

LoginHandler(q) ==
    \/ \E u \in Users, p \in Passwords : LoginVerify(q, u, p)
    \/ LoginRehash(q)
    \/ \E s \in SessionIds : LoginOpen(q, s)

SessionHandlers(q) ==
    \/ \E s \in SessionIds : Authenticate(q, s)
    \/ Logout(q)
    \/ \E s \in SessionIds : RevokeSession(q, s)
    \/ \E current, next \in Passwords : ChangePassword(q, current, next)

Rotations(q) ==
    \/ \E k \in LinkIds, next \in Passwords : ResetPassword(q, k, next)
    \/ \E u \in Users : Deactivate(q, u)
    \/ Rotate(q)
    \/ RotateCommit(q)

LinkHandler(q) ==
    \/ \E u \in Users : RequestPasswordReset(q, u)
    \/ InvalidateLinks(q)
    \/ \E k \in LinkIds : IssueLink(q, k)

Background ==
    \/ \E u \in Users : Reactivate(u)
    \/ \E s \in SessionIds : ExpireSession(s)
    \/ \E k \in LinkIds : ExpireLink(k)
    \/ CleanupSessions
    \/ CleanupPasswordResets

Next ==
    \/ \E q \in Reqs : LoginHandler(q) \/ SessionHandlers(q) \/ Rotations(q)
                       \/ LinkHandler(q) \/ Finish(q)
    \/ Background

Spec == Init /\ [][Next]_vars

\* Tokens run out their TTL, which settings.go requires to be finite and positive,
\* and the reaper's ticker fires for as long as a replica runs (main.go:301-337).
Fairness ==
    /\ \A s \in SessionIds : WF_vars(ExpireSession(s))
    /\ \A k \in LinkIds : WF_vars(ExpireLink(k))
    /\ WF_vars(CleanupSessions) /\ WF_vars(CleanupPasswordResets)

FairSpec == Spec /\ Fairness

-----------------------------------------------------------------------------
(* Properties. *)

\* The type invariant.
TypeOK ==
    /\ password \in [Users -> Passwords]
    /\ weak \in [Users -> BOOLEAN] /\ active \in [Users -> BOOLEAN]
    /\ sessions \in [SessionIds -> SessionRow]
    /\ links \in [LinkIds -> LinkRow]
    /\ epoch \in [Users -> 0..MaxRotations]
    /\ req \in [Reqs -> Request]

Rotated(q) ==
    req[q].pc = "done" /\ req[q].result = "ok"
        /\ req[q].op \in {"change", "reset", "deactivate"}

\* A session that was open when somebody asked to change or reset the password or
\* to deactivate the user is dead by the time they are told it is done, whatever
\* else was running (password_reset.go:132-138, service.go:272-275, 351-357).
OldSessionsDie ==
    \A q \in Reqs : Rotated(q) =>
        \A s \in req[q].known : sessions[s].state # "live"

\* A link that was out when a reset was asked for, or went through, is dead by the
\* time the new link is mailed, or the reset answered (password_reset.go:71-73,
\* 168-170).
OldLinksDie ==
    \A q \in Reqs :
        /\ req[q].pc = "done" /\ req[q].result = "ok"
        /\ req[q].op \in {"link", "reset"}
        => \A k \in req[q].knownLinks : links[k].state # "live"

\* A reset link sets one password, however many requests present it at once
\* (ConsumePasswordReset claims it in one UPDATE, repository.go:448-452).
LinkUsedOnce == \A k \in LinkIds : links[k].uses <= 1

\* No session row and no reset row stays in its table for ever: it expires or is
\* revoked, and then the reaper deletes it (repository.go:391-394).
RowsPruned ==
    /\ \A s \in SessionIds :
         sessions[s].state # "unused" ~> sessions[s].state = "deleted"
    /\ \A k \in LinkIds :
         links[k].state # "unused" ~> links[k].state = "deleted"

\* The three below hold while requests run one at a time; the README says which
\* interleavings break them.

\* A live session was opened with the password the account has now, and since the
\* account was last deactivated: a rotation ends EVERY session
\* (password_reset.go:132-138).
NoStaleSession ==
    \A s \in SessionIds :
        sessions[s].state = "live" => sessions[s].epoch = epoch[sessions[s].user]

\* Upgrading a hash is transparent (service.go:161-163): a login never changes
\* which password opens the account.
LoginKeepsPassword ==
    [][\A q \in Reqs : req[q].op = "login" /\ req'[q].op = "login" /\ req'[q] # req[q]
         => password' = password]_vars

\* "only the newest may be used" (password_reset.go:71-73).
OneLiveLink == \A u \in Users : Cardinality(LiveLinks(u)) <= 1
=============================================================================

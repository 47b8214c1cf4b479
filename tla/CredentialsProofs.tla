-------------------------- MODULE CredentialsProofs --------------------------
(***************************************************************************)
(* Theorems about Credentials, for any users, passwords, sessions, links   *)
(* and number of requests served at the same time.                         *)
(***************************************************************************)
EXTENDS Credentials, FiniteSetTheorems, TLAPS

-----------------------------------------------------------------------------
(* The inductive invariant. *)

\* What a request in flight has been given by the steps before.
Shape(x) ==
    /\ x.pc \in {"verified", "entering"} =>
         x.op = "login" /\ x.user \in Users /\ x.password \in Passwords
    /\ x.pc = "authenticated" => x.op = "manage" /\ x.user \in Users
    /\ x.pc \in {"rotating", "committing"} =>
         /\ x.op \in {"change", "reset", "deactivate"} /\ x.user \in Users
         /\ x.op # "deactivate" => x.password \in Passwords
    /\ x.pc \in {"linking", "issuing"} => x.op = "link" /\ x.user \in Users

\* Requests that are still about the user they arrived for.
Pursuing(x) ==
    x.pc \in {"authenticated", "rotating", "committing", "linking", "issuing"}

\* A link that is presented was mailed.  What a request is to end was there when it
\* arrived and is its user's.  Once the statements have run, what they did not see is
\* dead; once it is answered, all is.
Ending(x, ss, ls) ==
    /\ x.pc \in {"rotating", "committing"} /\ x.op = "reset"
         => x.link \in LinkIds /\ ls[x.link].state # "unused"
    /\ \A s \in x.known : /\ ss[s].state # "unused"
                          /\ Pursuing(x) => ss[s].user = x.user
    /\ \A k \in x.knownLinks : /\ ls[k].state # "unused"
                               /\ Pursuing(x) => ls[k].user = x.user
    /\ x.pc = "committing" => \A s \in x.known \ x.seen : ss[s].state # "live"
    /\ x.pc = "issuing" \/ (x.pc = "committing" /\ x.op = "reset")
         => \A k \in x.knownLinks \ x.seenLinks : ls[k].state # "live"
    /\ x.pc = "done" /\ x.result = "ok" /\ x.op \in {"change", "reset", "deactivate"}
         => \A s \in x.known : ss[s].state # "live"
    /\ x.pc = "done" /\ x.result = "ok" /\ x.op \in {"link", "reset"}
         => \A k \in x.knownLinks : ls[k].state # "live"

\* A row that was inserted has an owner.
Owned(rows) ==
    \A i \in DOMAIN rows : rows[i].state # "unused" => rows[i].user \in Users

\* A link that has set a password is spent.
SpentIfUsed(ls) ==
    \A k \in LinkIds :
        ls[k].uses = 0 \/ (ls[k].uses = 1 /\ ls[k].state \in {"revoked", "deleted"})

\* The lock of the users row: one transaction at a time, within the bound.
Committing(q) == req[q].pc = "committing"
Locked ==
    \A q \in Reqs : Committing(q) =>
        /\ epoch[req[q].user] < MaxRotations
        /\ \A p \in Reqs : Committing(p) /\ req[p].user = req[q].user => p = q

CredentialsInv ==
    /\ TypeOK
    /\ \A q \in Reqs : Shape(req[q]) /\ Ending(req[q], sessions, links)
    /\ Owned(sessions) /\ Owned(links) /\ SpentIfUsed(links)
    /\ Locked
-----------------------------------------------------------------------------
(* Rows evolve: they keep their owner and do not come back to life. *)

Evolves(old, new) ==
    \A i \in DOMAIN old : old[i].state # "unused" =>
        /\ new[i].state # "unused" /\ new[i].user = old[i].user
        /\ new[i].state = "live" => old[i].state = "live"

LEMMA KillEvolves ==
  ASSUME NEW rows, NEW ids
  PROVE  Evolves(rows, Kill(rows, ids))
  BY DEF Evolves, Kill

LEMMA PruneEvolves ==
  ASSUME NEW rows
  PROVE  Evolves(rows, Prune(rows))
  BY DEF Evolves, Prune, Dead

LEMMA EndingKept ==
  ASSUME NEW ss, NEW ls, DOMAIN ss = SessionIds, DOMAIN ls = LinkIds,
         NEW ss2, NEW ls2, Evolves(ss, ss2), Evolves(ls, ls2),
         NEW x \in Request, Ending(x, ss, ls)
  PROVE  Ending(x, ss2, ls2)
  <1>1. x.known \subseteq SessionIds /\ x.knownLinks \subseteq LinkIds
    BY DEF Request
  <1>2. \A s \in x.known : /\ ss2[s].state # "unused" /\ ss2[s].user = ss[s].user
                           /\ ss2[s].state = "live" => ss[s].state = "live"
    BY <1>1 DEF Ending, Evolves
  <1>3. \A k \in x.knownLinks : /\ ls2[k].state # "unused" /\ ls2[k].user = ls[k].user
                                /\ ls2[k].state = "live" => ls[k].state = "live"
    BY <1>1 DEF Ending, Evolves
  <1>4. \A k \in LinkIds : ls[k].state # "unused" => ls2[k].state # "unused"
    BY DEF Evolves
  <1> QED
    BY <1>2, <1>3, <1>4 DEF Ending

-----------------------------------------------------------------------------
(* A step of one request. *)

\* The slot gets a sound record, and the tables evolve.
LEMMA SlotInv ==
  ASSUME CredentialsInv, NEW q \in Reqs, NEW x \in Request,
         req' = [req EXCEPT ![q] = x],
         Shape(x), Ending(x, sessions', links'),
         Evolves(sessions, sessions'), Evolves(links, links')
  PROVE  /\ req' \in [Reqs -> Request]
         /\ \A p \in Reqs : Shape(req'[p]) /\ Ending(req'[p], sessions', links')
  <1>1. /\ req \in [Reqs -> Request]
        /\ DOMAIN sessions = SessionIds /\ DOMAIN links = LinkIds
    BY DEF CredentialsInv, TypeOK
  <1>2. req' \in [Reqs -> Request]
    BY <1>1
  <1>3. ASSUME NEW p \in Reqs
        PROVE  Shape(req'[p]) /\ Ending(req'[p], sessions', links')
    <2>1. CASE p = q
      BY <1>1, <2>1
    <2>2. CASE p # q
      <3>1. req'[p] = req[p] /\ req[p] \in Request
        BY <1>1, <2>2
      <3>2. Shape(req[p]) /\ Ending(req[p], sessions, links)
        BY DEF CredentialsInv
      <3>3. Ending(req[p], sessions', links')
        BY <1>1, <3>1, <3>2, EndingKept
      <3> QED
        BY <3>1, <3>2, <3>3
    <2> QED
      BY <2>1, <2>2
  <1> QED
    BY <1>2, <1>3

\* The locks are those of before, if nothing is rotated.
LEMMA LockedKept ==
  ASSUME CredentialsInv, NEW q \in Reqs, NEW x \in Request,
         req' = [req EXCEPT ![q] = x], x.pc # "committing",
         UNCHANGED epoch
  PROVE  Locked'
  <1>1. \A p \in Reqs : Committing(p)' => Committing(p) /\ req'[p] = req[p]
    BY DEF CredentialsInv, TypeOK, Committing
  <1> QED
    BY <1>1 DEF Locked, CredentialsInv

\* A step that changes nothing but a request.
LEMMA QuietInv ==
  ASSUME CredentialsInv, NEW q \in Reqs, NEW x \in Request,
         req' = [req EXCEPT ![q] = x], UNCHANGED <<db, epoch>>,
         Shape(x), Ending(x, sessions, links), x.pc # "committing"
  PROVE  CredentialsInv'
  <1>1. UNCHANGED <<password, weak, active, sessions, links, epoch>>
    BY DEF db
  <1>2. Evolves(sessions, sessions') /\ Evolves(links, links')
    BY <1>1 DEF Evolves
  <1>3. Ending(x, sessions', links')
    BY <1>1
  <1>4. /\ req' \in [Reqs -> Request]
        /\ \A p \in Reqs : Shape(req'[p]) /\ Ending(req'[p], sessions', links')
    BY <1>2, <1>3, SlotInv
  <1>5. Locked'
    BY <1>1, LockedKept
  <1>6. TypeOK'
    BY <1>1, <1>4 DEF CredentialsInv, TypeOK
  <1>7. Owned(sessions') /\ Owned(links') /\ SpentIfUsed(links')
    BY <1>1 DEF CredentialsInv
  <1> QED
    BY <1>4, <1>5, <1>6, <1>7 DEF CredentialsInv

LEMMA IdleIsSound ==
  ASSUME NEW ss, NEW ls
  PROVE  Idle \in Request /\ Shape(Idle) /\ Ending(Idle, ss, ls)
  BY CredentialsAssumption DEF Idle, Request, Pcs, Ops, Results, Shape, Ending

\* The answer, as a record.
Answered(x, result) ==
    LET served == [Idle EXCEPT !.pc = "done", !.result = result] IN
    IF result = "ok" /\ x.op \in {"change", "reset", "deactivate", "link"}
    THEN [served EXCEPT !.op = x.op, !.known = x.known, !.knownLinks = x.knownLinks]
    ELSE served

LEMMA AnsweredIsSound ==
  ASSUME NEW x \in Request, NEW result \in Results, NEW ss, NEW ls,
         \A s \in x.known : ss[s].state # "unused",
         \A k \in x.knownLinks : ls[k].state # "unused",
         result = "ok" /\ x.op \in {"change", "reset", "deactivate"}
           => \A s \in x.known : ss[s].state # "live",
         result = "ok" /\ x.op \in {"link", "reset"}
           => \A k \in x.knownLinks : ls[k].state # "live"
  PROVE  LET y == Answered(x, result) IN
         /\ y \in Request /\ y.pc = "done" /\ Shape(y) /\ Ending(y, ss, ls)
  <1> DEFINE y == Answered(x, result)
             served == [Idle EXCEPT !.pc = "done", !.result = result]
  <1>1. /\ served \in Request /\ served.pc = "done" /\ served.result = result
        /\ served.op = "none" /\ served.known = {} /\ served.knownLinks = {}
    <2>1. /\ Idle \in Request /\ "done" \in Pcs
          /\ Idle.op = "none" /\ Idle.known = {} /\ Idle.knownLinks = {}
      BY IdleIsSound DEF Pcs, Idle
    <2>2. served \in Request
      BY <2>1 DEF Request
    <2>3. /\ served.pc = "done" /\ served.result = result
          /\ served.op = "none" /\ served.known = {} /\ served.knownLinks = {}
      BY <2>1 DEF Request
    <2> QED
      BY <2>2, <2>3
  <1>2. CASE result = "ok" /\ x.op \in {"change", "reset", "deactivate", "link"}
    <2>1. y = [served EXCEPT !.op = x.op, !.known = x.known,
                             !.knownLinks = x.knownLinks]
      BY <1>2 DEF Answered
    <2> HIDE DEF served
    <2>2. /\ y \in Request /\ y.pc = "done" /\ y.result = result /\ y.op = x.op
          /\ y.known = x.known /\ y.knownLinks = x.knownLinks
      BY <1>1, <2>1 DEF Request
    <2> QED
      BY <2>2, <1>2 DEF Shape, Ending, Pursuing
  <1>3. CASE ~(result = "ok" /\ x.op \in {"change", "reset", "deactivate", "link"})
    <2>1. y = served
      BY <1>3 DEF Answered
    <2> HIDE DEF served
    <2> QED
      BY <1>1, <2>1 DEF Shape, Ending
  <1> QED
    BY <1>2, <1>3

\* An answer that promises nothing.
LEMMA PlainIsSound ==
  ASSUME NEW x \in Request, NEW result \in Results, NEW ss, NEW ls,
         Ending(x, ss, ls),
         result = "refused" \/ x.op \in {"none", "login", "manage"}
  PROVE  LET y == Answered(x, result) IN
         /\ y \in Request /\ y.pc = "done" /\ Shape(y) /\ Ending(y, ss, ls)
  <1>1. /\ \A s \in x.known : ss[s].state # "unused"
        /\ \A k \in x.knownLinks : ls[k].state # "unused"
    BY DEF Ending
  <1> QED
    BY <1>1, AnsweredIsSound

LEMMA AnswerIsAnswered ==
  ASSUME NEW q \in Reqs, NEW result, Answer(q, result)
  PROVE  req' = [req EXCEPT ![q] = Answered(req[q], result)]
  BY DEF Answer, Answered, Put

LEMMA RefuseInv ==
  ASSUME CredentialsInv, NEW q \in Reqs, Refuse(q)
  PROVE  CredentialsInv'
  <1> DEFINE x == Answered(Idle, "refused")
  <1>1. /\ Idle \in Request /\ "refused" \in Results
        /\ Idle.op = "none" /\ Idle.known = {} /\ Idle.knownLinks = {}
    BY IdleIsSound DEF Results, Idle
  <1>2. x \in Request /\ x.pc = "done" /\ Shape(x) /\ Ending(x, sessions, links)
    BY <1>1, AnsweredIsSound
  <1>3. req' = [req EXCEPT ![q] = x] /\ UNCHANGED <<db, epoch>>
    BY DEF Refuse, Put, Answered
  <1> QED
    BY <1>2, <1>3, QuietInv

\* An answer that changes nothing and promises nothing.
LEMMA NegativeInv ==
  ASSUME CredentialsInv, NEW q \in Reqs, Answer(q, "refused"),
         UNCHANGED <<db, epoch>>
  PROVE  CredentialsInv'
  <1> DEFINE x == Answered(req[q], "refused")
  <1>1. req[q] \in Request /\ Ending(req[q], sessions, links)
    BY DEF CredentialsInv, TypeOK
  <1>2. x \in Request /\ x.pc = "done" /\ Shape(x) /\ Ending(x, sessions, links)
    BY <1>1, PlainIsSound DEF Results
  <1> QED
    BY <1>2, AnswerIsAnswered, QuietInv

\* The parts of the invariant that speak of the tables.
TablesOK(ss, ls) ==
    /\ ss \in [SessionIds -> SessionRow] /\ ls \in [LinkIds -> LinkRow]
    /\ Owned(ss) /\ Owned(ls) /\ SpentIfUsed(ls)

\* A step that writes rows on the way, rotates nothing and leaves users typed.
LEMMA WriteInv ==
  ASSUME CredentialsInv, NEW q \in Reqs, NEW x \in Request,
         req' = [req EXCEPT ![q] = x], x.pc # "committing",
         Shape(x), Ending(x, sessions', links'),
         Evolves(sessions, sessions'), Evolves(links, links'),
         TablesOK(sessions', links'), UNCHANGED <<active, epoch>>,
         password' \in [Users -> Passwords], weak' \in [Users -> BOOLEAN]
  PROVE  CredentialsInv'
  <1>1. /\ req' \in [Reqs -> Request]
        /\ \A p \in Reqs : Shape(req'[p]) /\ Ending(req'[p], sessions', links')
    BY SlotInv
  <1>2. Locked'
    BY LockedKept
  <1>3. TypeOK'
    BY <1>1 DEF CredentialsInv, TypeOK, TablesOK
  <1> QED
    BY <1>1, <1>2, <1>3 DEF CredentialsInv, TablesOK

\* A step that is no request's.
LEMMA BackgroundStepInv ==
  ASSUME CredentialsInv, UNCHANGED <<password, weak, epoch, req>>,
         active' \in [Users -> BOOLEAN], TablesOK(sessions', links'),
         Evolves(sessions, sessions'), Evolves(links, links')
  PROVE  CredentialsInv'
  <1>1. TypeOK'
    BY DEF CredentialsInv, TypeOK, TablesOK
  <1>2. ASSUME NEW p \in Reqs
        PROVE  Shape(req'[p]) /\ Ending(req'[p], sessions', links')
    <2>1. /\ req[p] \in Request /\ Shape(req[p]) /\ Ending(req[p], sessions, links)
          /\ DOMAIN sessions = SessionIds /\ DOMAIN links = LinkIds
      BY DEF CredentialsInv, TypeOK
    <2>2. Ending(req[p], sessions', links')
      BY <2>1, EndingKept
    <2> QED
      BY <2>1, <2>2
  <1>3. Locked'
    BY DEF CredentialsInv, Locked, Committing
  <1> QED
    BY <1>1, <1>2, <1>3 DEF CredentialsInv, TablesOK

LEMMA TablesAreOK == CredentialsInv => TablesOK(sessions, links)
  BY DEF CredentialsInv, TypeOK, TablesOK

LEMMA KillTyped ==
  ASSUME NEW ss, NEW ls, TablesOK(ss, ls), NEW ids
  PROVE  TablesOK(Kill(ss, ids), ls) /\ TablesOK(ss, Kill(ls, ids))
  <1>1. Kill(ss, ids) \in [SessionIds -> SessionRow] /\ Owned(Kill(ss, ids))
    BY DEF TablesOK, Kill, SessionRow, RowStates, Owned
  <1>2. /\ Kill(ls, ids) \in [LinkIds -> LinkRow] /\ Owned(Kill(ls, ids))
        /\ SpentIfUsed(Kill(ls, ids))
    BY DEF TablesOK, Kill, LinkRow, RowStates, Owned, SpentIfUsed
  <1> QED
    BY <1>1, <1>2 DEF TablesOK

LEMMA PruneTyped ==
  ASSUME NEW ss, NEW ls, TablesOK(ss, ls)
  PROVE  TablesOK(Prune(ss), ls) /\ TablesOK(ss, Prune(ls))
  <1>1. Prune(ss) \in [SessionIds -> SessionRow] /\ Owned(Prune(ss))
    BY DEF TablesOK, Prune, Dead, SessionRow, RowStates, Owned
  <1>2. /\ Prune(ls) \in [LinkIds -> LinkRow] /\ Owned(Prune(ls))
        /\ SpentIfUsed(Prune(ls))
    BY DEF TablesOK, Prune, Dead, LinkRow, RowStates, Owned, SpentIfUsed
  <1> QED
    BY <1>1, <1>2 DEF TablesOK

\* A table evolves when it is left alone.
LEMMA EvolvesSame == \A rows : Evolves(rows, rows)
  BY DEF Evolves

LEMMA BackgroundInv ==
  ASSUME CredentialsInv, Background
  PROVE  CredentialsInv'
  <1>0. TablesOK(sessions, links) /\ active \in [Users -> BOOLEAN]
    BY TablesAreOK DEF CredentialsInv, TypeOK
  <1>1. ASSUME NEW u \in Users, Reactivate(u) PROVE CredentialsInv'
    <2>1. UNCHANGED <<password, weak, epoch, req, sessions, links>>
      BY <1>1 DEF Reactivate
    <2>2. active' \in [Users -> BOOLEAN]
      BY <1>0, <1>1 DEF Reactivate
    <2> QED
      BY <1>0, <2>1, <2>2, EvolvesSame, BackgroundStepInv
  <1>2. ASSUME NEW s \in SessionIds, ExpireSession(s) PROVE CredentialsInv'
    <2>1. UNCHANGED <<password, weak, epoch, req, active, links>>
      BY <1>2 DEF ExpireSession
    <2>2. TablesOK(sessions', links) /\ Evolves(sessions, sessions')
      BY <1>0, <1>2 DEF ExpireSession, TablesOK, SessionRow, RowStates, Owned, Evolves
    <2> QED
      BY <1>0, <2>1, <2>2, EvolvesSame, BackgroundStepInv
  <1>3. ASSUME NEW k \in LinkIds, ExpireLink(k) PROVE CredentialsInv'
    <2>1. UNCHANGED <<password, weak, epoch, req, active, sessions>>
      BY <1>3 DEF ExpireLink
    <2>2. TablesOK(sessions, links') /\ Evolves(links, links')
      <3>1. links' \in [LinkIds -> LinkRow] /\ Owned(links') /\ Evolves(links, links')
        BY <1>0, <1>3 DEF ExpireLink, TablesOK, LinkRow, RowStates, Owned, Evolves
      <3>2. SpentIfUsed(links')
        BY <1>0, <1>3 DEF ExpireLink, TablesOK, LinkRow, SpentIfUsed
      <3> QED
        BY <1>0, <3>1, <3>2 DEF TablesOK
    <2> QED
      BY <1>0, <2>1, <2>2, EvolvesSame, BackgroundStepInv
  <1>4. ASSUME CleanupSessions PROVE CredentialsInv'
    BY <1>0, <1>4, PruneTyped, PruneEvolves, EvolvesSame, BackgroundStepInv
       DEF CleanupSessions
  <1>5. ASSUME CleanupPasswordResets PROVE CredentialsInv'
    BY <1>0, <1>5, PruneTyped, PruneEvolves, EvolvesSame, BackgroundStepInv
       DEF CleanupPasswordResets
  <1> QED
    BY <1>1, <1>2, <1>3, <1>4, <1>5 DEF Background

-----------------------------------------------------------------------------
(* The handlers. *)

LEMMA LoginInv ==
  ASSUME CredentialsInv, NEW q \in Reqs, LoginHandler(q)
  PROVE  CredentialsInv'
  <1>0. /\ TablesOK(sessions, links) /\ req[q] \in Request
        /\ Shape(req[q]) /\ Ending(req[q], sessions, links)
        /\ password \in [Users -> Passwords] /\ weak \in [Users -> BOOLEAN]
        /\ epoch \in [Users -> 0..MaxRotations]
    BY TablesAreOK DEF CredentialsInv, TypeOK
  <1>1. ASSUME NEW u \in Users, NEW p \in Passwords, LoginVerify(q, u, p)
        PROVE  CredentialsInv'
    <2>1. CASE Refuse(q)
      BY <2>1, RefuseInv
    <2>2. CASE ~Refuse(q)
      <3> DEFINE x == [Idle EXCEPT !.pc = "verified", !.op = "login", !.user = u,
                         !.password = p, !.rehash = weak[u], !.epoch = epoch[u]]
      <3>1. req' = [req EXCEPT ![q] = x] /\ UNCHANGED <<db, epoch>>
        BY <1>1, <2>2 DEF LoginVerify, Put
      <3>2. /\ Idle \in Request /\ "verified" \in Pcs /\ "login" \in Ops
            /\ weak[u] \in BOOLEAN /\ epoch[u] \in 0..MaxRotations
            /\ Idle.known = {} /\ Idle.knownLinks = {}
        BY <1>0, IdleIsSound DEF Pcs, Ops, Idle
      <3>3. /\ x \in Request /\ x.pc = "verified" /\ x.op = "login" /\ x.user = u
            /\ x.password = p /\ x.known = {} /\ x.knownLinks = {}
        BY <3>2 DEF Request
      <3>4. Shape(x) /\ Ending(x, sessions, links)
        BY <3>3 DEF Shape, Ending
      <3> QED
        BY <3>1, <3>3, <3>4, QuietInv
    <2> QED
      BY <2>1, <2>2
  <1>2. ASSUME LoginRehash(q) PROVE CredentialsInv'
    <2> DEFINE x == [req[q] EXCEPT !.pc = "entering"]
    <2>1. /\ req' = [req EXCEPT ![q] = x] /\ req[q].pc = "verified"
          /\ UNCHANGED <<active, sessions, links, epoch>>
      BY <1>2 DEF LoginRehash, Put
    <2>2. /\ x \in Request /\ x.pc = "entering" /\ x.op = req[q].op
          /\ x.user = req[q].user /\ x.password = req[q].password
          /\ x.known = req[q].known /\ x.knownLinks = req[q].knownLinks
      BY <1>0 DEF Request, Pcs
    <2>3. Shape(x) /\ Ending(x, sessions', links')
      BY <1>0, <2>1, <2>2 DEF Shape, Ending, Pursuing
    <2>4. password' \in [Users -> Passwords] /\ weak' \in [Users -> BOOLEAN]
      BY <1>0, <1>2 DEF LoginRehash, Shape
    <2>5. /\ Evolves(sessions, sessions') /\ Evolves(links, links')
          /\ TablesOK(sessions', links')
      BY <1>0, <2>1, EvolvesSame
    <2> HIDE DEF x
    <2> QED
      BY <2>1, <2>2, <2>3, <2>4, <2>5, WriteInv
  <1>3. ASSUME NEW s \in SessionIds, LoginOpen(q, s) PROVE CredentialsInv'
    <2> DEFINE x == Answered(req[q], "ok")
    <2>1. /\ req' = [req EXCEPT ![q] = x] /\ req[q].pc = "entering"
          /\ sessions[s].state = "unused"
          /\ sessions' = [sessions EXCEPT ![s] = [state |-> "live", user |-> req[q].user,
                                                  epoch |-> req[q].epoch]]
          /\ UNCHANGED <<password, weak, active, links, epoch>>
      BY <1>3, AnswerIsAnswered DEF LoginOpen
    <2>2. req[q].user \in Users /\ req[q].op = "login" /\ req[q].epoch \in 0..MaxRotations
      BY <1>0, <2>1 DEF Shape, Request
    <2>3. Evolves(sessions, sessions') /\ Evolves(links, links')
      BY <1>0, <2>1, EvolvesSame DEF Evolves, TablesOK
    <2>4. TablesOK(sessions', links')
      BY <1>0, <2>1, <2>2 DEF TablesOK, SessionRow, RowStates, Owned
    <2>5. Ending(req[q], sessions', links')
      BY <1>0, <2>3, EndingKept DEF TablesOK
    <2>6. x \in Request /\ x.pc = "done" /\ Shape(x) /\ Ending(x, sessions', links')
      BY <1>0, <2>2, <2>5, PlainIsSound DEF Results
    <2> HIDE DEF x
    <2> QED
      BY <1>0, <2>1, <2>3, <2>4, <2>6, WriteInv
  <1> QED
    BY <1>1, <1>2, <1>3 DEF LoginHandler

\* Rows may be killed and the request answered, if it promises nothing.
LEMMA KillAndAnswerInv ==
  ASSUME CredentialsInv, NEW q \in Reqs, NEW ids, req[q].op = "manage",
         Answer(q, "ok"), sessions' = Kill(sessions, ids),
         UNCHANGED <<password, weak, active, links, epoch>>
  PROVE  CredentialsInv'
  <1> DEFINE x == Answered(req[q], "ok")
  <1>0. /\ TablesOK(sessions, links) /\ req[q] \in Request
        /\ Ending(req[q], sessions, links)
        /\ password' \in [Users -> Passwords] /\ weak' \in [Users -> BOOLEAN]
    BY TablesAreOK DEF CredentialsInv, TypeOK
  <1>1. Evolves(sessions, sessions') /\ Evolves(links, links')
    BY KillEvolves, EvolvesSame
  <1>2. TablesOK(sessions', links')
    BY <1>0, KillTyped
  <1>3. Ending(req[q], sessions', links')
    BY <1>0, <1>1, EndingKept DEF TablesOK
  <1>4. x \in Request /\ x.pc = "done" /\ Shape(x) /\ Ending(x, sessions', links')
    BY <1>0, <1>3, PlainIsSound DEF Results
  <1>5. req' = [req EXCEPT ![q] = x]
    BY AnswerIsAnswered
  <1> HIDE DEF x
  <1> QED
    BY <1>0, <1>1, <1>2, <1>4, <1>5, WriteInv

\* A request that arrives about a user finds what it is to end.
LEMMA ArrivalIsSound ==
  ASSUME NEW u \in Users, NEW op \in Ops, NEW pc \in Pcs,
         pc \in {"authenticated", "rotating", "linking"}
  PROVE  LET x == Arrival(u, op, pc) IN
         /\ x \in Request /\ x.pc = pc /\ x.op = op /\ x.user = u
         /\ x.known \subseteq LiveSessions(u) /\ x.knownLinks \subseteq LiveLinks(u)
         /\ op # "reset" => Ending(x, sessions, links)
  <1> DEFINE x == Arrival(u, op, pc)
  <1>1. Idle \in Request
    BY IdleIsSound
  <1>2. LiveSessions(u) \subseteq SessionIds /\ LiveLinks(u) \subseteq LinkIds
    BY DEF LiveSessions, LiveLinks
  <1>3. /\ x \in Request /\ x.pc = pc /\ x.op = op /\ x.user = u
        /\ x.known \subseteq LiveSessions(u) /\ x.knownLinks \subseteq LiveLinks(u)
    BY <1>1, <1>2 DEF Arrival, Request
  <1> HIDE DEF x
  <1>4. op # "reset" => Ending(x, sessions, links)
    BY <1>3 DEF Ending, LiveSessions, LiveLinks
  <1> QED
    BY <1>3, <1>4 DEF x

LEMMA SessionInv ==
  ASSUME CredentialsInv, NEW q \in Reqs, SessionHandlers(q)
  PROVE  CredentialsInv'
  <1>0. /\ TablesOK(sessions, links) /\ req[q] \in Request
        /\ Shape(req[q]) /\ Ending(req[q], sessions, links)
    BY TablesAreOK DEF CredentialsInv, TypeOK
  <1>1. ASSUME NEW s \in SessionIds, Authenticate(q, s) PROVE CredentialsInv'
    <2>1. CASE Refuse(q)
      BY <2>1, RefuseInv
    <2>2. CASE ~Refuse(q)
      <3> DEFINE u == sessions[s].user
                 y == Arrival(u, "manage", "authenticated")
                 x == [y EXCEPT !.session = s]
      <3>1. /\ req' = [req EXCEPT ![q] = x] /\ UNCHANGED <<db, epoch>>
            /\ sessions[s].state # "unused"
        BY <1>1, <2>2 DEF Authenticate, Put
      <3>2. u \in Users /\ "manage" \in Ops /\ "authenticated" \in Pcs
        BY <1>0, <3>1 DEF TablesOK, Owned, Ops, Pcs
      <3>3. /\ y \in Request /\ y.pc = "authenticated" /\ y.op = "manage"
            /\ y.user = u /\ Ending(y, sessions, links)
        BY <3>2, ArrivalIsSound
      <3> HIDE DEF y, u
      <3>4. /\ x \in Request /\ x.pc = y.pc /\ x.op = y.op /\ x.user = y.user
            /\ x.known = y.known /\ x.knownLinks = y.knownLinks
        BY <3>3 DEF Request
      <3> HIDE DEF x
      <3>5. Shape(x) /\ Ending(x, sessions, links)
        BY <3>2, <3>3, <3>4 DEF Shape, Ending, Pursuing
      <3> QED
        BY <3>1, <3>3, <3>4, <3>5, QuietInv
    <2> QED
      BY <2>1, <2>2
  <1>2. ASSUME Logout(q) PROVE CredentialsInv'
    <2>1. req[q].op = "manage"
      BY <1>0, <1>2 DEF Logout, Shape
    <2> QED
      BY <1>2, <2>1, KillAndAnswerInv DEF Logout
  <1>3. ASSUME NEW s \in SessionIds, RevokeSession(q, s) PROVE CredentialsInv'
    <2>1. req[q].op = "manage"
      BY <1>0, <1>3 DEF RevokeSession, Shape
    <2>2. CASE sessions' = Kill(sessions, {s}) /\ Answer(q, "ok")
      BY <1>3, <2>1, <2>2, KillAndAnswerInv DEF RevokeSession
    <2>3. CASE UNCHANGED sessions /\ Answer(q, "refused")
      BY <1>3, <2>3, NegativeInv DEF RevokeSession, db
    <2> QED
      BY <1>3, <2>2, <2>3 DEF RevokeSession
  <1>4. ASSUME NEW current \in Passwords, NEW next \in Passwords,
               ChangePassword(q, current, next)
        PROVE  CredentialsInv'
    <2>1. CASE Answer(q, "refused")
      BY <1>4, <2>1, NegativeInv DEF ChangePassword
    <2>2. CASE ~Answer(q, "refused")
      <3> DEFINE x == [req[q] EXCEPT !.pc = "rotating", !.op = "change",
                                     !.password = next]
      <3>1. /\ req' = [req EXCEPT ![q] = x] /\ UNCHANGED <<db, epoch>>
            /\ req[q].pc = "authenticated"
        BY <1>4, <2>2 DEF ChangePassword, Put
      <3>2. /\ x \in Request /\ x.pc = "rotating" /\ x.op = "change"
            /\ x.user = req[q].user /\ x.password = next
            /\ x.known = req[q].known /\ x.knownLinks = req[q].knownLinks
        BY <1>0 DEF Request, Pcs, Ops
      <3> HIDE DEF x
      <3>3. Shape(x) /\ Ending(x, sessions, links)
        BY <1>0, <3>1, <3>2 DEF Shape, Ending, Pursuing
      <3> QED
        BY <3>1, <3>2, <3>3, QuietInv
    <2> QED
      BY <2>1, <2>2
  <1> QED
    BY <1>1, <1>2, <1>3, <1>4 DEF SessionHandlers

LEMMA LinkInv ==
  ASSUME CredentialsInv, NEW q \in Reqs, LinkHandler(q)
  PROVE  CredentialsInv'
  <1>0. /\ TablesOK(sessions, links) /\ req[q] \in Request
        /\ Shape(req[q]) /\ Ending(req[q], sessions, links)
        /\ password \in [Users -> Passwords] /\ weak \in [Users -> BOOLEAN]
    BY TablesAreOK DEF CredentialsInv, TypeOK
  <1>1. ASSUME NEW u \in Users, RequestPasswordReset(q, u) PROVE CredentialsInv'
    <2>1. CASE Refuse(q)
      BY <2>1, RefuseInv
    <2>2. CASE ~Refuse(q)
      <3> DEFINE x == Arrival(u, "link", "linking")
      <3>1. req' = [req EXCEPT ![q] = x] /\ UNCHANGED <<db, epoch>>
        BY <1>1, <2>2 DEF RequestPasswordReset, Put
      <3>2. "link" \in Ops /\ "linking" \in Pcs
        BY DEF Ops, Pcs
      <3>3. /\ x \in Request /\ x.pc = "linking" /\ x.op = "link"
            /\ x.user = u /\ Ending(x, sessions, links)
        BY <3>2, ArrivalIsSound
      <3> HIDE DEF x
      <3>4. Shape(x)
        BY <3>3 DEF Shape
      <3> QED
        BY <3>1, <3>3, <3>4, QuietInv
    <2> QED
      BY <2>1, <2>2
  <1>2. ASSUME InvalidateLinks(q) PROVE CredentialsInv'
    <2> DEFINE x == [req[q] EXCEPT !.pc = "issuing",
                                   !.seenLinks = LiveLinks(req[q].user)]
    <2>1. /\ req' = [req EXCEPT ![q] = x] /\ UNCHANGED <<db, epoch>>
          /\ req[q].pc = "linking"
      BY <1>2 DEF InvalidateLinks, Put
    <2>2. LiveLinks(req[q].user) \subseteq LinkIds
      BY DEF LiveLinks
    <2>3. /\ x \in Request /\ x.pc = "issuing" /\ x.op = req[q].op
          /\ x.user = req[q].user /\ x.seenLinks = LiveLinks(req[q].user)
          /\ x.known = req[q].known /\ x.knownLinks = req[q].knownLinks
      BY <1>0, <2>2 DEF Request, Pcs
    <2> HIDE DEF x
    <2>4. \A k \in x.knownLinks \ x.seenLinks : links[k].state # "live"
      BY <1>0, <2>1, <2>3 DEF Ending, Pursuing, LiveLinks, Request
    <2>5. Shape(x) /\ Ending(x, sessions, links)
      BY <1>0, <2>1, <2>3, <2>4 DEF Shape, Ending, Pursuing
    <2> QED
      BY <2>1, <2>3, <2>5, QuietInv
  <1>3. ASSUME NEW k \in LinkIds, IssueLink(q, k) PROVE CredentialsInv'
    <2> DEFINE x == Answered(req[q], "ok")
               row == [state |-> "live", user |-> req[q].user, uses |-> 0]
               dead == Kill(links, req[q].seenLinks)
    <2>1. /\ req' = [req EXCEPT ![q] = x] /\ req[q].pc = "issuing"
          /\ links[k].state = "unused" /\ links' = [dead EXCEPT ![k] = row]
          /\ UNCHANGED <<password, weak, active, sessions, epoch>>
      BY <1>3, AnswerIsAnswered DEF IssueLink
    <2>2. /\ req[q].user \in Users /\ req[q].op = "link"
          /\ row \in LinkRow /\ row.uses = 0
      BY <1>0, <2>1 DEF Shape, LinkRow, RowStates
    <2>3. TablesOK(sessions, dead) /\ Evolves(links, dead)
      BY <1>0, KillTyped, KillEvolves
    <2>4. Evolves(links, links')
      BY <1>0, <2>1, <2>3 DEF Evolves, TablesOK, Kill
    <2>5. TablesOK(sessions', links')
      <3> HIDE DEF dead, row
      <3>1. links' \in [LinkIds -> LinkRow] /\ SpentIfUsed(links')
        BY <2>1, <2>2, <2>3 DEF TablesOK, SpentIfUsed
      <3>2. Owned(links')
        BY <2>1, <2>2, <2>3 DEF TablesOK, Owned, row
      <3> QED
        BY <1>0, <2>1, <3>1, <3>2 DEF TablesOK
    <2>6. Evolves(sessions, sessions')
      BY <2>1, EvolvesSame
    <2>7. Ending(req[q], sessions', links')
      <3>1. DOMAIN sessions = SessionIds /\ DOMAIN links = LinkIds
        BY <1>0 DEF TablesOK
      <3> QED
        BY <1>0, <2>4, <2>6, <3>1, EndingKept
    <2>8. \A j \in req[q].knownLinks : links'[j].state # "live"
      <3> SUFFICES ASSUME NEW j \in req[q].knownLinks PROVE links'[j].state # "live"
        OBVIOUS
      <3>1. j \in LinkIds /\ links[j].state # "unused" /\ j # k
        BY <1>0, <2>1 DEF Request, Ending
      <3>2. links'[j] = dead[j]
        BY <2>1, <2>3, <3>1 DEF TablesOK
      <3>3. j \in req[q].seenLinks \/ links[j].state # "live"
        BY <1>0, <2>1 DEF Ending
      <3> QED
        BY <1>0, <3>1, <3>2, <3>3 DEF Kill, TablesOK
    <2>9. x \in Request /\ x.pc = "done" /\ Shape(x) /\ Ending(x, sessions', links')
      <3>1. /\ \A s \in req[q].known : sessions'[s].state # "unused"
            /\ \A j \in req[q].knownLinks : links'[j].state # "unused"
            /\ "ok" \in Results
        BY <2>7 DEF Ending, Results
      <3> HIDE DEF dead, row
      <3> QED
        BY <1>0, <2>2, <2>8, <3>1, AnsweredIsSound
    <2> HIDE DEF x, dead, row
    <2> QED
      BY <1>0, <2>1, <2>4, <2>5, <2>9, <2>6, WriteInv
  <1> QED
    BY <1>1, <1>2, <1>3 DEF LinkHandler

\* Requests that start a rotation.
LEMMA EnterRotationInv ==
  ASSUME CredentialsInv, NEW q \in Reqs
  PROVE  /\ \A k \in LinkIds, next \in Passwords :
              ResetPassword(q, k, next) => CredentialsInv'
         /\ \A u \in Users : Deactivate(q, u) => CredentialsInv'
  <1>0. TablesOK(sessions, links)
    BY TablesAreOK
  <1>1. ASSUME NEW k \in LinkIds, NEW next \in Passwords, ResetPassword(q, k, next)
        PROVE  CredentialsInv'
    <2> DEFINE u == links[k].user
               y == Arrival(u, "reset", "rotating")
               x == [y EXCEPT !.password = next, !.link = k]
    <2>1. /\ req' = [req EXCEPT ![q] = x] /\ UNCHANGED <<db, epoch>>
          /\ links[k].state # "unused"
      BY <1>1 DEF ResetPassword, Put
    <2>2. u \in Users /\ "reset" \in Ops /\ "rotating" \in Pcs
      BY <1>0, <2>1 DEF TablesOK, Owned, Ops, Pcs
    <2>3. /\ y \in Request /\ y.pc = "rotating" /\ y.op = "reset"
          /\ y.user = u /\ y.known \subseteq LiveSessions(u)
          /\ y.knownLinks \subseteq LiveLinks(u)
      BY <2>2, ArrivalIsSound
    <2> HIDE DEF y, u
    <2>4. /\ x \in Request /\ x.pc = y.pc /\ x.op = y.op /\ x.user = y.user
          /\ x.known = y.known /\ x.knownLinks = y.knownLinks
          /\ x.password = next /\ x.link = k
      BY <2>3 DEF Request
    <2> HIDE DEF x
    <2>5. Shape(x) /\ Ending(x, sessions, links)
      BY <2>1, <2>2, <2>3, <2>4 DEF Shape, Ending, Pursuing, LiveSessions, LiveLinks, u
    <2> QED
      BY <2>1, <2>3, <2>4, <2>5, QuietInv
  <1>2. ASSUME NEW u \in Users, Deactivate(q, u) PROVE CredentialsInv'
    <2> DEFINE x == Arrival(u, "deactivate", "rotating")
    <2>1. req' = [req EXCEPT ![q] = x] /\ UNCHANGED <<db, epoch>>
      BY <1>2 DEF Deactivate, Put
    <2>2. "deactivate" \in Ops /\ "rotating" \in Pcs
      BY DEF Ops, Pcs
    <2>3. /\ x \in Request /\ x.pc = "rotating" /\ x.op = "deactivate"
          /\ x.user = u /\ Ending(x, sessions, links)
      BY <2>2, ArrivalIsSound
    <2> HIDE DEF x
    <2>4. Shape(x)
      BY <2>3 DEF Shape
    <2> QED
      BY <2>1, <2>3, <2>4, QuietInv
  <1> QED
    BY <1>1, <1>2

\* The statements see every row that is live, and take the lock.
LEMMA RotateInv ==
  ASSUME CredentialsInv, NEW q \in Reqs, Rotate(q)
  PROVE  CredentialsInv'
  <1>0. /\ TablesOK(sessions, links) /\ req[q] \in Request
        /\ req \in [Reqs -> Request] /\ epoch \in [Users -> 0..MaxRotations]
        /\ Shape(req[q]) /\ Ending(req[q], sessions, links) /\ Locked
    BY TablesAreOK DEF CredentialsInv, TypeOK
  <1>1. CASE Answer(q, "refused")
    BY <1>1, NegativeInv DEF Rotate
  <1>2. CASE ~Answer(q, "refused")
    <2> DEFINE u == req[q].user
               seenLinks == IF req[q].op = "reset" THEN LiveLinks(u) ELSE {}
               x == [req[q] EXCEPT !.pc = "committing", !.seen = LiveSessions(u),
                                   !.seenLinks = seenLinks]
    <2>1. /\ req' = [req EXCEPT ![q] = x] /\ UNCHANGED <<db, epoch>>
          /\ req[q].pc = "rotating" /\ ~RowLocked(u) /\ epoch[u] < MaxRotations
      BY <1>2, Rotate(q) DEF Rotate, Put
    <2>2. LiveSessions(u) \subseteq SessionIds /\ seenLinks \subseteq LinkIds
      BY DEF LiveSessions, LiveLinks
    <2>3. /\ x \in Request /\ x.pc = "committing" /\ x.op = req[q].op /\ x.user = u
          /\ x.password = req[q].password /\ x.link = req[q].link
          /\ x.seen = LiveSessions(u) /\ x.seenLinks = seenLinks
          /\ x.known = req[q].known /\ x.knownLinks = req[q].knownLinks
      <3> HIDE DEF seenLinks
      <3> QED
        BY <1>0, <2>2 DEF Request, Pcs
    <2> HIDE DEF x
    <2>4. /\ \A s \in x.known \ x.seen : sessions[s].state # "live"
          /\ x.op = "reset" => \A k \in x.knownLinks \ x.seenLinks : links[k].state # "live"
      BY <1>0, <2>1, <2>3 DEF Ending, Pursuing, LiveSessions, LiveLinks, Request
    <2>5. Shape(x) /\ Ending(x, sessions, links)
      BY <1>0, <2>1, <2>3, <2>4 DEF Shape, Ending, Pursuing
    <2>6. /\ UNCHANGED <<password, weak, active, sessions, links, epoch>>
          /\ Evolves(sessions, sessions') /\ Evolves(links, links')
      BY <2>1, EvolvesSame DEF db
    <2>7. /\ req' \in [Reqs -> Request]
          /\ \A p \in Reqs : Shape(req'[p]) /\ Ending(req'[p], sessions', links')
      BY <2>1, <2>3, <2>5, <2>6, SlotInv
    <2>8. Locked'
      <3>1. \A p \in Reqs : p # q => req'[p] = req[p]
        BY <1>0, <2>1
      <3>2. req'[q] = x
        BY <1>0, <2>1
      <3>3. \A p \in Reqs : Committing(p) => req[p].user # u
        BY <2>1 DEF RowLocked, Committing
      <3> QED
        BY <1>0, <2>1, <2>3, <3>1, <3>2, <3>3 DEF Locked, Committing
    <2>9. TypeOK'
      BY <2>6, <2>7 DEF CredentialsInv, TypeOK
    <2> QED
      BY <1>0, <2>6, <2>7, <2>8, <2>9 DEF CredentialsInv, TablesOK
  <1> QED
    BY <1>1, <1>2

\* What the commit makes of the links: those seen are dead, and the one presented
\* has been used once more, and for the first time.
Spend(ls, ids, k) == [Kill(ls, ids) EXCEPT ![k].state = "revoked", ![k].uses = @ + 1]

LEMMA SpendingIsSound ==
  ASSUME NEW ss, NEW ls, TablesOK(ss, ls), NEW ids,
         NEW k \in LinkIds, ~(ls[k].state \in {"revoked", "deleted"}),
         ls[k].state # "unused"
  PROVE  /\ TablesOK(ss, Spend(ls, ids, k)) /\ Evolves(ls, Spend(ls, ids, k))
         /\ \A j \in LinkIds : j \in ids \/ ls[j].state # "live"
                                => Spend(ls, ids, k)[j].state # "live"
  <1> DEFINE dead == Kill(ls, ids)
             spent == [dead EXCEPT ![k].state = "revoked", ![k].uses = @ + 1]
  <1>1. TablesOK(ss, dead) /\ Evolves(ls, dead) /\ DOMAIN ls = LinkIds
    BY KillTyped, KillEvolves DEF TablesOK
  <1>2. /\ ls[k].uses = 0 /\ dead[k].uses = 0 /\ dead[k] \in LinkRow
        /\ dead[k].user \in Users
    BY <1>1 DEF TablesOK, SpentIfUsed, Kill, LinkRow, Owned
  <1>3. \A j \in LinkIds : j \in ids \/ ls[j].state # "live" => dead[j].state # "live"
    BY <1>1 DEF Kill
  <1> HIDE DEF dead
  <1>4. /\ spent[k] \in LinkRow /\ spent[k].uses = 1 /\ spent[k].state = "revoked"
        /\ spent[k].user = dead[k].user
        /\ DOMAIN spent = LinkIds /\ \A j \in LinkIds \ {k} : spent[j] = dead[j]
    <2>1. DOMAIN spent = LinkIds /\ \A j \in LinkIds \ {k} : spent[j] = dead[j]
      BY <1>1 DEF TablesOK
    <2>2. spent[k] = [dead[k] EXCEPT !.state = "revoked", !.uses = 1]
      BY <1>1, <1>2 DEF TablesOK, LinkRow
    <2> HIDE DEF spent
    <2>3. "revoked" \in RowStates /\ 1 \in Nat
      BY DEF RowStates
    <2>4. /\ spent[k] \in LinkRow /\ spent[k].uses = 1 /\ spent[k].state = "revoked"
          /\ spent[k].user = dead[k].user
      BY <1>2, <2>2, <2>3 DEF LinkRow
    <2> QED
      BY <2>1, <2>4
  <1>5. spent \in [LinkIds -> LinkRow]
    BY <1>1, <1>4 DEF TablesOK
  <1> HIDE DEF spent
  <1>6. Owned(spent) /\ SpentIfUsed(spent)
    BY <1>1, <1>2, <1>4 DEF TablesOK, Owned, SpentIfUsed
  <1>7. Evolves(ls, spent)
    BY <1>1, <1>4 DEF Evolves
  <1>8. spent = Spend(ls, ids, k)
    BY DEF Spend, spent, dead
  <1>9. \A j \in LinkIds : j \in ids \/ ls[j].state # "live" => spent[j].state # "live"
    BY <1>3, <1>4
  <1> QED
    BY <1>1, <1>5, <1>6, <1>7, <1>8, <1>9 DEF TablesOK

LEMMA RotateCommitInv ==
  ASSUME CredentialsInv, NEW q \in Reqs, RotateCommit(q)
  PROVE  CredentialsInv'
  <1>0. /\ TablesOK(sessions, links) /\ req[q] \in Request
        /\ req \in [Reqs -> Request] /\ epoch \in [Users -> 0..MaxRotations]
        /\ password \in [Users -> Passwords] /\ weak \in [Users -> BOOLEAN]
        /\ active \in [Users -> BOOLEAN]
        /\ Shape(req[q]) /\ Ending(req[q], sessions, links) /\ Locked
    BY TablesAreOK DEF CredentialsInv, TypeOK
  <1> DEFINE u == req[q].user
             k == req[q].link
             lost == req[q].op = "reset" /\ Spent(k)
             spent == Spend(links, req[q].seenLinks, k)
             x == Answered(req[q], "ok")
  <1>1. CASE lost
    BY <1>1, NegativeInv DEF RotateCommit
  <1>2. CASE ~lost
    <2>1. /\ req' = [req EXCEPT ![q] = x] /\ req[q].pc = "committing"
          /\ sessions' = Kill(sessions, req[q].seen)
          /\ links' = IF req[q].op = "reset" THEN spent ELSE links
          /\ epoch' = [epoch EXCEPT ![u] = @ + 1]
      BY <1>2, AnswerIsAnswered DEF RotateCommit, Spend
    <2>2. /\ u \in Users /\ req[q].op \in {"change", "reset", "deactivate"}
          /\ req[q].op # "deactivate" => req[q].password \in Passwords
          /\ epoch[u] < MaxRotations
      BY <1>0, <2>1 DEF Shape, Locked, Committing
    <2>3. /\ password' \in [Users -> Passwords] /\ weak' \in [Users -> BOOLEAN]
          /\ active' \in [Users -> BOOLEAN]
      BY <1>0, <1>2, <2>2 DEF RotateCommit
    <2>4. /\ TablesOK(Kill(sessions, req[q].seen), links)
          /\ Evolves(sessions, Kill(sessions, req[q].seen))
      BY <1>0, KillTyped, KillEvolves
    <2>5. /\ TablesOK(sessions', links') /\ Evolves(links, links')
          /\ req[q].op = "reset" => \A j \in LinkIds :
               j \in req[q].seenLinks \/ links[j].state # "live" => links'[j].state # "live"
      <3>1. CASE req[q].op = "reset"
        <4>1. k \in LinkIds /\ links[k].state \notin {"unused", "revoked", "deleted"}
          BY <1>0, <1>2, <2>1, <3>1 DEF Spent, Ending
        <4>2. /\ TablesOK(Kill(sessions, req[q].seen), spent) /\ Evolves(links, spent)
              /\ \A j \in LinkIds : j \in req[q].seenLinks \/ links[j].state # "live"
                                     => spent[j].state # "live"
          BY <2>4, <4>1, SpendingIsSound
        <4>3. links' = spent
          BY <2>1, <3>1
        <4> HIDE DEF spent
        <4> QED
          BY <2>1, <4>2, <4>3
      <3>2. CASE req[q].op # "reset"
        BY <2>1, <2>4, <3>2, EvolvesSame
      <3> QED
        BY <3>1, <3>2
    <2> HIDE DEF spent
    <2>6. /\ \A s \in req[q].known : /\ sessions'[s].state # "unused"
                                     /\ sessions'[s].state # "live"
          /\ \A j \in req[q].knownLinks : links'[j].state # "unused"
          /\ req[q].op = "reset" => \A j \in req[q].knownLinks : links'[j].state # "live"
      <3>1. /\ DOMAIN sessions = SessionIds
            /\ req[q].known \subseteq SessionIds /\ req[q].knownLinks \subseteq LinkIds
            /\ DOMAIN links = LinkIds
        BY <1>0 DEF TablesOK, Request
      <3>2. \A s \in req[q].known : /\ sessions'[s].state # "unused"
                                    /\ sessions'[s].state # "live"
        <4>1. \A s \in req[q].known : /\ s \in SessionIds
                                      /\ sessions[s].state # "unused"
                                      /\ s \in req[q].seen \/ sessions[s].state # "live"
          BY <1>0, <2>1, <3>1 DEF Ending
        <4>2. \A s \in SessionIds : s \in req[q].seen \/ sessions[s].state # "live"
                                    => sessions'[s].state # "live"
          BY <1>0, <2>1, <3>1 DEF Kill, TablesOK, SessionRow
        <4>3. \A s \in SessionIds : sessions[s].state # "unused"
                                    => sessions'[s].state # "unused"
          BY <2>1, <2>4, <3>1 DEF Evolves
        <4> QED
          BY <4>1, <4>2, <4>3
      <3>3. \A j \in req[q].knownLinks : links'[j].state # "unused"
        BY <1>0, <2>5, <3>1 DEF Ending, Evolves
      <3>4. ASSUME req[q].op = "reset", NEW j \in req[q].knownLinks
            PROVE  links'[j].state # "live"
        <4>1. j \in LinkIds /\ (j \in req[q].seenLinks \/ links[j].state # "live")
          BY <1>0, <2>1, <3>1, <3>4 DEF Ending
        <4> QED
          BY <2>5, <3>4, <4>1
      <3> QED
        BY <3>2, <3>3, <3>4
    <2>7. x \in Request /\ x.pc = "done" /\ Shape(x) /\ Ending(x, sessions', links')
      BY <1>0, <2>2, <2>6, AnsweredIsSound DEF Results
    <2> HIDE DEF x
    <2>8. /\ req' \in [Reqs -> Request]
          /\ \A p \in Reqs : Shape(req'[p]) /\ Ending(req'[p], sessions', links')
      BY <2>1, <2>4, <2>5, <2>7, SlotInv
    <2>9. epoch' \in [Users -> 0..MaxRotations]
      BY <1>0, <2>1, <2>2, CredentialsAssumption
    <2>10. Locked'
      <3>1. \A p \in Reqs : Committing(p)' =>
              Committing(p) /\ p # q /\ req'[p] = req[p]
        BY <1>0, <2>1, <2>7 DEF Committing
      <3>2. \A p \in Reqs : Committing(p)' =>
              req[p].user # u /\ epoch'[req[p].user] = epoch[req[p].user]
        BY <1>0, <2>1, <2>2, <3>1 DEF Locked, Committing
      <3> QED
        BY <1>0, <3>1, <3>2 DEF Locked
    <2>11. TypeOK'
      BY <2>3, <2>5, <2>8, <2>9 DEF TypeOK, TablesOK
    <2> QED
      BY <2>5, <2>8, <2>10, <2>11 DEF CredentialsInv, TablesOK
  <1> QED
    BY <1>1, <1>2

-----------------------------------------------------------------------------
(* The theorems. *)

LEMMA InitInv == Init => CredentialsInv
  <1> SUFFICES ASSUME Init PROVE CredentialsInv
    OBVIOUS
  <1>1. req \in [Reqs -> Request] /\ \A q \in Reqs : req[q] = Idle
    BY IdleIsSound DEF Init
  <1>2. TypeOK
    BY <1>1, CredentialsAssumption
       DEF Init, TypeOK, SessionRow, LinkRow, RowStates
  <1>3. \A q \in Reqs : Shape(req[q]) /\ Ending(req[q], sessions, links)
    BY <1>1, IdleIsSound
  <1>4. Owned(sessions) /\ Owned(links) /\ SpentIfUsed(links)
    BY DEF Init, Owned, SpentIfUsed
  <1>5. Locked
    BY <1>1 DEF Locked, Committing, Idle
  <1> QED
    BY <1>2, <1>3, <1>4, <1>5 DEF CredentialsInv

LEMMA NextInv == CredentialsInv /\ [Next]_vars => CredentialsInv'
  <1> SUFFICES ASSUME CredentialsInv, [Next]_vars PROVE CredentialsInv'
    OBVIOUS
  <1>1. ASSUME NEW q \in Reqs, LoginHandler(q) PROVE CredentialsInv'
    BY <1>1, LoginInv
  <1>2. ASSUME NEW q \in Reqs, SessionHandlers(q) PROVE CredentialsInv'
    BY <1>2, SessionInv
  <1>3. ASSUME NEW q \in Reqs, Rotations(q) PROVE CredentialsInv'
    BY <1>3, EnterRotationInv, RotateInv, RotateCommitInv DEF Rotations
  <1>4. ASSUME NEW q \in Reqs, LinkHandler(q) PROVE CredentialsInv'
    BY <1>4, LinkInv
  <1>5. ASSUME NEW q \in Reqs, Finish(q) PROVE CredentialsInv'
    <2>1. req' = [req EXCEPT ![q] = Idle] /\ UNCHANGED <<db, epoch>>
      BY <1>5 DEF Finish, Put
    <2>2. /\ Idle \in Request /\ Idle.pc # "committing"
          /\ Shape(Idle) /\ Ending(Idle, sessions, links)
      BY IdleIsSound DEF Idle
    <2> QED
      BY <2>1, <2>2, QuietInv
  <1>6. ASSUME Background PROVE CredentialsInv'
    BY <1>6, BackgroundInv
  <1>7. CASE UNCHANGED vars
    <2>1. /\ UNCHANGED <<password, weak, active, epoch, req, sessions, links>>
          /\ active \in [Users -> BOOLEAN] /\ TablesOK(sessions, links)
      BY <1>7, TablesAreOK DEF vars, db, CredentialsInv, TypeOK
    <2> QED
      BY <2>1, EvolvesSame, BackgroundStepInv
  <1> QED
    BY <1>1, <1>2, <1>3, <1>4, <1>5, <1>6, <1>7 DEF Next

LEMMA CredentialsInvariant == Spec => []CredentialsInv
  <1>1. CredentialsInv /\ [Next]_vars => CredentialsInv'
    BY NextInv
  <1> QED
    BY InitInv, <1>1, PTL DEF Spec

\* Type correctness: users, sessions, links and requests stay in their types, and no
\* user is rotated beyond the bound.
THEOREM CredentialsTypeCorrect == Spec => []TypeOK
  <1>1. CredentialsInv => TypeOK
    BY DEF CredentialsInv
  <1> QED
    BY CredentialsInvariant, <1>1, PTL

\* Whoever is told that the password was changed or reset, or the user deactivated,
\* finds no session alive that was open when they asked, however many requests run
\* (password_reset.go:132-138, service.go:272-275, 351-357).
THEOREM OldSessionsAlwaysDie == Spec => []OldSessionsDie
  <1>1. CredentialsInv => OldSessionsDie
    BY DEF CredentialsInv, Ending, OldSessionsDie, Rotated
  <1> QED
    BY CredentialsInvariant, <1>1, PTL

\* When the new link is mailed, or the reset answered, no link is alive that was out
\* when it was asked for (password_reset.go:71-73, 168-170).
THEOREM OldLinksAlwaysDie == Spec => []OldLinksDie
  <1>1. CredentialsInv => OldLinksDie
    BY DEF CredentialsInv, Ending, OldLinksDie
  <1> QED
    BY CredentialsInvariant, <1>1, PTL

\* One link sets one password, however many requests present it at once
\* (repository.go:448-452).
THEOREM LinksAreUsedOnce == Spec => []LinkUsedOnce
  <1>1. CredentialsInv => LinkUsedOnce
    BY DEF CredentialsInv, SpentIfUsed, LinkUsedOnce
  <1> QED
    BY CredentialsInvariant, <1>1, PTL

-----------------------------------------------------------------------------
(* Requests served one at a time. *)

\* At most one request is in flight.
Serial == \A p, q \in Reqs : p = q

\* What a request in flight has read is still so: a login's password and epoch, and
\* the rows that a rotation or a new link is about to kill, which are all there are.
InStep(x, pw, ss, ls, ep) ==
    /\ x.pc \in {"verified", "entering"} =>
         x.password = pw[x.user] /\ x.epoch = ep[x.user]
    /\ x.pc = "committing" =>
         \A s \in SessionIds : ss[s].state = "live" /\ ss[s].user = x.user => s \in x.seen
    /\ x.pc = "issuing" =>
         \A k \in LinkIds : ls[k].state = "live" /\ ls[k].user = x.user => k \in x.seenLinks

Fresh(ss, ep) ==
    \A s \in SessionIds : ss[s].state = "live" => ss[s].epoch = ep[ss[s].user]

SingleLive(ls) ==
    \A j, k \in LinkIds :
        ls[j].state = "live" /\ ls[k].state = "live" /\ ls[j].user = ls[k].user => j = k

SerialInv ==
    /\ Fresh(sessions, epoch) /\ SingleLive(links)
    /\ \A q \in Reqs : InStep(req[q], password, sessions, links, epoch)

\* No row comes to life, and one that lives is as it was.
Dwindles(old, new) == \A i \in DOMAIN old : new[i].state = "live" => new[i] = old[i]

LEMMA KillDwindles ==
  ASSUME NEW rows, NEW ids
  PROVE  Dwindles(rows, Kill(rows, ids))
  BY DEF Dwindles, Kill

LEMMA PruneDwindles ==
  ASSUME NEW rows
  PROVE  Dwindles(rows, Prune(rows))
  BY DEF Dwindles, Prune, Dead

LEMMA DwindlesSame == \A rows : Dwindles(rows, rows)
  BY DEF Dwindles

LEMMA InStepKept ==
  ASSUME NEW ss, NEW ls, DOMAIN ss = SessionIds, DOMAIN ls = LinkIds,
         NEW ss2, NEW ls2, Dwindles(ss, ss2), Dwindles(ls, ls2),
         NEW x, NEW pw, NEW ep, InStep(x, pw, ss, ls, ep)
  PROVE  InStep(x, pw, ss2, ls2, ep)
  BY DEF InStep, Dwindles

LEMMA TablesDwindle ==
  ASSUME CredentialsInv, SerialInv, UNCHANGED epoch,
         Dwindles(sessions, sessions'), Dwindles(links, links')
  PROVE  Fresh(sessions', epoch') /\ SingleLive(links')
  <1>1. DOMAIN sessions = SessionIds /\ DOMAIN links = LinkIds
    BY DEF CredentialsInv, TypeOK
  <1> QED
    BY <1>1 DEF SerialInv, Fresh, SingleLive, Dwindles

LEMMA OneSlot ==
  ASSUME Serial, NEW q \in Reqs
  PROVE  \A p \in Reqs : p = q
  BY DEF Serial

\* A step of the only request that brings no row to life.
LEMMA DwindlingStep ==
  ASSUME CredentialsInv, SerialInv, Serial, NEW q \in Reqs, NEW x, req'[q] = x,
         Dwindles(sessions, sessions'), Dwindles(links, links'), UNCHANGED epoch,
         InStep(x, password', sessions', links', epoch')
  PROVE  SerialInv'
  BY TablesDwindle, OneSlot DEF SerialInv

\* The answer to a request, and a refusal.
LEMMA AnswerInStep ==
  ASSUME CredentialsInv, NEW q \in Reqs, NEW result, Answer(q, result) \/ Refuse(q),
         NEW pw, NEW ss, NEW ls, NEW ep
  PROVE  InStep(req'[q], pw, ss, ls, ep)
  <1>1. ASSUME Answer(q, result) PROVE req'[q].pc = "done"
    <2>1. req'[q] = Answered(req[q], result)
      BY <1>1, AnswerIsAnswered DEF CredentialsInv, TypeOK
    <2> QED
      BY <2>1 DEF Answered, Idle
  <1>2. ASSUME Refuse(q) PROVE req'[q].pc = "done"
    BY <1>2 DEF Refuse, Put, Idle, CredentialsInv, TypeOK
  <1> QED
    BY <1>1, <1>2 DEF InStep

\* A step that only answers.
LEMMA AnswerSerial ==
  ASSUME CredentialsInv, SerialInv, Serial, NEW q \in Reqs, NEW result,
         Answer(q, result) \/ Refuse(q), UNCHANGED epoch,
         Dwindles(sessions, sessions'), Dwindles(links, links')
  PROVE  SerialInv'
  <1>1. InStep(req'[q], password', sessions', links', epoch')
    BY AnswerInStep
  <1> QED
    BY <1>1, DwindlingStep

\* A step that asks, and writes nothing.
LEMMA AskSerial ==
  ASSUME CredentialsInv, SerialInv, Serial, NEW q \in Reqs, UNCHANGED <<db, epoch>>,
         \/ Refuse(q)
         \/ Answer(q, "refused")
         \/ \E x : /\ req' = [req EXCEPT ![q] = x]
                   /\ InStep(x, password, sessions, links, epoch)
  PROVE  SerialInv'
  <1>1. /\ UNCHANGED <<password, sessions, links, epoch>>
        /\ Dwindles(sessions, sessions') /\ Dwindles(links, links')
    BY DwindlesSame DEF db
  <1>2. CASE Refuse(q) \/ Answer(q, "refused")
    BY <1>1, <1>2, AnswerSerial
  <1>3. CASE \E x : /\ req' = [req EXCEPT ![q] = x]
                    /\ InStep(x, password, sessions, links, epoch)
    <2>1. PICK x : /\ req' = [req EXCEPT ![q] = x]
                   /\ InStep(x, password, sessions, links, epoch)
      BY <1>3
    <2>2. req'[q] = x
      BY <2>1 DEF CredentialsInv, TypeOK
    <2>3. InStep(x, password', sessions', links', epoch')
      BY <1>1, <2>1
    <2> QED
      BY <1>1, <2>2, <2>3, DwindlingStep
  <1> QED
    BY <1>2, <1>3

LEMMA LoginSerial ==
  ASSUME CredentialsInv, SerialInv, Serial, NEW q \in Reqs, LoginHandler(q)
  PROVE  SerialInv'
  <1>0. /\ TablesOK(sessions, links) /\ req[q] \in Request /\ req \in [Reqs -> Request]
        /\ Shape(req[q]) /\ InStep(req[q], password, sessions, links, epoch)
        /\ password \in [Users -> Passwords]
    BY TablesAreOK DEF CredentialsInv, TypeOK, SerialInv
  <1>1. ASSUME NEW u \in Users, NEW p \in Passwords, LoginVerify(q, u, p)
        PROVE  SerialInv'
    <2> DEFINE x == [Idle EXCEPT !.pc = "verified", !.op = "login", !.user = u,
                       !.password = p, !.rehash = weak[u], !.epoch = epoch[u]]
    <2>1. UNCHANGED <<db, epoch>>
      BY <1>1 DEF LoginVerify, Refuse
    <2>2. CASE Refuse(q)
      BY <2>1, <2>2, AskSerial
    <2>3. CASE password[u] = p /\ req' = [req EXCEPT ![q] = x]
      <3>1. x.pc = "verified" /\ x.user = u /\ x.password = p /\ x.epoch = epoch[u]
        BY DEF Idle
      <3> HIDE DEF x
      <3>2. InStep(x, password, sessions, links, epoch)
        BY <2>3, <3>1 DEF InStep
      <3> QED
        BY <2>1, <2>3, <3>2, AskSerial
    <2> QED
      BY <1>1, <2>2, <2>3 DEF LoginVerify, Put
  <1>2. ASSUME LoginRehash(q) PROVE SerialInv'
    <2>1. /\ req[q].pc = "verified" /\ req' = [req EXCEPT ![q] = [req[q] EXCEPT !.pc = "entering"]]
          /\ UNCHANGED <<sessions, links, epoch>>
      BY <1>2 DEF LoginRehash, Put
    <2>2. req[q].password = password[req[q].user] /\ req[q].epoch = epoch[req[q].user]
      BY <1>0, <2>1 DEF InStep
    <2>3. password' = password
      BY <1>0, <1>2, <2>2 DEF LoginRehash
    <2>4. PICK x : x = req'[q]
      OBVIOUS
    <2>5. /\ x.pc = "entering" /\ x.user = req[q].user
          /\ x.password = req[q].password /\ x.epoch = req[q].epoch
      BY <1>0, <2>1, <2>4 DEF Request
    <2>6. InStep(x, password', sessions', links', epoch')
      BY <2>1, <2>2, <2>3, <2>5 DEF InStep
    <2> QED
      BY <2>1, <2>4, <2>6, DwindlesSame, DwindlingStep
  <1>3. ASSUME NEW s \in SessionIds, LoginOpen(q, s) PROVE SerialInv'
    <2>1. /\ req[q].pc = "entering" /\ Answer(q, "ok")
          /\ sessions' = [sessions EXCEPT ![s] = [state |-> "live", user |-> req[q].user,
                                                  epoch |-> req[q].epoch]]
          /\ UNCHANGED <<password, links, epoch>>
      BY <1>3 DEF LoginOpen
    <2>2. req[q].epoch = epoch[req[q].user]
      BY <1>0, <2>1 DEF InStep
    <2>3. Fresh(sessions', epoch')
      BY <1>0, <2>1, <2>2 DEF Fresh, SerialInv, TablesOK
    <2>4. InStep(req'[q], password', sessions', links', epoch')
      BY <2>1, AnswerInStep
    <2> QED
      BY <2>1, <2>3, <2>4, OneSlot DEF SerialInv
  <1> QED
    BY <1>1, <1>2, <1>3 DEF LoginHandler

LEMMA SessionSerial ==
  ASSUME CredentialsInv, SerialInv, Serial, NEW q \in Reqs, SessionHandlers(q)
  PROVE  SerialInv'
  <1>0. req[q] \in Request
    BY DEF CredentialsInv, TypeOK
  <1>1. ASSUME NEW s \in SessionIds, Authenticate(q, s) PROVE SerialInv'
    <2> DEFINE x == [Arrival(sessions[s].user, "manage", "authenticated") EXCEPT !.session = s]
    <2>1. UNCHANGED <<db, epoch>> /\ (Refuse(q) \/ req' = [req EXCEPT ![q] = x])
      BY <1>1 DEF Authenticate, Refuse, Put
    <2>2. x.pc = "authenticated"
      BY DEF Arrival, Idle
    <2>3. InStep(x, password, sessions, links, epoch)
      BY <2>2 DEF InStep
    <2> HIDE DEF x
    <2> QED
      BY <2>1, <2>3, AskSerial
  <1>2. ASSUME NEW result, Answer(q, result), UNCHANGED <<links, epoch>>,
               \E ids : sessions' = sessions \/ sessions' = Kill(sessions, ids)
        PROVE  SerialInv'
    <2>1. Dwindles(sessions, sessions') /\ Dwindles(links, links')
      BY <1>2, KillDwindles, DwindlesSame
    <2> QED
      BY <1>2, <2>1, AnswerSerial
  <1>3. ASSUME Logout(q) PROVE SerialInv'
    BY <1>2, <1>3 DEF Logout
  <1>4. ASSUME NEW s \in SessionIds, RevokeSession(q, s) PROVE SerialInv'
    BY <1>2, <1>4 DEF RevokeSession
  <1>5. ASSUME NEW current \in Passwords, NEW next \in Passwords,
               ChangePassword(q, current, next)
        PROVE  SerialInv'
    <2> DEFINE x == [req[q] EXCEPT !.pc = "rotating", !.op = "change", !.password = next]
    <2>1. UNCHANGED <<db, epoch>> /\ (Answer(q, "refused") \/ req' = [req EXCEPT ![q] = x])
      BY <1>5 DEF ChangePassword, Put
    <2>2. x.pc = "rotating"
      BY <1>0 DEF Request
    <2>3. InStep(x, password, sessions, links, epoch)
      BY <2>2 DEF InStep
    <2> HIDE DEF x
    <2> QED
      BY <2>1, <2>3, AskSerial
  <1> QED
    BY <1>1, <1>3, <1>4, <1>5 DEF SessionHandlers

LEMMA RotateCommitSerial ==
  ASSUME CredentialsInv, SerialInv, Serial, NEW q \in Reqs, RotateCommit(q)
  PROVE  SerialInv'
  <1> DEFINE u == req[q].user
             k == req[q].link
             dead == Kill(links, req[q].seenLinks)
             lost == req[q].op = "reset" /\ Spent(k)
  <1>0. /\ TablesOK(sessions, links) /\ epoch \in [Users -> 0..MaxRotations]
        /\ Shape(req[q]) /\ InStep(req[q], password, sessions, links, epoch)
        /\ req[q].pc = "committing" /\ DOMAIN links = LinkIds
    BY TablesAreOK DEF CredentialsInv, TypeOK, SerialInv, RotateCommit
  <1>1. CASE lost
    <2>1. Answer(q, "refused") /\ UNCHANGED <<db, epoch>>
      BY <1>1 DEF RotateCommit
    <2> QED
      BY <2>1, AskSerial
  <1>2. CASE ~lost
    <2>1. /\ sessions' = Kill(sessions, req[q].seen) /\ Answer(q, "ok")
          /\ links' = IF req[q].op = "reset"
                      THEN [dead EXCEPT ![k].state = "revoked", ![k].uses = @ + 1]
                      ELSE links
          /\ epoch' = [epoch EXCEPT ![u] = @ + 1]
      BY <1>2 DEF RotateCommit
    <2>2. Dwindles(links, links')
      <3>1. CASE req[q].op = "reset"
        <4>1. ASSUME NEW i \in LinkIds, links'[i].state = "live" PROVE links'[i] = links[i]
          <5>1. i # k
            <6>1. ASSUME i = k PROVE links'[i].state = "revoked"
              BY <1>0, <2>1, <3>1, <6>1 DEF Kill, TablesOK, LinkRow
            <6> QED
              BY <4>1, <6>1
          <5>2. links'[i] = dead[i]
            BY <2>1, <3>1, <5>1, <1>0 DEF Kill
          <5> QED
            BY <1>0, <4>1, <5>2 DEF Kill, TablesOK, LinkRow
        <4> QED
          BY <1>0, <4>1 DEF Dwindles
      <3>2. CASE req[q].op # "reset"
        BY <2>1, <3>2, DwindlesSame
      <3> QED
        BY <3>1, <3>2
    <2>3. SingleLive(links')
      BY <1>0, <2>2 DEF SerialInv, SingleLive, Dwindles
    <2>4. Fresh(sessions', epoch')
      <3> SUFFICES ASSUME NEW s \in SessionIds, sessions'[s].state = "live"
                   PROVE  sessions'[s].epoch = epoch'[sessions'[s].user]
        BY DEF Fresh
      <3>1. /\ sessions'[s] = sessions[s] /\ sessions[s].state = "live"
            /\ s \notin req[q].seen
        BY <1>0, <2>1 DEF Kill, TablesOK, SessionRow
      <3>2. sessions[s].user \in Users /\ sessions[s].user # u
        BY <1>0, <3>1 DEF InStep, TablesOK, Owned
      <3>3. epoch'[sessions[s].user] = epoch[sessions[s].user]
        BY <1>0, <2>1, <3>2
      <3> QED
        BY <3>1, <3>3 DEF SerialInv, Fresh
    <2>5. InStep(req'[q], password', sessions', links', epoch')
      BY <2>1, AnswerInStep
    <2> QED
      BY <2>3, <2>4, <2>5, OneSlot DEF SerialInv
  <1> QED
    BY <1>1, <1>2

LEMMA RotationsSerial ==
  ASSUME CredentialsInv, SerialInv, Serial, NEW q \in Reqs, Rotations(q)
  PROVE  SerialInv'
  <1>0. req[q] \in Request
    BY DEF CredentialsInv, TypeOK
  <1>1. ASSUME NEW k \in LinkIds, NEW next \in Passwords, ResetPassword(q, k, next)
        PROVE  SerialInv'
    <2> DEFINE x == [Arrival(links[k].user, "reset", "rotating") EXCEPT
                       !.password = next, !.link = k]
    <2>1. UNCHANGED <<db, epoch>> /\ req' = [req EXCEPT ![q] = x]
      BY <1>1 DEF ResetPassword, Put
    <2>2. x.pc = "rotating"
      BY DEF Arrival, Idle
    <2>3. InStep(x, password, sessions, links, epoch)
      BY <2>2 DEF InStep
    <2> HIDE DEF x
    <2> QED
      BY <2>1, <2>3, AskSerial
  <1>2. ASSUME NEW u \in Users, Deactivate(q, u) PROVE SerialInv'
    <2> DEFINE x == Arrival(u, "deactivate", "rotating")
    <2>1. UNCHANGED <<db, epoch>> /\ req' = [req EXCEPT ![q] = x]
      BY <1>2 DEF Deactivate, Put
    <2>2. x.pc = "rotating"
      BY DEF Arrival, Idle
    <2>3. InStep(x, password, sessions, links, epoch)
      BY <2>2 DEF InStep
    <2> HIDE DEF x
    <2> QED
      BY <2>1, <2>3, AskSerial
  <1>3. ASSUME Rotate(q) PROVE SerialInv'
    <2> DEFINE u == req[q].user
               seenLinks == IF req[q].op = "reset" THEN LiveLinks(u) ELSE {}
               x == [req[q] EXCEPT !.pc = "committing", !.seen = LiveSessions(u),
                                   !.seenLinks = seenLinks]
    <2>1. UNCHANGED <<db, epoch>> /\ (Answer(q, "refused") \/ req' = [req EXCEPT ![q] = x])
      BY <1>3 DEF Rotate, Put
    <2>2. x.pc = "committing" /\ x.user = u /\ x.seen = LiveSessions(u)
      BY <1>0 DEF Request
    <2> HIDE DEF x
    <2>3. InStep(x, password, sessions, links, epoch)
      BY <2>2 DEF InStep, LiveSessions
    <2> QED
      BY <2>1, <2>3, AskSerial
  <1> QED
    BY <1>1, <1>2, <1>3, RotateCommitSerial DEF Rotations

LEMMA LinkSerial ==
  ASSUME CredentialsInv, SerialInv, Serial, NEW q \in Reqs, LinkHandler(q)
  PROVE  SerialInv'
  <1>0. /\ req[q] \in Request /\ links \in [LinkIds -> LinkRow]
        /\ InStep(req[q], password, sessions, links, epoch)
    BY DEF CredentialsInv, TypeOK, SerialInv
  <1>1. ASSUME NEW u \in Users, RequestPasswordReset(q, u) PROVE SerialInv'
    <2> DEFINE x == Arrival(u, "link", "linking")
    <2>1. UNCHANGED <<db, epoch>> /\ (Refuse(q) \/ req' = [req EXCEPT ![q] = x])
      BY <1>1 DEF RequestPasswordReset, Put, Refuse
    <2>2. x.pc = "linking"
      BY DEF Arrival, Idle
    <2>3. InStep(x, password, sessions, links, epoch)
      BY <2>2 DEF InStep
    <2> HIDE DEF x
    <2> QED
      BY <2>1, <2>3, AskSerial
  <1>2. ASSUME InvalidateLinks(q) PROVE SerialInv'
    <2> DEFINE u == req[q].user
               x == [req[q] EXCEPT !.pc = "issuing", !.seenLinks = LiveLinks(u)]
    <2>1. UNCHANGED <<db, epoch>> /\ req' = [req EXCEPT ![q] = x]
      BY <1>2 DEF InvalidateLinks, Put
    <2>2. x.pc = "issuing" /\ x.user = u /\ x.seenLinks = LiveLinks(u)
      BY <1>0 DEF Request
    <2> HIDE DEF x
    <2>3. InStep(x, password, sessions, links, epoch)
      BY <2>2 DEF InStep, LiveLinks
    <2> QED
      BY <2>1, <2>3, AskSerial
  <1>3. ASSUME NEW k \in LinkIds, IssueLink(q, k) PROVE SerialInv'
    <2> DEFINE u == req[q].user
    <2>1. /\ req[q].pc = "issuing" /\ Answer(q, "ok") /\ UNCHANGED <<sessions, epoch>>
          /\ links' = [Kill(links, req[q].seenLinks) EXCEPT
                         ![k] = [state |-> "live", user |-> u, uses |-> 0]]
      BY <1>3 DEF IssueLink
    <2>2. links'[k].user = u
      BY <1>0, <2>1 DEF Kill
    <2>3. ASSUME NEW j \in LinkIds, j # k, links'[j].state = "live"
          PROVE  links'[j] = links[j] /\ links[j].state = "live" /\ links[j].user # u
      <3>1. /\ links'[j] = links[j] /\ links[j].state = "live"
            /\ j \notin req[q].seenLinks
        BY <1>0, <2>1, <2>3 DEF Kill, LinkRow
      <3> QED
        BY <1>0, <2>1, <3>1 DEF InStep
    <2>4. SingleLive(links')
      <3> SUFFICES ASSUME NEW i \in LinkIds, NEW j \in LinkIds,
                          links'[i].state = "live", links'[j].state = "live",
                          links'[i].user = links'[j].user
                   PROVE  i = j
        BY DEF SingleLive
      <3>1. CASE i = k \/ j = k
        BY <2>2, <2>3, <3>1
      <3>2. CASE i # k /\ j # k
        BY <2>3, <3>2 DEF SerialInv, SingleLive
      <3> QED
        BY <3>1, <3>2
    <2>5. InStep(req'[q], password', sessions', links', epoch')
      BY <2>1, AnswerInStep
    <2>6. Fresh(sessions', epoch')
      BY <2>1 DEF SerialInv
    <2> QED
      BY <2>4, <2>5, <2>6, OneSlot DEF SerialInv
  <1> QED
    BY <1>1, <1>2, <1>3 DEF LinkHandler

LEMMA BackgroundSerial ==
  ASSUME CredentialsInv, SerialInv, Background
  PROVE  SerialInv'
  <1>0. sessions \in [SessionIds -> SessionRow] /\ links \in [LinkIds -> LinkRow]
    BY DEF CredentialsInv, TypeOK
  <1>1. UNCHANGED <<password, epoch, req>>
    BY DEF Background, Reactivate, ExpireSession, ExpireLink, CleanupSessions,
       CleanupPasswordResets
  <1>2. Dwindles(sessions, sessions')
    <2>1. ASSUME NEW s \in SessionIds, ExpireSession(s) PROVE Dwindles(sessions, sessions')
      BY <1>0, <2>1 DEF ExpireSession, Dwindles, SessionRow
    <2>2. ASSUME CleanupSessions PROVE Dwindles(sessions, sessions')
      BY <2>2, PruneDwindles DEF CleanupSessions
    <2> QED
      BY <2>1, <2>2, DwindlesSame DEF Background, Reactivate, ExpireLink,
         CleanupPasswordResets
  <1>3. Dwindles(links, links')
    <2>1. ASSUME NEW k \in LinkIds, ExpireLink(k) PROVE Dwindles(links, links')
      BY <1>0, <2>1 DEF ExpireLink, Dwindles, LinkRow
    <2>2. ASSUME CleanupPasswordResets PROVE Dwindles(links, links')
      BY <2>2, PruneDwindles DEF CleanupPasswordResets
    <2> QED
      BY <2>1, <2>2, DwindlesSame DEF Background, Reactivate, ExpireSession,
         CleanupSessions
  <1>4. Fresh(sessions', epoch') /\ SingleLive(links')
    BY <1>1, <1>2, <1>3, TablesDwindle
  <1>5. ASSUME NEW q \in Reqs
        PROVE  InStep(req'[q], password', sessions', links', epoch')
    <2>1. InStep(req[q], password, sessions, links, epoch)
      BY DEF SerialInv
    <2>2. InStep(req[q], password, sessions', links', epoch)
      BY <1>0, <1>2, <1>3, <2>1, InStepKept
    <2> QED
      BY <1>1, <2>2
  <1> QED
    BY <1>4, <1>5 DEF SerialInv

LEMMA NextSerial == Serial /\ CredentialsInv /\ SerialInv /\ [Next]_vars => SerialInv'
  <1> SUFFICES ASSUME Serial, CredentialsInv, SerialInv, [Next]_vars PROVE SerialInv'
    OBVIOUS
  <1>1. ASSUME NEW q \in Reqs, Finish(q) PROVE SerialInv'
    <2>1. UNCHANGED <<db, epoch>> /\ req' = [req EXCEPT ![q] = Idle]
      BY <1>1 DEF Finish, Put
    <2>2. InStep(Idle, password, sessions, links, epoch)
      BY DEF InStep, Idle
    <2> QED
      BY <2>1, <2>2, AskSerial
  <1>2. CASE UNCHANGED vars
    BY <1>2 DEF vars, db, SerialInv
  <1> QED
    BY <1>1, <1>2, LoginSerial, SessionSerial, RotationsSerial, LinkSerial,
       BackgroundSerial DEF Next

LEMMA SerialInvariant ==
  ASSUME Serial
  PROVE  Spec => [](CredentialsInv /\ SerialInv)
  <1>1. Init => SerialInv
    BY DEF Init, SerialInv, Fresh, SingleLive, InStep, Idle
  <1> QED
    BY <1>1, NextSerial, CredentialsInvariant, PTL DEF Spec

\* Served one at a time, a rotation ends every session: each that is alive was opened
\* with the password the account has now, and since it was last deactivated
\* (password_reset.go:132-138).
THEOREM NoSessionIsStale ==
  ASSUME Serial
  PROVE  Spec => []NoStaleSession
  <1>1. SerialInv => NoStaleSession
    BY DEF SerialInv, Fresh, NoStaleSession
  <1> QED
    BY <1>1, SerialInvariant, PTL

\* Served one at a time, an account has one link that works at the most
\* (password_reset.go:71-73).
THEOREM OnlyOneLinkLives ==
  ASSUME Serial
  PROVE  Spec => []OneLiveLink
  <1>1. ASSUME CredentialsInv, SerialInv, NEW u \in Users
        PROVE  Cardinality(LiveLinks(u)) <= 1
    <2>1. \A j, k \in LiveLinks(u) : j = k
      BY <1>1 DEF SerialInv, SingleLive, LiveLinks
    <2>2. CASE LiveLinks(u) = {}
      BY <2>2, FS_EmptySet
    <2>3. ASSUME NEW k \in LiveLinks(u) PROVE Cardinality(LiveLinks(u)) <= 1
      <3>1. LiveLinks(u) = {k}
        BY <2>1, <2>3
      <3>2. Cardinality({k}) = 1
        BY FS_Singleton
      <3>3. Cardinality(LiveLinks(u)) = 1
        BY <3>1, <3>2, Zenon
      <3> QED
        BY <3>3
    <2> QED
      BY <2>2, <2>3
  <1>2. CredentialsInv /\ SerialInv => OneLiveLink
    BY <1>1 DEF OneLiveLink
  <1> QED
    BY <1>2, SerialInvariant, PTL

\* Served one at a time, a login never changes which password opens the account
\* (service.go:161-163): the hash it writes is of the password that is still there.
THEOREM LoginsKeepThePassword ==
  ASSUME Serial
  PROVE  Spec => LoginKeepsPassword
  <1> DEFINE Kept == \A q \in Reqs :
                 req[q].op = "login" /\ req'[q].op = "login" /\ req'[q] # req[q]
                   => password' = password
  <1>1. ASSUME CredentialsInv, SerialInv, [Next]_vars, NEW q \in Reqs,
               req[q].op = "login", req'[q] # req[q]
        PROVE  password' = password
    <2>0. /\ password \in [Users -> Passwords] /\ Shape(req[q])
          /\ InStep(req[q], password, sessions, links, epoch)
      BY <1>1 DEF CredentialsInv, TypeOK, SerialInv
    <2>1. ASSUME LoginRehash(q) PROVE password' = password
      BY <2>0, <2>1 DEF LoginRehash, InStep
    <2>2. ~RotateCommit(q)
      BY <1>1, <2>0 DEF RotateCommit, Shape
    <2>3. ASSUME LoginHandler(q) PROVE password' = password
      BY <2>1, <2>3 DEF LoginHandler, LoginVerify, LoginOpen, Refuse, db
    <2>4. ASSUME SessionHandlers(q) PROVE password' = password
      BY <2>4 DEF SessionHandlers, Authenticate, Logout, RevokeSession, ChangePassword,
         Refuse, db
    <2>5. ASSUME Rotations(q) PROVE password' = password
      BY <2>2, <2>5 DEF Rotations, ResetPassword, Deactivate, Rotate, db
    <2>6. ASSUME LinkHandler(q) \/ Finish(q) PROVE password' = password
      BY <2>6 DEF LinkHandler, RequestPasswordReset, InvalidateLinks, IssueLink, Finish,
         Refuse, db
    <2>7. ~Background
      BY <1>1 DEF Background, Reactivate, ExpireSession, ExpireLink, CleanupSessions,
         CleanupPasswordResets
    <2> QED
      BY <1>1, <2>3, <2>4, <2>5, <2>6, <2>7, OneSlot DEF Next, vars
  <1>2. CredentialsInv /\ SerialInv /\ [Next]_vars => [Kept]_vars
    BY <1>1
  <1> HIDE DEF Kept
  <1>3. Spec => [][Kept]_vars
    BY <1>2, SerialInvariant, PTL DEF Spec
  <1> QED
    BY <1>3 DEF LoginKeepsPassword, Kept
=============================================================================

---------------------------- MODULE AccountsProofs ----------------------------
(***************************************************************************)
(* Theorems about Accounts and the Invitations it is composed with, for    *)
(* any addresses, roles, invitations, links and finite number of requests. *)
(***************************************************************************)
EXTENDS Accounts, FiniteSetTheorems, TLAPS

-----------------------------------------------------------------------------
(* Invitations: the inductive invariant. *)

Succeeded(x) ==
    x.pc = "done" /\ x.op \in {"invite", "revoke"} /\ x.result \in {"ok", "mail_failed"}

\* What a request in flight has been given, and what it has left of the invitations
\* that were open when it came.
Asked(x, rows) ==
    /\ x.pc \in {"inviting", "issuing"} =>
         /\ x.op = "invite" /\ x.email \in Emails
         /\ \A i \in x.known : rows[i].email = x.email
    /\ x.pc = "accepting" => x.op = "accept" /\ x.invitation \in InvitationIds
    /\ \A i \in x.known : /\ rows[i].state # "unused"
                          /\ Succeeded(x) => rows[i].state # "open"

\* An open invitation is the only one for its address, and for a role that exists.
Offers(rows, roles) ==
    \A i \in InvitationIds : rows[i].state = "open" =>
        /\ rows[i].email \in Emails /\ rows[i].role \in roles
        /\ \A j \in InvitationIds :
             rows[j].state = "open" /\ rows[j].email = rows[i].email => j = i

Holders(accs, rows, roles) ==
    \A e \in Emails :
        /\ ~accs[e].exists => accs[e] = NoAccount
        /\ accs[e].role \in roles \cup {NoRole}
        /\ accs[e].via # NoInvitation =>
             /\ rows[accs[e].via].state \in {"accepted", "deleted"}
             /\ rows[accs[e].via].email = e

TablesOK(accs, rows, roles) ==
    /\ accs \in [Emails -> Account] /\ rows \in [InvitationIds -> Invitation]
    /\ roles \subseteq Roles
    /\ Offers(rows, roles) /\ Holders(accs, rows, roles)

InvitationsInv ==
    /\ TablesOK(accounts, invitations, live)
    /\ req \in [Reqs -> Request]
    /\ \A q \in Reqs : Asked(req[q], invitations)

\* An invitation that was issued keeps its address, and is not opened again.
Evolves(old, new) ==
    \A i \in InvitationIds : old[i].state # "unused" =>
        /\ new[i].state # "unused" /\ new[i].email = old[i].email
        /\ new[i].state = "open" => old[i].state = "open"

LEMMA AskedKept ==
  ASSUME NEW x \in Request, NEW old, NEW new, Evolves(old, new), Asked(x, old)
  PROVE  Asked(x, new)
  <1>1. \A i \in x.known : i \in InvitationIds
    BY DEF Request
  <1> QED
    BY <1>1 DEF Asked, Evolves

LEMMA EvolvesSame == \A rows : Evolves(rows, rows)
  BY DEF Evolves

\* What a step of a request has to show.
LEMMA SlotInv ==
  ASSUME InvitationsInv, NEW q \in Reqs, NEW x \in Request,
         req' = [req EXCEPT ![q] = x], Asked(x, invitations'),
         Evolves(invitations, invitations'), TablesOK(accounts', invitations', live')
  PROVE  InvitationsInv'
  <1>1. /\ req \in [Reqs -> Request] /\ \A p \in Reqs : Asked(req[p], invitations)
    BY DEF InvitationsInv
  <1>2. /\ req' \in [Reqs -> Request] /\ req'[q] = x
        /\ \A p \in Reqs \ {q} : req'[p] = req[p] /\ req[p] \in Request
    BY <1>1
  <1>3. \A p \in Reqs : Asked(req'[p], invitations')
    BY <1>1, <1>2, AskedKept
  <1> QED
    BY <1>2, <1>3 DEF InvitationsInv

LEMMA QuietInv ==
  ASSUME InvitationsInv, NEW q \in Reqs, NEW x \in Request,
         req' = [req EXCEPT ![q] = x], Asked(x, invitations), UNCHANGED db
  PROVE  InvitationsInv'
  <1>1. UNCHANGED <<accounts, live, invitations>>
    BY DEF db
  <1>2. TablesOK(accounts', invitations', live') /\ Asked(x, invitations')
    BY <1>1 DEF InvitationsInv
  <1>3. Evolves(invitations, invitations')
    BY <1>1, EvolvesSame
  <1> QED
    BY <1>2, <1>3, SlotInv

\* What no request does.
LEMMA EnvironmentInv ==
  ASSUME InvitationsInv, UNCHANGED req, Evolves(invitations, invitations'),
         TablesOK(accounts', invitations', live')
  PROVE  InvitationsInv'
  <1>1. \A p \in Reqs : req[p] \in Request /\ Asked(req[p], invitations)
    BY DEF InvitationsInv
  <1>2. \A p \in Reqs : Asked(req[p], invitations')
    BY <1>1, AskedKept
  <1> QED
    BY <1>2 DEF InvitationsInv

-----------------------------------------------------------------------------
(* Invitations: the steps. *)

LEMMA IdleTyped ==
  /\ Idle \in Request /\ Idle.pc = "idle" /\ Idle.op = "none" /\ Idle.known = {}
  /\ \A rows : Asked(Idle, rows)
  BY DEF Idle, Request, Asked

\* An answer about invitations that changes none of them.
LEMMA RefuseInv ==
  ASSUME InvitationsInv, NEW q \in Reqs, NEW e \in Emails \cup {NoEmail},
         NEW op \in {"none", "invite", "accept", "revoke", "register"},
         NEW result \in {"not_found", "escalation", "email_taken", "invalid"},
         Refuse(q, op, e, result)
  PROVE  InvitationsInv'
  <1> DEFINE x == [Idle EXCEPT !.pc = "done", !.op = op, !.email = e, !.result = result]
  <1>1. x \in Request /\ x.pc = "done" /\ x.known = {}
    <2> DEFINE y == [Idle EXCEPT !.pc = "done", !.op = op]
    <2>1. Idle \in Request /\ Idle.known = {}
      BY IdleTyped
    <2>2. y \in Request /\ y.pc = "done" /\ y.known = {}
      BY <2>1 DEF Request
    <2>3. x = [y EXCEPT !.email = e, !.result = result]
      OBVIOUS
    <2> HIDE DEF x, y
    <2>4. x \in Request
      BY <2>2, <2>3 DEF Request
    <2>5. x.pc = "done" /\ x.known = {}
      BY <2>2, <2>3 DEF Request
    <2> QED
      BY <2>4, <2>5
  <1>2. req' = [req EXCEPT ![q] = x] /\ UNCHANGED db
    BY DEF Refuse, Put
  <1> HIDE DEF x
  <1>3. Asked(x, invitations)
    BY <1>1 DEF Asked
  <1> QED
    BY <1>1, <1>2, <1>3, QuietInv

LEMMA InviteInv ==
  ASSUME InvitationsInv, NEW q \in Reqs, NEW e \in Emails, NEW r \in Roles,
         Invite(q, e, r)
  PROVE  InvitationsInv'
  <1>1. CASE \E result \in {"not_found", "escalation", "email_taken"} :
               Refuse(q, "invite", e, result)
    BY <1>1, RefuseInv
  <1>2. CASE ~ \E result \in {"not_found", "escalation", "email_taken"} :
                 Refuse(q, "invite", e, result)
    <2> DEFINE x == [Idle EXCEPT !.pc = "inviting", !.op = "invite", !.email = e,
                                 !.role = r, !.known = OpenFor(e)]
    <2>1. req' = [req EXCEPT ![q] = x] /\ UNCHANGED db
      BY <1>2 DEF Invite, Put
    <2>2. OpenFor(e) \subseteq InvitationIds
      BY DEF OpenFor
    <2>3. /\ x \in Request /\ x.pc = "inviting" /\ x.op = "invite" /\ x.email = e
          /\ x.known = OpenFor(e)
      BY <2>2, IdleTyped DEF Request
    <2> HIDE DEF x
    <2>4. Asked(x, invitations)
      BY <2>3 DEF Asked, OpenFor, Succeeded
    <2> QED
      BY <2>1, <2>3, <2>4, QuietInv
  <1> QED
    BY <1>1, <1>2

LEMMA RevokePendingInv ==
  ASSUME InvitationsInv, NEW q \in Reqs, RevokePending(q)
  PROVE  InvitationsInv'
  <1> DEFINE x == [req[q] EXCEPT !.pc = "issuing", !.seen = OpenFor(req[q].email)]
  <1>1. /\ req[q] \in Request /\ Asked(req[q], invitations) /\ req[q].pc = "inviting"
        /\ req' = [req EXCEPT ![q] = x] /\ UNCHANGED db
    BY DEF InvitationsInv, RevokePending, Put
  <1>2. OpenFor(req[q].email) \subseteq InvitationIds
    BY DEF OpenFor
  <1>3. /\ x \in Request /\ x.pc = "issuing" /\ x.op = req[q].op
        /\ x.email = req[q].email /\ x.known = req[q].known
    BY <1>1, <1>2 DEF Request
  <1> HIDE DEF x
  <1>4. Asked(x, invitations)
    BY <1>1, <1>3 DEF Asked, Succeeded
  <1> QED
    BY <1>1, <1>3, <1>4, QuietInv

\* Rows that are withdrawn stay in their types and evolve, and the open ones are those
\* of before less the withdrawn.
LEMMA WithdrawnFacts ==
  ASSUME InvitationsInv, NEW ids
  PROVE  /\ Withdrawn(ids) \in [InvitationIds -> Invitation]
         /\ Evolves(invitations, Withdrawn(ids))
         /\ \A i \in InvitationIds :
              /\ Withdrawn(ids)[i].email = invitations[i].email
              /\ Withdrawn(ids)[i].role = invitations[i].role
              /\ Withdrawn(ids)[i].state = "open" <=>
                   invitations[i].state = "open" /\ i \notin ids
              /\ Withdrawn(ids)[i].state = "unused" <=> invitations[i].state = "unused"
              /\ invitations[i].state \in {"accepted", "deleted"} =>
                   Withdrawn(ids)[i].state = invitations[i].state
  <1>1. \A i \in InvitationIds : invitations[i] \in Invitation
    BY DEF InvitationsInv, TablesOK
  <1>2. ASSUME NEW i \in InvitationIds, i \in ids /\ invitations[i].state = "open"
        PROVE  /\ Withdrawn(ids)[i] \in Invitation
               /\ Withdrawn(ids)[i].state = "revoked"
               /\ Withdrawn(ids)[i].email = invitations[i].email
               /\ Withdrawn(ids)[i].role = invitations[i].role
    BY <1>1, <1>2 DEF Withdrawn, Invitation
  <1>3. ASSUME NEW i \in InvitationIds, ~(i \in ids /\ invitations[i].state = "open")
        PROVE  Withdrawn(ids)[i] = invitations[i]
    BY <1>3 DEF Withdrawn
  <1>4. \A i \in InvitationIds : Withdrawn(ids)[i] \in Invitation
    BY <1>1, <1>2, <1>3
  <1>5. Withdrawn(ids) \in [InvitationIds -> Invitation]
    BY <1>4 DEF Withdrawn
  <1> QED
    BY <1>2, <1>3, <1>5 DEF Evolves

\* An answer that leaves the invitations alone, and does not claim to have ended any.
LEMMA AnswerInv ==
  ASSUME InvitationsInv, NEW q \in Reqs,
         NEW result \in {"email_taken", "conflict", "invalid"},
         Answer(q, result), UNCHANGED db
  PROVE  InvitationsInv'
  <1> DEFINE x == [req[q] EXCEPT !.pc = "done", !.result = result]
  <1>1. /\ req[q] \in Request /\ Asked(req[q], invitations)
        /\ req' = [req EXCEPT ![q] = x]
    BY DEF InvitationsInv, Answer, Put
  <1>2. x \in Request /\ x.pc = "done" /\ x.known = req[q].known /\ x.result = result
    BY <1>1 DEF Request
  <1> HIDE DEF x
  <1>3. Asked(x, invitations)
    BY <1>1, <1>2 DEF Asked, Succeeded
  <1> QED
    BY <1>1, <1>2, <1>3, QuietInv

\* The new invitation is for a role that exists, and is the only one for its address:
\* those the transaction has seen are withdrawn, and there are no others.
LEMMA IssueInv ==
  ASSUME InvitationsInv, NEW q \in Reqs, NEW i \in InvitationIds, Issue(q, i)
  PROVE  InvitationsInv'
  <1>1. CASE \E result \in {"email_taken", "conflict"} : Answer(q, result) /\ UNCHANGED db
    BY <1>1, AnswerInv
  <1>2. CASE ~ \E result \in {"email_taken", "conflict"} : Answer(q, result) /\ UNCHANGED db
    <2> DEFINE e == req[q].email
               r == req[q].role
               row == [state |-> "open", expired |-> FALSE, email |-> e, role |-> r]
               rest == Withdrawn(req[q].seen)
    <2>0. /\ TablesOK(accounts, invitations, live) /\ req \in [Reqs -> Request]
          /\ req[q] \in Request /\ Asked(req[q], invitations)
      BY DEF InvitationsInv
    <2>1. PICK result \in {"ok", "mail_failed"} :
            req' = [req EXCEPT ![q] = [req[q] EXCEPT !.pc = "done", !.result = result]]
      BY <1>2 DEF Issue, Answer, Put
    <2>2. /\ req[q].pc = "issuing" /\ OpenFor(e) \subseteq req[q].seen /\ r \in live
          /\ invitations[i].state = "unused" /\ invitations' = [rest EXCEPT ![i] = row]
          /\ UNCHANGED <<accounts, live>>
      BY <1>2 DEF Issue
    <2>3. /\ e \in Emails /\ req[q].op = "invite"
          /\ \A j \in req[q].known : /\ j \in InvitationIds /\ j # i
                                     /\ invitations[j].email = e
                                     /\ invitations[j].state # "unused"
      BY <2>0, <2>2 DEF Asked, Request
    <2> DEFINE x == [req[q] EXCEPT !.pc = "done", !.result = result]
    <2>4. x \in Request /\ x.pc = "done" /\ x.known = req[q].known
      BY <2>0 DEF Request
    <2>5. row \in Invitation /\ row.state = "open" /\ row.email = e /\ row.role = r
      BY <2>0, <2>2, <2>3 DEF Invitation, TablesOK
    <2>6. /\ rest \in [InvitationIds -> Invitation] /\ Evolves(invitations, rest)
          /\ \A j \in InvitationIds :
               /\ rest[j].email = invitations[j].email
               /\ rest[j].role = invitations[j].role
               /\ rest[j].state = "open" <=>
                    invitations[j].state = "open" /\ j \notin req[q].seen
               /\ invitations[j].state \in {"accepted", "deleted"} =>
                    rest[j].state = invitations[j].state
      BY WithdrawnFacts
    <2> HIDE DEF x, row, rest
    <2>7. /\ invitations' \in [InvitationIds -> Invitation] /\ invitations'[i] = row
          /\ \A j \in InvitationIds \ {i} : invitations'[j] = rest[j]
      BY <2>2, <2>5, <2>6
    <2>8. Evolves(invitations, invitations')
      BY <2>2, <2>6, <2>7 DEF Evolves
    <2>9. \A j \in InvitationIds \ {i} :
            invitations'[j].state = "open" =>
              invitations'[j].email # e /\ invitations[j].state = "open"
      BY <2>2, <2>6, <2>7 DEF OpenFor
    <2>10. Offers(invitations', live)
      <3> SUFFICES ASSUME NEW j \in InvitationIds, invitations'[j].state = "open"
                   PROVE  /\ invitations'[j].email \in Emails
                          /\ invitations'[j].role \in live
                          /\ \A k \in InvitationIds :
                               /\ invitations'[k].state = "open"
                               /\ invitations'[k].email = invitations'[j].email
                               => k = j
        BY DEF Offers
      <3>1. CASE j = i
        BY <2>2, <2>3, <2>5, <2>7, <2>9, <3>1
      <3>2. CASE j # i
        <4>1. /\ invitations[j].state = "open" /\ invitations'[j].email # e
              /\ invitations'[j].email = invitations[j].email
              /\ invitations'[j].role = invitations[j].role
          BY <2>6, <2>7, <2>9, <3>2
        <4>2. \A k \in InvitationIds :
                /\ invitations'[k].state = "open"
                /\ invitations'[k].email = invitations'[j].email
                => invitations[k].state = "open" /\ invitations[k].email = invitations[j].email
          BY <2>5, <2>6, <2>7, <2>9, <4>1
        <4> QED
          BY <2>0, <4>1, <4>2 DEF TablesOK, Offers
      <3> QED
        BY <3>1, <3>2
    <2>11. Holders(accounts, invitations', live)
      <3> SUFFICES ASSUME NEW f \in Emails, accounts[f].via # NoInvitation
                   PROVE  /\ invitations'[accounts[f].via].state \in {"accepted", "deleted"}
                          /\ invitations'[accounts[f].via].email = f
        BY <2>0 DEF Holders, TablesOK
      <3>1. /\ accounts[f].via \in InvitationIds \ {i}
            /\ invitations[accounts[f].via].state \in {"accepted", "deleted"}
            /\ invitations[accounts[f].via].email = f
        BY <2>0, <2>2 DEF Holders, TablesOK, Account
      <3> QED
        BY <2>6, <2>7, <3>1
    <2>12. Asked(x, invitations')
      <3>1. \A j \in req[q].known : /\ invitations'[j].state # "unused"
                                    /\ invitations'[j].state # "open"
        BY <2>3, <2>8, <2>9 DEF Evolves
      <3> QED
        BY <2>4, <3>1 DEF Asked
    <2>13. TablesOK(accounts', invitations', live')
      BY <2>0, <2>2, <2>7, <2>10, <2>11 DEF TablesOK
    <2>14. req' = [req EXCEPT ![q] = x]
      BY <2>1 DEF x
    <2> QED
      BY <2>4, <2>8, <2>12, <2>13, <2>14, SlotInv
  <1> QED
    BY <1>1, <1>2

LEMMA AcceptInv ==
  ASSUME InvitationsInv, NEW q \in Reqs, NEW i \in InvitationIds, Accept(q, i)
  PROVE  InvitationsInv'
  <1>1. CASE Refuse(q, "accept", NoEmail, "invalid")
    BY <1>1, RefuseInv
  <1>2. CASE ~Refuse(q, "accept", NoEmail, "invalid")
    <2> DEFINE x == [Idle EXCEPT !.pc = "accepting", !.op = "accept", !.invitation = i]
    <2>1. req' = [req EXCEPT ![q] = x] /\ UNCHANGED db
      BY <1>2 DEF Accept, Put
    <2>2. /\ x \in Request /\ x.pc = "accepting" /\ x.op = "accept"
          /\ x.invitation = i /\ x.known = {}
      BY IdleTyped DEF Request
    <2> HIDE DEF x
    <2>3. Asked(x, invitations)
      BY <2>2 DEF Asked
    <2> QED
      BY <2>1, <2>2, <2>3, QuietInv
  <1> QED
    BY <1>1, <1>2

\* An invitation that is claimed is open until then, and spent from then on.
LEMMA ClaimFacts ==
  ASSUME InvitationsInv, NEW q \in Reqs, Claim(q),
         NEW i \in InvitationIds, i = req[q].invitation,
         invitations[i].state = "open", ~accounts[invitations[i].email].exists
  PROVE  /\ TablesOK(accounts', invitations', live')
         /\ Evolves(invitations, invitations')
         /\ LET e == invitations[i].email IN
              /\ e \in Emails /\ accounts'[e].exists /\ accounts'[e].via = i
              /\ \A f \in Emails \ {e} : accounts'[f] = accounts[f]
         /\ req' = [req EXCEPT ![q] = [req[q] EXCEPT !.pc = "done", !.result = "ok"]]
  <1> DEFINE e == invitations[i].email
             account == [exists |-> TRUE, via |-> i, role |-> invitations[i].role]
  <1>0. /\ TablesOK(accounts, invitations, live)
        /\ accounts \in [Emails -> Account]
        /\ invitations \in [InvitationIds -> Invitation] /\ live \subseteq Roles
    BY DEF InvitationsInv, TablesOK
  <1>1. /\ accounts' = [accounts EXCEPT ![e] = account]
        /\ invitations' = [invitations EXCEPT ![i].state = "accepted"]
        /\ UNCHANGED live
        /\ req' = [req EXCEPT ![q] = [req[q] EXCEPT !.pc = "done", !.result = "ok"]]
    BY DEF Claim, Answer, Put
  <1>2. e \in Emails /\ invitations[i].role \in live
    BY <1>0 DEF TablesOK, Offers
  <1>3. account \in Account /\ account.exists /\ account.via = i
        /\ account.role = invitations[i].role
    BY <1>0, <1>2 DEF Account
  <1>4. /\ invitations' \in [InvitationIds -> Invitation]
        /\ invitations'[i].state = "accepted" /\ invitations'[i].email = e
        /\ \A j \in InvitationIds \ {i} : invitations'[j] = invitations[j]
    BY <1>0, <1>1 DEF Invitation
  <1> HIDE DEF account, e
  <1>5. /\ accounts' \in [Emails -> Account] /\ accounts'[e] = account
        /\ \A f \in Emails \ {e} : accounts'[f] = accounts[f]
    BY <1>0, <1>1, <1>2, <1>3
  <1>6. Evolves(invitations, invitations')
    BY <1>4 DEF Evolves, e
  <1>7. Offers(invitations', live')
    BY <1>0, <1>1, <1>4 DEF TablesOK, Offers
  <1>8. Holders(accounts', invitations', live')
    <2> SUFFICES ASSUME NEW f \in Emails
                 PROVE  /\ ~accounts'[f].exists => accounts'[f] = NoAccount
                        /\ accounts'[f].role \in live \cup {NoRole}
                        /\ accounts'[f].via # NoInvitation =>
                             /\ invitations'[accounts'[f].via].state
                                  \in {"accepted", "deleted"}
                             /\ invitations'[accounts'[f].via].email = f
      BY <1>1 DEF Holders
    <2>1. CASE f = e
      BY <1>2, <1>3, <1>4, <1>5, <2>1
    <2>2. CASE f # e
      <3>1. accounts'[f] = accounts[f] /\ accounts[f] \in Account
        BY <1>0, <1>5, <2>2
      <3>2. accounts[f].via # NoInvitation =>
              /\ accounts[f].via \in InvitationIds \ {i}
              /\ invitations[accounts[f].via].state \in {"accepted", "deleted"}
              /\ invitations[accounts[f].via].email = f
        BY <1>0, <3>1 DEF TablesOK, Holders, Account
      <3> QED
        BY <1>0, <1>4, <3>1, <3>2 DEF TablesOK, Holders
    <2> QED
      BY <2>1, <2>2
  <1> QED
    BY <1>0, <1>1, <1>2, <1>3, <1>4, <1>5, <1>6, <1>7, <1>8 DEF TablesOK, e

LEMMA ClaimInv ==
  ASSUME InvitationsInv, NEW q \in Reqs, Claim(q)
  PROVE  InvitationsInv'
  <1> DEFINE i == req[q].invitation
             x == [req[q] EXCEPT !.pc = "done", !.result = "ok"]
  <1>0. /\ req[q] \in Request /\ Asked(req[q], invitations)
        /\ req[q].pc = "accepting" /\ req[q].op = "accept" /\ i \in InvitationIds
    BY DEF InvitationsInv, Claim, Asked
  <1>1. CASE \E result \in {"invalid", "email_taken"} : Answer(q, result) /\ UNCHANGED db
    BY <1>1, AnswerInv
  <1>2. CASE ~ \E result \in {"invalid", "email_taken"} : Answer(q, result) /\ UNCHANGED db
    <2>1. invitations[i].state = "open" /\ ~accounts[invitations[i].email].exists
      BY <1>2 DEF Claim
    <2>2. /\ TablesOK(accounts', invitations', live')
          /\ Evolves(invitations, invitations') /\ req' = [req EXCEPT ![q] = x]
      BY <1>0, <2>1, ClaimFacts
    <2>3. x \in Request /\ x.pc = "done" /\ x.op = "accept" /\ x.known = req[q].known
      BY <1>0 DEF Request
    <2> HIDE DEF x
    <2>4. Asked(x, invitations')
      <3>1. Asked(req[q], invitations')
        BY <1>0, <2>2, AskedKept
      <3> QED
        BY <2>3, <3>1 DEF Asked, Succeeded
    <2> QED
      BY <2>2, <2>3, <2>4, SlotInv
  <1> QED
    BY <1>1, <1>2

LEMMA RevokeInvitationInv ==
  ASSUME InvitationsInv, NEW q \in Reqs, NEW i \in InvitationIds, RevokeInvitation(q, i)
  PROVE  InvitationsInv'
  <1>1. CASE Refuse(q, "revoke", NoEmail, "not_found")
    BY <1>1, RefuseInv
  <1>2. CASE ~Refuse(q, "revoke", NoEmail, "not_found")
    <2> DEFINE x == [Idle EXCEPT !.pc = "done", !.op = "revoke", !.known = {i},
                                 !.result = "ok"]
    <2>1. /\ invitations' = Withdrawn({i}) /\ invitations[i].state = "open"
          /\ req' = [req EXCEPT ![q] = x] /\ UNCHANGED <<accounts, live>>
      BY <1>2 DEF RevokeInvitation, Put
    <2>2. /\ x \in Request /\ x.pc = "done" /\ x.known = {i}
      BY IdleTyped DEF Request
    <2> HIDE DEF x
    <2>3. TablesOK(accounts, invitations, live)
      BY DEF InvitationsInv
    <2>4. /\ invitations' \in [InvitationIds -> Invitation]
          /\ Evolves(invitations, invitations')
          /\ \A j \in InvitationIds :
               /\ invitations'[j].email = invitations[j].email
               /\ invitations'[j].role = invitations[j].role
               /\ invitations'[j].state = "open" <=> invitations[j].state = "open" /\ j \notin {i}
               /\ invitations'[j].state = "unused" <=> invitations[j].state = "unused"
               /\ invitations[j].state \in {"accepted", "deleted"} =>
                    invitations'[j].state = invitations[j].state
      BY <2>1, WithdrawnFacts
    <2>5. Offers(invitations', live)
      BY <2>3, <2>4 DEF TablesOK, Offers
    <2>6. Holders(accounts, invitations', live)
      <3>1. \A e \in Emails : accounts[e].via # NoInvitation => accounts[e].via \in InvitationIds
        BY <2>3 DEF TablesOK, Account
      <3> QED
        BY <2>3, <2>4, <3>1 DEF TablesOK, Holders
    <2>7. Asked(x, invitations')
      BY <2>1, <2>2, <2>4 DEF Asked
    <2>8. TablesOK(accounts', invitations', live')
      BY <2>1, <2>3, <2>4, <2>5, <2>6 DEF TablesOK
    <2> QED
      BY <2>1, <2>2, <2>4, <2>7, <2>8, SlotInv
  <1> QED
    BY <1>1, <1>2

\* Register makes an account that no invitation is behind, and says so.
LEMMA RegisterFacts ==
  ASSUME InvitationsInv, NEW q \in Reqs, NEW e \in Emails, Register(q, e)
  PROVE  /\ InvitationsInv'
         /\ accounts'[e].exists
         /\ ~accounts[e].exists => accounts'[e].via = NoInvitation
         /\ accounts[e].exists => accounts' = accounts
         /\ \A f \in Emails \ {e} : accounts'[f] = accounts[f]
         /\ req[q].pc = "idle" /\ req' = [req EXCEPT ![q] = req'[q]] /\ req'[q].pc = "done"
  <1>0. /\ TablesOK(accounts, invitations, live) /\ accounts \in [Emails -> Account]
        /\ req \in [Reqs -> Request]
    BY DEF InvitationsInv, TablesOK
  <1>1. CASE accounts[e].exists
    <2>1. Refuse(q, "register", e, "email_taken") /\ req[q].pc = "idle"
      BY <1>1 DEF Register
    <2>2. InvitationsInv'
      BY <2>1, RefuseInv
    <2>3. accounts' = accounts
      BY <2>1 DEF Refuse, db
    <2>4. req' = [req EXCEPT ![q] = req'[q]] /\ req'[q].pc = "done"
      BY <1>0, <2>1, IdleTyped DEF Refuse, Put, Request
    <2> QED
      BY <1>1, <2>1, <2>2, <2>3, <2>4
  <1>2. CASE ~accounts[e].exists
    <2> DEFINE x == [Idle EXCEPT !.pc = "done", !.op = "register", !.email = e,
                                 !.result = "ok"]
               account == [NoAccount EXCEPT !.exists = TRUE]
    <2>1. /\ ~accounts[e].exists /\ accounts' = [accounts EXCEPT ![e].exists = TRUE]
          /\ req' = [req EXCEPT ![q] = x] /\ UNCHANGED <<live, invitations>>
          /\ req[q].pc = "idle"
      BY <1>2 DEF Register, Put
    <2>2. /\ x \in Request /\ x.pc = "done" /\ x.known = {}
      BY IdleTyped DEF Request
    <2> HIDE DEF x
    <2>3. accounts[e] = NoAccount
      BY <1>0, <2>1 DEF TablesOK, Holders
    <2>4. /\ account \in Account /\ account.exists /\ account.via = NoInvitation
          /\ account.role = NoRole
      BY DEF NoAccount, Account
    <2>5. accounts' = [accounts EXCEPT ![e] = account]
      BY <1>0, <2>1, <2>3
    <2> HIDE DEF account
    <2>6. /\ accounts' \in [Emails -> Account] /\ accounts'[e] = account
          /\ \A f \in Emails \ {e} : accounts'[f] = accounts[f]
      BY <1>0, <2>4, <2>5
    <2>7. TablesOK(accounts', invitations', live')
      BY <1>0, <2>1, <2>4, <2>6 DEF TablesOK, Holders
    <2>8. Evolves(invitations, invitations') /\ Asked(x, invitations')
      BY <2>1, <2>2, EvolvesSame DEF Asked
    <2>9. InvitationsInv'
      BY <2>1, <2>2, <2>7, <2>8, SlotInv
    <2>10. req' = [req EXCEPT ![q] = req'[q]] /\ req'[q].pc = "done"
      BY <1>0, <2>1, <2>2
    <2> QED
      BY <2>1, <2>4, <2>6, <2>9, <2>10
  <1> QED
    BY <1>1, <1>2

\* No role is deleted that an account holds, and the offers go with the role.
LEMMA EnvironmentStepInv ==
  ASSUME InvitationsInv, Environment
  PROVE  /\ InvitationsInv'
         /\ \A e \in Emails : /\ accounts'[e].exists = accounts[e].exists
                              /\ accounts'[e].via = accounts[e].via
         /\ UNCHANGED req
  <1>0. /\ TablesOK(accounts, invitations, live) /\ accounts \in [Emails -> Account]
        /\ invitations \in [InvitationIds -> Invitation] /\ live \subseteq Roles
    BY DEF InvitationsInv, TablesOK
  <1>1. ASSUME NEW r \in Roles, DeleteRole(r)
        PROVE  InvitationsInv' /\ UNCHANGED <<accounts, req>>
    <2>1. /\ live' = live \ {r} /\ UNCHANGED <<accounts, req>> /\ r # NoRole
          /\ \A e \in Emails : accounts[e].role # r
      BY <1>1, InvitationsAssumption DEF DeleteRole
    <2>2. /\ invitations' \in [InvitationIds -> Invitation]
          /\ \A i \in InvitationIds :
               \/ invitations[i].role # r /\ invitations'[i] = invitations[i]
               \/ /\ invitations'[i].state = "deleted"
                  /\ invitations'[i].email = invitations[i].email
      <3> DEFINE row(i) == IF invitations[i].role = r
                           THEN [invitations[i] EXCEPT !.state = "deleted"]
                           ELSE invitations[i]
      <3>1. invitations' = [i \in InvitationIds |-> row(i)]
        BY <1>1 DEF DeleteRole
      <3>2. ASSUME NEW i \in InvitationIds
            PROVE  /\ row(i) \in Invitation
                   /\ \/ invitations[i].role # r /\ row(i) = invitations[i]
                      \/ row(i).state = "deleted" /\ row(i).email = invitations[i].email
        <4>1. invitations[i] \in Invitation
          BY <1>0
        <4> QED
          BY <4>1 DEF Invitation
      <3> HIDE DEF row
      <3> QED
        BY <3>1, <3>2
    <2>3. Evolves(invitations, invitations')
      BY <2>2 DEF Evolves
    <2>4. Offers(invitations', live')
      BY <1>0, <2>1, <2>2 DEF TablesOK, Offers
    <2>5. Holders(accounts', invitations', live')
      <3>1. \A e \in Emails : accounts[e].via # NoInvitation => accounts[e].via \in InvitationIds
        BY <1>0 DEF Account
      <3> QED
        BY <1>0, <2>1, <2>2, <3>1 DEF TablesOK, Holders
    <2> QED
      BY <1>0, <2>1, <2>2, <2>3, <2>4, <2>5, EnvironmentInv DEF TablesOK
  <1>2. ASSUME NEW e \in Emails, NEW r \in live \cup {NoRole}, Reassign(e, r)
        PROVE  /\ InvitationsInv' /\ UNCHANGED req
               /\ \A f \in Emails : /\ accounts'[f].exists = accounts[f].exists
                                    /\ accounts'[f].via = accounts[f].via
    <2>1. /\ accounts[e].exists /\ accounts' = [accounts EXCEPT ![e].role = r]
          /\ UNCHANGED <<live, invitations, req>>
      BY <1>2 DEF Reassign
    <2>2. r \in Roles \cup {NoRole}
      BY <1>0
    <2>3. /\ accounts' \in [Emails -> Account]
          /\ accounts'[e].role = r /\ accounts'[e].exists = accounts[e].exists
          /\ accounts'[e].via = accounts[e].via
          /\ \A f \in Emails \ {e} : accounts'[f] = accounts[f]
      BY <1>0, <2>1, <2>2 DEF Account
    <2>4. TablesOK(accounts', invitations', live')
      BY <1>0, <2>1, <2>3 DEF TablesOK, Holders
    <2> QED
      BY <2>1, <2>3, <2>4, EvolvesSame, EnvironmentInv
  <1>3. ASSUME NEW i \in InvitationIds, Expire(i)
        PROVE  InvitationsInv' /\ UNCHANGED <<accounts, req>>
    <2>1. /\ invitations' = [invitations EXCEPT ![i].expired = TRUE]
          /\ UNCHANGED <<accounts, live, req>>
      BY <1>3 DEF Expire
    <2>2. /\ invitations' \in [InvitationIds -> Invitation]
          /\ \A j \in InvitationIds : /\ invitations'[j].state = invitations[j].state
                                      /\ invitations'[j].email = invitations[j].email
                                      /\ invitations'[j].role = invitations[j].role
      BY <1>0, <2>1 DEF Invitation
    <2>3. Evolves(invitations, invitations') /\ Offers(invitations', live)
      BY <1>0, <2>2 DEF Evolves, TablesOK, Offers
    <2>4. Holders(accounts, invitations', live)
      <3>1. \A e \in Emails : accounts[e].via # NoInvitation => accounts[e].via \in InvitationIds
        BY <1>0 DEF Account
      <3> QED
        BY <1>0, <2>2, <3>1 DEF TablesOK, Holders
    <2> QED
      BY <1>0, <2>1, <2>2, <2>3, <2>4, EnvironmentInv DEF TablesOK
  <1> QED
    BY <1>1, <1>2, <1>3 DEF Environment

LEMMA FinishInv ==
  ASSUME InvitationsInv, NEW q \in Reqs, Finish(q)
  PROVE  InvitationsInv'
  BY IdleTyped, QuietInv DEF Finish, Put

-----------------------------------------------------------------------------
(* Accounts: the inductive invariant. *)

\* A link is for an account that did not come from an invitation.
LinksOwned(rows, accs) ==
    \A l \in LinkIds : rows[l].state # "unused" =>
        /\ rows[l].email \in Emails
        /\ accs[rows[l].email].exists /\ accs[rows[l].email].via = NoInvitation

\* So is a link that is being sent.  The links that were live when the request arrived
\* are its account's; once it has looked it knows all that still are; once it has
\* stored its own, none is.
SendOK(y, rows, accs) ==
    /\ y.pc = "idle" => y.known = {}
    /\ y.pc \in {"begun", "storing"} =>
         y.email \in Emails /\ accs[y.email].exists /\ accs[y.email].via = NoInvitation
    /\ \A l \in y.known :
         /\ rows[l].state # "unused"
         /\ y.pc \in {"begun", "storing"} => rows[l].email = y.email
         /\ y.pc = "storing" /\ rows[l].state = "live" => l \in y.seen
         /\ y.pc = "stored" => rows[l].state # "live"

\* Every live link has been stored by a request, which has stored no other that is
\* live for the same address, and will withdraw this one before it stores the next.
Credit(storer, rows, snd) ==
    \A l \in LinkIds : rows[l].state = "live" =>
        /\ storer[l] \in Reqs
        /\ \A k \in LinkIds : /\ rows[k].state = "live" /\ rows[k].email = rows[l].email
                              /\ storer[k] = storer[l]
                              => k = l
        /\ snd[storer[l]].pc = "storing" /\ snd[storer[l]].email = rows[l].email
             => l \in snd[storer[l]].seen
Credited(rows, snd) ==
    \E storer \in [LinkIds -> Reqs \cup {NoEmail}] : Credit(storer, rows, snd)

AccountsInv ==
    /\ InvitationsInv
    /\ links \in [LinkIds -> Link] /\ send \in [Reqs -> Sending]
    /\ verified \subseteq {e \in Emails : accounts[e].exists}
    /\ \A e \in Emails : accounts[e].via # NoInvitation => e \in verified
    /\ LinksOwned(links, accounts)
    /\ \A q \in Reqs : /\ SendOK(send[q], links, accounts)
                       /\ send[q].pc # "idle" => req[q].pc = "done"
    /\ Credited(links, send)

\* An account stays, and does not change how it came to be.
AccountsEvolve(old, new) ==
    \A e \in Emails : old[e].exists => new[e].exists /\ new[e].via = old[e].via

\* A link keeps its address, and does not come back to life.
LinksEvolve(old, new) ==
    \A l \in LinkIds : old[l].state # "unused" =>
        /\ new[l].state # "unused" /\ new[l].email = old[l].email
        /\ new[l].state = "live" => old[l].state = "live"

LEMMA SendKept ==
  ASSUME NEW y \in Sending, NEW old, NEW new, LinksEvolve(old, new),
         NEW accs, NEW accs2, AccountsEvolve(accs, accs2), SendOK(y, old, accs)
  PROVE  SendOK(y, new, accs2)
  <1>1. \A l \in y.known : l \in LinkIds
    BY DEF Sending
  <1> QED
    BY <1>1 DEF SendOK, LinksEvolve, AccountsEvolve

LEMMA OwnedKept ==
  ASSUME NEW rows, NEW accs, NEW accs2, AccountsEvolve(accs, accs2),
         LinksOwned(rows, accs)
  PROVE  LinksOwned(rows, accs2)
  BY DEF LinksOwned, AccountsEvolve

\* The credit stands when no link comes to life, and who begins to store knows all.
LEMMA CreditKept ==
  ASSUME NEW old, NEW new, NEW snd, NEW snd2, Credited(old, snd),
         \A l \in LinkIds : new[l].state = "live" =>
             old[l].state = "live" /\ new[l].email = old[l].email,
         \A q \in Reqs : snd2[q].pc = "storing" =>
             \/ snd2[q] = snd[q]
             \/ \A l \in LinkIds : new[l].state = "live" /\ new[l].email = snd2[q].email
                                     => l \in snd2[q].seen
  PROVE  Credited(new, snd2)
  <1>1. PICK storer \in [LinkIds -> Reqs \cup {NoEmail}] : Credit(storer, old, snd)
    BY DEF Credited
  <1>2. Credit(storer, new, snd2)
    BY <1>1 DEF Credit
  <1> QED
    BY <1>2 DEF Credited

\* A step that leaves the links alone, and whose accounts are made by no link.
LEMMA NoLinkInv ==
  ASSUME AccountsInv, InvitationsInv', UNCHANGED <<links, send>>,
         AccountsEvolve(accounts, accounts'),
         verified' \subseteq {e \in Emails : accounts'[e].exists},
         \A e \in Emails : accounts'[e].via # NoInvitation => e \in verified',
         \A p \in Reqs : req[p].pc = "done" => req'[p].pc = "done"
  PROVE  AccountsInv'
  <1>1. LinksOwned(links, accounts')
    BY OwnedKept DEF AccountsInv
  <1>2. LinksEvolve(links, links)
    BY DEF LinksEvolve
  <1>3. \A q \in Reqs : SendOK(send[q], links, accounts')
    BY <1>2, SendKept DEF AccountsInv
  <1>4. links' = links /\ send' = send
    OBVIOUS
  <1>5. LinksOwned(links', accounts') /\ Credited(links', send')
    BY <1>1, <1>4 DEF AccountsInv
  <1>6. \A q \in Reqs : /\ SendOK(send'[q], links', accounts')
                        /\ send'[q].pc # "idle" => req'[q].pc = "done"
    BY <1>3, <1>4 DEF AccountsInv
  <1> QED
    BY <1>4, <1>5, <1>6 DEF AccountsInv

-----------------------------------------------------------------------------
(* Accounts: the steps. *)

LEMMA InvitationHandlersInv ==
  ASSUME AccountsInv, NEW q \in Reqs, InvitationHandlers(q),
         UNCHANGED <<verified, links, send>>
  PROVE  AccountsInv'
  <1>0. InvitationsInv /\ req \in [Reqs -> Request]
    BY DEF AccountsInv, InvitationsInv
  <1>1. InvitationsInv'
    BY <1>0, InviteInv, RevokePendingInv, IssueInv, AcceptInv, RevokeInvitationInv
       DEF InvitationHandlers
  <1>2. accounts' = accounts
    BY DEF InvitationHandlers, Invite, RevokePending, Issue, Accept, RevokeInvitation,
           Refuse, db
  <1>3. req[q].pc # "done"
    BY DEF InvitationHandlers, Invite, RevokePending, Issue, Accept, RevokeInvitation
  <1>4. \E x : req' = [req EXCEPT ![q] = x]
    BY DEF InvitationHandlers, Invite, RevokePending, Issue, Accept, RevokeInvitation,
           Refuse, Answer, Put
  <1>5. \A p \in Reqs : req[p].pc = "done" => req'[p].pc = "done"
    BY <1>0, <1>3, <1>4
  <1>6. AccountsEvolve(accounts, accounts')
    BY <1>2 DEF AccountsEvolve
  <1> QED
    BY <1>1, <1>2, <1>5, <1>6, NoLinkInv DEF AccountsInv

LEMMA InvitationStepInv ==
  ASSUME AccountsInv, InvitationStep
  PROVE  AccountsInv'
  <1>1. CASE Environment
    <2>1. /\ InvitationsInv' /\ UNCHANGED <<req, verified, links, send>>
          /\ \A e \in Emails : /\ accounts'[e].exists = accounts[e].exists
                               /\ accounts'[e].via = accounts[e].via
      BY <1>1, EnvironmentStepInv DEF AccountsInv, InvitationStep
    <2>2. AccountsEvolve(accounts, accounts')
      BY <2>1 DEF AccountsEvolve
    <2>3. verified' \subseteq {e \in Emails : accounts'[e].exists}
      BY <2>1 DEF AccountsInv
    <2>4. \A e \in Emails : accounts'[e].via # NoInvitation => e \in verified'
      BY <2>1 DEF AccountsInv
    <2> QED
      BY <2>1, <2>2, <2>3, <2>4, NoLinkInv
  <1>2. CASE \E q \in Reqs : InvitationHandlers(q)
    BY <1>2, InvitationHandlersInv DEF InvitationStep
  <1> QED
    BY <1>1, <1>2 DEF InvitationStep

\* The account that AcceptInvitation makes is verified in the same transaction.
LEMMA AcceptVerifiedInv ==
  ASSUME AccountsInv, NEW q \in Reqs, AcceptVerified(q)
  PROVE  AccountsInv'
  <1> DEFINE i == req[q].invitation
             e == invitations[i].email
  <1>0. /\ InvitationsInv /\ req \in [Reqs -> Request] /\ Asked(req[q], invitations)
        /\ req[q].pc = "accepting" /\ i \in InvitationIds
    BY DEF AccountsInv, InvitationsInv, AcceptVerified, Claim, Asked
  <1>1. /\ InvitationsInv' /\ Claim(q) /\ UNCHANGED <<links, send>>
        /\ verified' = verified \cup {f \in Emails : accounts'[f] # accounts[f]}
    BY <1>0, ClaimInv DEF AcceptVerified
  <1>2. \A p \in Reqs : req[p].pc = "done" => req'[p].pc = "done"
    <2>1. \E x : req' = [req EXCEPT ![q] = x]
      BY <1>1 DEF Claim, Answer, Put
    <2> QED
      BY <1>0, <2>1
  <1>3. CASE accounts' = accounts
    <2>1. verified' = verified /\ AccountsEvolve(accounts, accounts')
      BY <1>1, <1>3 DEF AccountsEvolve
    <2> QED
      BY <1>1, <1>2, <1>3, <2>1, NoLinkInv DEF AccountsInv
  <1>4. CASE accounts' # accounts
    <2>1. invitations[i].state = "open" /\ ~accounts[e].exists
      BY <1>1, <1>4 DEF Claim, db
    <2>2. /\ e \in Emails /\ accounts'[e].exists /\ accounts'[e].via = i
          /\ \A f \in Emails \ {e} : accounts'[f] = accounts[f]
      BY <1>0, <1>1, <2>1, ClaimFacts
    <2> HIDE DEF e, i
    <2>3. accounts'[e] # accounts[e]
      BY <2>1, <2>2
    <2>4. verified' = verified \cup {e}
      BY <1>1, <2>2, <2>3
    <2>5. AccountsEvolve(accounts, accounts')
      BY <2>1, <2>2 DEF AccountsEvolve
    <2>6. verified' \subseteq {f \in Emails : accounts'[f].exists}
      BY <2>1, <2>2, <2>4 DEF AccountsInv
    <2>7. \A f \in Emails : accounts'[f].via # NoInvitation => f \in verified'
      BY <2>2, <2>4 DEF AccountsInv
    <2> QED
      BY <1>1, <1>2, <2>5, <2>6, <2>7, NoLinkInv
  <1> QED
    BY <1>3, <1>4

\* What a step that sends or uses a link has to show: of the requests, only for those
\* whose own sending it changes.
LEMMA LinkStepInv ==
  ASSUME AccountsInv, InvitationsInv',
         links' \in [LinkIds -> Link], send' \in [Reqs -> Sending],
         AccountsEvolve(accounts, accounts'), LinksEvolve(links, links'),
         verified' \subseteq {e \in Emails : accounts'[e].exists},
         \A e \in Emails : accounts'[e].via # NoInvitation => e \in verified',
         LinksOwned(links', accounts'), Credited(links', send'),
         \A p \in Reqs :
             \/ send'[p] = send[p] /\ (req[p].pc = "done" => req'[p].pc = "done")
             \/ /\ SendOK(send'[p], links', accounts')
                /\ send'[p].pc # "idle" => req'[p].pc = "done"
  PROVE  AccountsInv'
  <1>1. \A p \in Reqs : send[p] \in Sending /\ SendOK(send[p], links, accounts)
    BY DEF AccountsInv
  <1>2. \A p \in Reqs : SendOK(send[p], links', accounts')
    BY <1>1, SendKept
  <1>3. \A p \in Reqs : /\ SendOK(send'[p], links', accounts')
                        /\ send'[p].pc # "idle" => req'[p].pc = "done"
    BY <1>2 DEF AccountsInv
  <1> QED
    BY <1>3 DEF AccountsInv

LEMMA EvolveSame ==
  /\ \A accs : AccountsEvolve(accs, accs)
  /\ \A rows : LinksEvolve(rows, rows)
  BY DEF AccountsEvolve, LinksEvolve

\* A link about to be sent, for an account that did not come from an invitation.
LEMMA BegunOK ==
  ASSUME AccountsInv, NEW e \in Emails, NEW accs,
         accs[e].exists, accs[e].via = NoInvitation
  PROVE  /\ Begun(e) \in Sending /\ Begun(e).pc = "begun" /\ Begun(e).email = e
         /\ SendOK(Begun(e), links, accs)
  <1>1. LinksOf(e, {"live"}) \subseteq LinkIds
    BY DEF LinksOf
  <1>2. /\ Begun(e) \in Sending /\ Begun(e).pc = "begun" /\ Begun(e).email = e
        /\ Begun(e).known = LinksOf(e, {"live"})
    BY <1>1 DEF Begun, NotSending, Sending
  <1>3. \A l \in LinksOf(e, {"live"}) : links[l].state # "unused" /\ links[l].email = e
    BY DEF LinksOf
  <1> QED
    BY <1>2, <1>3 DEF SendOK

LEMMA NotSendingOK ==
  /\ NotSending \in Sending /\ NotSending.pc = "idle"
  /\ \A rows, accs : SendOK(NotSending, rows, accs)
  BY DEF NotSending, Sending, SendOK

LEMMA RegisterAndSendInv ==
  ASSUME AccountsInv, NEW q \in Reqs, NEW e \in Emails, RegisterAndSend(q, e)
  PROVE  AccountsInv'
  <1>0. /\ InvitationsInv /\ Register(q, e) /\ UNCHANGED <<verified, links>>
        /\ send \in [Reqs -> Sending] /\ req \in [Reqs -> Request]
    BY DEF AccountsInv, InvitationsInv, RegisterAndSend
  <1>1. /\ InvitationsInv' /\ accounts'[e].exists
        /\ ~accounts[e].exists => accounts'[e].via = NoInvitation
        /\ accounts[e].exists => accounts' = accounts
        /\ \A f \in Emails \ {e} : accounts'[f] = accounts[f]
        /\ req[q].pc = "idle" /\ req' = [req EXCEPT ![q] = req'[q]]
        /\ req'[q].pc = "done"
    BY <1>0, RegisterFacts
  <1>2. AccountsEvolve(accounts, accounts')
    BY <1>1 DEF AccountsEvolve
  <1>3. \A p \in Reqs : req[p].pc = "done" => req'[p].pc = "done"
    BY <1>0, <1>1
  <1>4. verified' \subseteq {f \in Emails : accounts'[f].exists}
    BY <1>0, <1>1 DEF AccountsInv
  <1>5. \A f \in Emails : accounts'[f].via # NoInvitation => f \in verified'
    BY <1>0, <1>1 DEF AccountsInv
  <1>6. CASE accounts[e].exists
    <2>1. UNCHANGED <<links, send>>
      BY <1>0, <1>6 DEF RegisterAndSend
    <2> QED
      BY <1>1, <1>2, <1>3, <1>4, <1>5, <2>1, NoLinkInv
  <1>7. CASE ~accounts[e].exists
    <2>1. /\ Begun(e) \in Sending /\ Begun(e).pc = "begun"
          /\ SendOK(Begun(e), links, accounts')
      BY <1>1, <1>7, BegunOK
    <2>2. send' = [send EXCEPT ![q] = Begun(e)]
      BY <1>7 DEF RegisterAndSend
    <2>3. /\ send' \in [Reqs -> Sending] /\ send'[q] = Begun(e)
          /\ \A p \in Reqs \ {q} : send'[p] = send[p]
      BY <1>0, <2>1, <2>2
    <2>4. Credited(links', send')
      BY <1>0, <2>1, <2>3, CreditKept DEF AccountsInv
    <2>5. LinksOwned(links', accounts')
      BY <1>0, <1>2, OwnedKept DEF AccountsInv
    <2>6. links' \in [LinkIds -> Link] /\ LinksEvolve(links, links')
      BY <1>0, EvolveSame DEF AccountsInv
    <2>7. \A p \in Reqs :
            \/ send'[p] = send[p] /\ (req[p].pc = "done" => req'[p].pc = "done")
            \/ /\ SendOK(send'[p], links', accounts')
               /\ send'[p].pc # "idle" => req'[p].pc = "done"
      BY <1>0, <1>1, <1>3, <2>1, <2>3
    <2> QED
      BY <1>1, <1>2, <1>4, <1>5, <2>3, <2>4, <2>5, <2>6, <2>7, LinkStepInv
  <1> QED
    BY <1>6, <1>7

\* A refusal of this module, and an answer that is not about invitations.
LEMMA DoneInv ==
  ASSUME AccountsInv, NEW q \in Reqs, NEW x \in Request, x.pc = "done", x.known = {},
         Put(q, x), UNCHANGED db
  PROVE  /\ InvitationsInv' /\ UNCHANGED accounts /\ req'[q].pc = "done"
         /\ \A p \in Reqs : req[p].pc = "done" => req'[p].pc = "done"
  <1>1. InvitationsInv /\ req \in [Reqs -> Request]
    BY DEF AccountsInv, InvitationsInv
  <1>2. req' = [req EXCEPT ![q] = x] /\ UNCHANGED accounts
    BY DEF Put, db
  <1>3. Asked(x, invitations)
    BY DEF Asked
  <1>4. InvitationsInv'
    BY <1>1, <1>2, <1>3, QuietInv
  <1> QED
    BY <1>1, <1>2, <1>4

\* An answer of this module that changes nothing else.
LEMMA RefusedInv ==
  ASSUME AccountsInv, NEW q \in Reqs, NEW e \in Emails \cup {NoEmail},
         Refuse(q, "none", e, "invalid"), UNCHANGED <<verified, links, send>>
  PROVE  AccountsInv'
  <1> DEFINE x == [Idle EXCEPT !.pc = "done", !.op = "none", !.email = e,
                               !.result = "invalid"]
  <1>1. x \in Request /\ x.pc = "done" /\ x.known = {}
    BY IdleTyped DEF Request
  <1>2. Put(q, x) /\ UNCHANGED db
    BY DEF Refuse
  <1> HIDE DEF x
  <1>3. /\ InvitationsInv' /\ UNCHANGED accounts
        /\ \A p \in Reqs : req[p].pc = "done" => req'[p].pc = "done"
    BY <1>1, <1>2, DoneInv
  <1>4. AccountsEvolve(accounts, accounts')
    BY <1>3, EvolveSame
  <1> QED
    BY <1>3, <1>4, NoLinkInv DEF AccountsInv

LEMMA ResendVerificationInv ==
  ASSUME AccountsInv, NEW q \in Reqs, NEW e \in Emails, ResendVerification(q, e)
  PROVE  AccountsInv'
  <1>0. /\ accounts[e].exists /\ UNCHANGED <<db, verified, links>>
        /\ send \in [Reqs -> Sending] /\ req \in [Reqs -> Request]
    BY DEF AccountsInv, InvitationsInv, ResendVerification
  <1>1. CASE e \in verified
    BY <1>1, RefusedInv DEF ResendVerification
  <1>2. CASE e \notin verified
    <2> DEFINE x == [Idle EXCEPT !.pc = "done", !.email = e]
    <2>1. Put(q, x) /\ send' = [send EXCEPT ![q] = Begun(e)]
      BY <1>2 DEF ResendVerification
    <2>2. x \in Request /\ x.pc = "done" /\ x.known = {}
      BY IdleTyped DEF Request
    <2> HIDE DEF x
    <2>3. /\ InvitationsInv' /\ UNCHANGED accounts /\ req'[q].pc = "done"
          /\ \A p \in Reqs : req[p].pc = "done" => req'[p].pc = "done"
      BY <1>0, <2>1, <2>2, DoneInv
    <2>4. accounts[e].via = NoInvitation
      BY <1>2 DEF AccountsInv
    <2>5. /\ Begun(e) \in Sending /\ Begun(e).pc = "begun"
          /\ SendOK(Begun(e), links, accounts)
      BY <1>0, <2>4, BegunOK
    <2>6. /\ send' \in [Reqs -> Sending] /\ send'[q] = Begun(e)
          /\ \A p \in Reqs \ {q} : send'[p] = send[p]
      BY <1>0, <2>1, <2>5
    <2>7. Credited(links', send')
      BY <1>0, <2>5, <2>6, CreditKept DEF AccountsInv
    <2>8. /\ LinksOwned(links', accounts') /\ links' \in [LinkIds -> Link]
          /\ verified' \subseteq {f \in Emails : accounts'[f].exists}
          /\ \A f \in Emails : accounts'[f].via # NoInvitation => f \in verified'
      BY <1>0, <2>3 DEF AccountsInv
    <2>9. AccountsEvolve(accounts, accounts') /\ LinksEvolve(links, links')
      BY <1>0, <2>3, EvolveSame
    <2>10. \A p \in Reqs :
            \/ send'[p] = send[p] /\ (req[p].pc = "done" => req'[p].pc = "done")
            \/ /\ SendOK(send'[p], links', accounts')
               /\ send'[p].pc # "idle" => req'[p].pc = "done"
      BY <1>0, <2>3, <2>5, <2>6
    <2> QED
      BY <2>3, <2>6, <2>7, <2>8, <2>9, <2>10, LinkStepInv
  <1> QED
    BY <1>1, <1>2

\* Invitations and accounts do not take part in what the following steps do.
LEMMA UnchangedVars ==
  ASSUME AccountsInv, UNCHANGED vars
  PROVE  /\ InvitationsInv' /\ AccountsEvolve(accounts, accounts')
         /\ UNCHANGED <<accounts, req>>
  <1>1. UNCHANGED <<accounts, live, invitations, req>>
    BY DEF vars, db
  <1>2. InvitationsInv /\ Evolves(invitations, invitations')
    BY <1>1, EvolvesSame DEF AccountsInv
  <1>3. TablesOK(accounts', invitations', live')
    BY <1>1, <1>2 DEF InvitationsInv
  <1>4. InvitationsInv'
    BY <1>1, <1>2, <1>3, EnvironmentInv
  <1> QED
    BY <1>1, <1>4, EvolveSame

\* A step of a sending that leaves the accounts, the requests and the links alone.
LEMMA SendStepInv ==
  ASSUME AccountsInv, NEW q \in Reqs, NEW y \in Sending, UNCHANGED <<vars, verified, links>>,
         send' = [send EXCEPT ![q] = y], SendOK(y, links, accounts),
         y.pc # "idle" => req[q].pc = "done",
         y.pc = "storing" =>
             \A l \in LinkIds : links[l].state = "live" /\ links[l].email = y.email
                                  => l \in y.seen
  PROVE  AccountsInv'
  <1>1. /\ InvitationsInv' /\ AccountsEvolve(accounts, accounts')
        /\ UNCHANGED <<accounts, req>>
    BY UnchangedVars
  <1>2. /\ send' \in [Reqs -> Sending] /\ send'[q] = y
        /\ \A p \in Reqs \ {q} : send'[p] = send[p]
    BY DEF AccountsInv
  <1>3. Credited(links, send')
    <2>1. Credited(links, send) /\ \A l \in LinkIds : links[l].state = "live" =>
            links[l].state = "live" /\ links[l].email = links[l].email
      BY DEF AccountsInv
    <2>2. \A p \in Reqs : send'[p].pc = "storing" =>
            \/ send'[p] = send[p]
            \/ \A l \in LinkIds :
                 links[l].state = "live" /\ links[l].email = send'[p].email
                   => l \in send'[p].seen
      BY <1>2
    <2> QED
      BY <2>1, <2>2, CreditKept
  <1>4. /\ LinksOwned(links', accounts') /\ links' \in [LinkIds -> Link]
        /\ verified' \subseteq {f \in Emails : accounts'[f].exists}
        /\ \A f \in Emails : accounts'[f].via # NoInvitation => f \in verified'
    BY <1>1 DEF AccountsInv
  <1>5. LinksEvolve(links, links') /\ Credited(links', send')
    BY <1>3, EvolveSame
  <1>6. \A p \in Reqs :
          \/ send'[p] = send[p] /\ (req[p].pc = "done" => req'[p].pc = "done")
          \/ /\ SendOK(send'[p], links', accounts')
             /\ send'[p].pc # "idle" => req'[p].pc = "done"
    BY <1>1, <1>2
  <1> QED
    BY <1>1, <1>2, <1>4, <1>5, <1>6, LinkStepInv

LEMMA SeeLinksInv ==
  ASSUME AccountsInv, NEW q \in Reqs, SeeLinks(q)
  PROVE  AccountsInv'
  <1> DEFINE e == send[q].email
             y == [send[q] EXCEPT !.pc = "storing", !.seen = LinksOf(e, {"live", "expired"})]
  <1>1. /\ send \in [Reqs -> Sending] /\ send[q] \in Sending
        /\ SendOK(send[q], links, accounts) /\ send[q].pc = "begun"
        /\ req[q].pc = "done" /\ UNCHANGED <<vars, verified, links>>
    BY DEF AccountsInv, SeeLinks
  <1>2. send' = [send EXCEPT ![q] = y]
    BY <1>1 DEF SeeLinks
  <1>3. LinksOf(e, {"live", "expired"}) \subseteq LinkIds
    BY DEF LinksOf
  <1>4. /\ y \in Sending /\ y.pc = "storing" /\ y.email = e /\ y.known = send[q].known
        /\ y.seen = LinksOf(e, {"live", "expired"})
    BY <1>1, <1>3 DEF Sending
  <1> HIDE DEF y
  <1>5. \A l \in LinkIds : links[l].state = "live" /\ links[l].email = e => l \in y.seen
    BY <1>4 DEF LinksOf
  <1>6. send[q].known \subseteq LinkIds
    BY <1>1 DEF Sending
  <1>7. SendOK(y, links, accounts)
    BY <1>1, <1>4, <1>5, <1>6 DEF SendOK
  <1> QED
    BY <1>1, <1>2, <1>4, <1>5, <1>7, SendStepInv

LEMMA SendFailsInv ==
  ASSUME AccountsInv, NEW q \in Reqs, SendFails(q)
  PROVE  AccountsInv'
  BY NotSendingOK, SendStepInv DEF SendFails

LEMMA FinishSendingInv ==
  ASSUME AccountsInv, NEW q \in Reqs, FinishSending(q)
  PROVE  AccountsInv'
  <1>0. /\ InvitationsInv /\ Finish(q) /\ UNCHANGED <<verified, links>>
        /\ send \in [Reqs -> Sending] /\ req \in [Reqs -> Request]
        /\ send' = [send EXCEPT ![q] = NotSending]
    BY DEF AccountsInv, InvitationsInv, FinishSending
  <1>1. InvitationsInv' /\ UNCHANGED accounts /\ req' = [req EXCEPT ![q] = Idle]
    BY <1>0, FinishInv DEF Finish, Put, db
  <1>2. /\ send' \in [Reqs -> Sending] /\ send'[q] = NotSending
        /\ \A p \in Reqs \ {q} : send'[p] = send[p] /\ req'[p] = req[p]
    BY <1>0, <1>1, NotSendingOK
  <1>3. Credited(links', send')
    BY <1>0, <1>2, NotSendingOK, CreditKept DEF AccountsInv
  <1>4. /\ LinksOwned(links', accounts') /\ links' \in [LinkIds -> Link]
        /\ verified' \subseteq {f \in Emails : accounts'[f].exists}
        /\ \A f \in Emails : accounts'[f].via # NoInvitation => f \in verified'
    BY <1>0, <1>1 DEF AccountsInv
  <1>5. LinksEvolve(links, links') /\ AccountsEvolve(accounts, accounts')
    BY <1>0, <1>1, EvolveSame
  <1>6. \A p \in Reqs :
          \/ send'[p] = send[p] /\ (req[p].pc = "done" => req'[p].pc = "done")
          \/ /\ SendOK(send'[p], links', accounts')
             /\ send'[p].pc # "idle" => req'[p].pc = "done"
    BY <1>2, NotSendingOK
  <1> QED
    BY <1>1, <1>2, <1>3, <1>4, <1>5, <1>6, LinkStepInv

\* Storing withdraws what the request has seen, and so all that were live when it came
\* and all that it has stored before.
LEMMA StoreLinkInv ==
  ASSUME AccountsInv, NEW q \in Reqs, NEW l \in LinkIds, StoreLink(q, l)
  PROVE  AccountsInv'
  <1> DEFINE e == send[q].email
             y == [send[q] EXCEPT !.pc = "stored", !.seen = {}]
             row == [state |-> "live", email |-> e]
             outstanding == send[q].seen \cap LinksOf(e, {"live", "expired"})
             new(k) == IF k = l THEN row
                       ELSE IF k \in outstanding THEN [links[k] EXCEPT !.state = "withdrawn"]
                       ELSE links[k]
  <1>1. /\ send \in [Reqs -> Sending] /\ send[q] \in Sending
        /\ SendOK(send[q], links, accounts) /\ send[q].pc = "storing"
        /\ req[q].pc = "done" /\ UNCHANGED <<vars, verified>>
        /\ links \in [LinkIds -> Link] /\ links[l].state = "unused"
        /\ LinksOwned(links, accounts)
    BY DEF AccountsInv, StoreLink
  <1>2. /\ e \in Emails /\ accounts[e].exists /\ accounts[e].via = NoInvitation
        /\ send[q].known \subseteq LinkIds
    BY <1>1 DEF SendOK, Sending
  <1>3. send' = [send EXCEPT ![q] = y] /\ links' = [k \in LinkIds |-> new(k)]
    BY <1>1 DEF StoreLink
  <1>4. y \in Sending /\ y.pc = "stored" /\ y.known = send[q].known
    BY <1>1 DEF Sending
  <1>5. row \in Link /\ row.state = "live" /\ row.email = e
    BY <1>2 DEF Link
  <1>6. ASSUME NEW k \in LinkIds \ {l}
        PROVE  /\ new(k) \in Link /\ new(k).email = links[k].email
               /\ \/ /\ k \in send[q].seen /\ links[k].email = e
                     /\ links[k].state \in {"live", "expired"}
                     /\ new(k).state = "withdrawn"
                  \/ /\ new(k).state = links[k].state
                     /\ ~(/\ k \in send[q].seen /\ links[k].email = e
                          /\ links[k].state = "live")
    <2>1. links[k] \in Link
      BY <1>1
    <2> QED
      BY <2>1 DEF Link, LinksOf
  <1> HIDE DEF y, row
  <1>7. /\ links' \in [LinkIds -> Link] /\ links'[l] = row
        /\ \A k \in LinkIds \ {l} :
             /\ links'[k].email = links[k].email
             /\ \/ /\ links[k].state \in {"live", "expired"} /\ links'[k].state = "withdrawn"
                \/ links'[k].state = links[k].state
             /\ ~(/\ links'[k].state = "live" /\ links[k].email = e /\ k \in send[q].seen)
    <2>1. new(l) = row
      OBVIOUS
    <2>2. \A k \in LinkIds : new(k) \in Link
      BY <1>5, <1>6, <2>1
    <2> HIDE DEF new
    <2> QED
      BY <1>3, <1>6, <2>1, <2>2
  <1> HIDE DEF new, outstanding
  <1>8. LinksEvolve(links, links')
    BY <1>1, <1>7 DEF LinksEvolve
  <1>9. /\ send' \in [Reqs -> Sending] /\ send'[q] = y
        /\ \A p \in Reqs \ {q} : send'[p] = send[p]
    BY <1>1, <1>3, <1>4
  <1>10. /\ InvitationsInv' /\ AccountsEvolve(accounts, accounts')
         /\ UNCHANGED <<accounts, req>>
    BY <1>1, UnchangedVars
  <1>11. LinksOwned(links', accounts')
    BY <1>1, <1>2, <1>5, <1>7, <1>10 DEF LinksOwned
  <1>12. SendOK(y, links', accounts')
    <2>1. \A k \in send[q].known : /\ k # l /\ links[k].email = e
                                   /\ links[k].state = "live" => k \in send[q].seen
                                   /\ links[k].state # "unused"
      BY <1>1 DEF SendOK
    <2>2. \A k \in send[q].known : links'[k].state \notin {"unused", "live"}
      BY <1>2, <1>7, <2>1
    <2> QED
      BY <1>4, <2>2 DEF SendOK
  <1>13. Credited(links', send')
    <2>1. PICK storer \in [LinkIds -> Reqs \cup {NoEmail}] : Credit(storer, links, send)
      BY DEF AccountsInv, Credited
    <2> DEFINE next == [storer EXCEPT ![l] = q]
    <2>2. /\ next \in [LinkIds -> Reqs \cup {NoEmail}] /\ next[l] = q
          /\ \A k \in LinkIds \ {l} : next[k] = storer[k]
      OBVIOUS
    <2> HIDE DEF next
    <2>3. \A k \in LinkIds \ {l} : links'[k].state = "live" => links[k].state = "live"
      BY <1>7
    <2>4. \A k \in LinkIds \ {l} :
            links'[k].state = "live" /\ links'[k].email = e => next[k] # q
      BY <1>1, <1>7, <2>1, <2>2, <2>3 DEF Credit
    <2>5. Credit(next, links', send')
      <3> SUFFICES ASSUME NEW k \in LinkIds, links'[k].state = "live"
                   PROVE  /\ next[k] \in Reqs
                          /\ \A j \in LinkIds :
                               /\ links'[j].state = "live"
                               /\ links'[j].email = links'[k].email /\ next[j] = next[k]
                               => j = k
                          /\ /\ send'[next[k]].pc = "storing"
                             /\ send'[next[k]].email = links'[k].email
                             => k \in send'[next[k]].seen
        BY DEF Credit
      <3>1. CASE k = l
        BY <1>4, <1>5, <1>7, <1>9, <2>2, <2>4, <3>1
      <3>2. CASE k # l
        <4>1. /\ links[k].state = "live" /\ links'[k].email = links[k].email
              /\ next[k] = storer[k] /\ storer[k] \in Reqs
          BY <1>7, <2>1, <2>2, <3>2 DEF Credit
        <4>2. ASSUME NEW j \in LinkIds, links'[j].state = "live",
                     links'[j].email = links'[k].email, next[j] = next[k]
              PROVE  j = k
          <5>1. j # l
            BY <1>5, <1>7, <2>2, <2>4, <3>2, <4>2
          <5> QED
            BY <1>7, <2>1, <2>2, <4>1, <4>2, <5>1 DEF Credit
        <4>3. ASSUME send'[next[k]].pc = "storing", send'[next[k]].email = links'[k].email
              PROVE  k \in send'[next[k]].seen
          <5>1. next[k] # q
            BY <1>4, <1>9, <4>3
          <5> QED
            BY <1>9, <2>1, <4>1, <4>3, <5>1 DEF Credit
        <4> QED
          BY <4>1, <4>2, <4>3
      <3> QED
        BY <3>1, <3>2
    <2> QED
      BY <2>2, <2>5 DEF Credited
  <1>14. /\ verified' \subseteq {f \in Emails : accounts'[f].exists}
         /\ \A f \in Emails : accounts'[f].via # NoInvitation => f \in verified'
    BY <1>1, <1>10 DEF AccountsInv
  <1>15. \A p \in Reqs :
           \/ send'[p] = send[p] /\ (req[p].pc = "done" => req'[p].pc = "done")
           \/ /\ SendOK(send'[p], links', accounts')
              /\ send'[p].pc # "idle" => req'[p].pc = "done"
    BY <1>1, <1>9, <1>10, <1>12
  <1> QED
    BY <1>7, <1>8, <1>9, <1>10, <1>11, <1>13, <1>14, <1>15, LinkStepInv

\* A link that is used or expires.
LEMMA LinkEndsInv ==
  ASSUME AccountsInv, InvitationsInv', UNCHANGED <<accounts, send>>, NEW l \in LinkIds,
         NEW state \in {"spent", "expired"}, links[l].state = "live",
         links' = [links EXCEPT ![l].state = state],
         verified' \in {verified, verified \cup {links[l].email}},
         \A p \in Reqs : req[p].pc = "done" => req'[p].pc = "done"
  PROVE  AccountsInv'
  <1>0. /\ links \in [LinkIds -> Link] /\ LinksOwned(links, accounts)
        /\ verified \subseteq {e \in Emails : accounts[e].exists}
        /\ send \in [Reqs -> Sending] /\ Credited(links, send)
    BY DEF AccountsInv
  <1>1. /\ links' \in [LinkIds -> Link]
        /\ \A k \in LinkIds : /\ links'[k].email = links[k].email
                              /\ links'[k].state = "unused" <=> links[k].state = "unused"
                              /\ links'[k].state = "live" => links[k].state = "live"
    BY <1>0 DEF Link
  <1>2. /\ LinksEvolve(links, links') /\ LinksOwned(links', accounts')
        /\ AccountsEvolve(accounts, accounts')
    BY <1>0, <1>1, EvolveSame DEF LinksEvolve, LinksOwned
  <1>3. Credited(links', send')
    <2>1. PICK storer \in [LinkIds -> Reqs \cup {NoEmail}] : Credit(storer, links, send)
      BY <1>0 DEF Credited
    <2>2. Credit(storer, links', send)
      BY <1>1, <2>1 DEF Credit
    <2> QED
      BY <2>2 DEF Credited
  <1>4. links[l].email \in {e \in Emails : accounts[e].exists}
    BY <1>0 DEF LinksOwned
  <1>5. /\ verified' \subseteq {e \in Emails : accounts'[e].exists}
        /\ \A e \in Emails : accounts'[e].via # NoInvitation => e \in verified'
    BY <1>4 DEF AccountsInv
  <1> QED
    BY <1>0, <1>1, <1>2, <1>3, <1>5, LinkStepInv

LEMMA VerifyEmailInv ==
  ASSUME AccountsInv, NEW q \in Reqs, NEW l \in LinkIds, VerifyEmail(q, l)
  PROVE  AccountsInv'
  <1>1. CASE links[l].state # "live"
    BY <1>1, RefusedInv DEF VerifyEmail
  <1>2. CASE links[l].state = "live"
    <2> DEFINE x == [Idle EXCEPT !.pc = "done", !.result = "ok"]
    <2>1. /\ Put(q, x) /\ links' = [links EXCEPT ![l].state = "spent"]
          /\ verified' = verified \cup {links[l].email} /\ UNCHANGED <<db, send>>
      BY <1>2 DEF VerifyEmail
    <2>2. x \in Request /\ x.pc = "done" /\ x.known = {}
      BY IdleTyped DEF Request
    <2> HIDE DEF x
    <2>3. /\ InvitationsInv' /\ UNCHANGED accounts
          /\ \A p \in Reqs : req[p].pc = "done" => req'[p].pc = "done"
      BY <2>1, <2>2, DoneInv
    <2> QED
      BY <1>2, <2>1, <2>3, LinkEndsInv
  <1> QED
    BY <1>1, <1>2

LEMMA ExpireLinkInv ==
  ASSUME AccountsInv, NEW l \in LinkIds, ExpireLink(l)
  PROVE  AccountsInv'
  BY UnchangedVars, LinkEndsInv DEF ExpireLink

\* Rows are deleted when no request is left that knows them.
LEMMA CleanupInv ==
  ASSUME AccountsInv, Cleanup
  PROVE  AccountsInv'
  <1>0. /\ links \in [LinkIds -> Link] /\ send \in [Reqs -> Sending]
        /\ LinksOwned(links, accounts) /\ Credited(links, send)
        /\ \A q \in Reqs : SendOK(send[q], links, accounts)
        /\ \A q \in Reqs : send[q].pc # "idle" => req[q].pc = "done"
    BY DEF AccountsInv
  <1>1. /\ InvitationsInv' /\ UNCHANGED <<accounts, req, verified, send>>
    BY UnchangedVars DEF Cleanup
  <1>2. PICK pruned \in SUBSET LinkIds :
          links' = [l \in LinkIds |-> IF l \in pruned THEN UnusedLink ELSE links[l]]
    BY DEF Cleanup
  <1>3. UnusedLink \in Link /\ UnusedLink.state = "unused"
    BY DEF UnusedLink, Link
  <1>4. /\ links' \in [LinkIds -> Link]
        /\ \A l \in LinkIds : links'[l] = links[l] \/ links'[l].state = "unused"
    <2>1. \A l \in LinkIds :
            (IF l \in pruned THEN UnusedLink ELSE links[l]) \in Link
      BY <1>0, <1>3
    <2> QED
      BY <1>2, <1>3, <2>1
  <1>5. \A q \in Reqs : SendOK(send[q], links', accounts)
    <2>1. \A q \in Reqs : send[q].pc = "idle"
      BY <1>0 DEF Cleanup
    <2> QED
      BY <1>0, <2>1 DEF SendOK
  <1>6. LinksOwned(links', accounts) /\ Credited(links', send)
    <2>1. LinksOwned(links', accounts)
      BY <1>0, <1>4 DEF LinksOwned
    <2>2. \A l \in LinkIds : links'[l].state = "live" =>
            links[l].state = "live" /\ links'[l].email = links[l].email
      BY <1>4
    <2> QED
      BY <1>0, <2>1, <2>2, CreditKept
  <1> QED
    BY <1>1, <1>4, <1>5, <1>6 DEF AccountsInv

-----------------------------------------------------------------------------
(* Accounts: the invariant. *)

LEMMA AccountsInitInv == AccountsInit => AccountsInv
  <1> SUFFICES ASSUME AccountsInit PROVE AccountsInv
    OBVIOUS
  <1>1. /\ accounts = [e \in Emails |-> NoAccount] /\ live = Roles
        /\ invitations = [i \in InvitationIds |-> Unused] /\ req = [q \in Reqs |-> Idle]
        /\ verified = {} /\ links = [l \in LinkIds |-> UnusedLink]
        /\ send = [q \in Reqs |-> NotSending]
    BY DEF AccountsInit, Init
  <1>2. /\ NoAccount \in Account /\ NoAccount.via = NoInvitation
        /\ NoAccount.role = NoRole /\ ~NoAccount.exists
    BY DEF NoAccount, Account
  <1>3. Unused \in Invitation /\ Unused.state = "unused"
    BY DEF Unused, Invitation
  <1>4. UnusedLink \in Link /\ UnusedLink.state = "unused"
    BY DEF UnusedLink, Link
  <1>5. TablesOK(accounts, invitations, live)
    BY <1>1, <1>2, <1>3 DEF TablesOK, Offers, Holders
  <1>6. InvitationsInv
    BY <1>1, <1>5, IdleTyped DEF InvitationsInv
  <1>7. Credited(links, send)
    <2> DEFINE storer == [l \in LinkIds |-> NoEmail]
    <2>1. storer \in [LinkIds -> Reqs \cup {NoEmail}] /\ Credit(storer, links, send)
      BY <1>1, <1>4 DEF Credit
    <2> QED
      BY <2>1 DEF Credited
  <1>8. LinksOwned(links, accounts)
    BY <1>1, <1>4 DEF LinksOwned
  <1> QED
    BY <1>1, <1>2, <1>4, <1>6, <1>7, <1>8, NotSendingOK DEF AccountsInv

LEMMA AccountsNextInv == AccountsInv /\ [AccountsNext]_accountVars => AccountsInv'
  <1> SUFFICES ASSUME AccountsInv, [AccountsNext]_accountVars PROVE AccountsInv'
    OBVIOUS
  <1>1. ASSUME NEW q \in Reqs, VerificationHandlers(q) PROVE AccountsInv'
    BY <1>1, RegisterAndSendInv, ResendVerificationInv, SeeLinksInv, StoreLinkInv,
       VerifyEmailInv, SendFailsInv, AcceptVerifiedInv, FinishSendingInv
       DEF VerificationHandlers
  <1>2. CASE UNCHANGED accountVars
    BY <1>2, UnchangedVars, NoLinkInv DEF accountVars, AccountsInv
  <1> QED
    BY <1>1, <1>2, ExpireLinkInv, CleanupInv, InvitationStepInv DEF AccountsNext

LEMMA AccountsInvariant == AccountsSpec => []AccountsInv
  BY AccountsInitInv, AccountsNextInv, PTL DEF AccountsSpec

-----------------------------------------------------------------------------
(* Accounts: the theorems. *)

\* Every row and every request keeps its type, only an account has a role, only an
\* account is verified, and an address never has two open invitations.
THEOREM AccountsTypeCorrect == AccountsSpec => []AccountsTypeOK
  <1>1. AccountsInv => AccountsTypeOK
    <2> SUFFICES ASSUME AccountsInv PROVE AccountsTypeOK
      OBVIOUS
    <2>1. TablesOK(accounts, invitations, live) /\ req \in [Reqs -> Request]
      BY DEF AccountsInv, InvitationsInv
    <2>2. ASSUME NEW e \in Emails PROVE Cardinality(OpenFor(e)) <= 1
      <3>1. CASE OpenFor(e) = {}
        BY <3>1, FS_EmptySet
      <3>2. CASE OpenFor(e) # {}
        <4>1. PICK i \in OpenFor(e) : TRUE
          BY <3>2
        <4>2. OpenFor(e) = {i}
          BY <2>1, <4>1 DEF OpenFor, TablesOK, Offers
        <4>3. Cardinality({i}) = 1
          BY FS_Singleton
        <4> QED
          BY <4>2, <4>3
      <3> QED
        BY <3>1, <3>2
    <2> QED
      BY <2>1, <2>2 DEF AccountsInv, AccountsTypeOK, TypeOK, TablesOK, Holders
  <1> QED
    BY <1>1, AccountsInvariant, PTL

\* Once Invite or RevokeInvitation has answered with success, no link that was open
\* when the request came can be accepted, whatever ran in between.
THEOREM OldInvitationsDie == AccountsSpec => []OldLinksDie
  <1>1. AccountsInv => OldLinksDie
    <2> SUFFICES ASSUME AccountsInv, NEW q \in Reqs, Succeeded(req[q]),
                        NEW i \in req[q].known
                 PROVE  ~Pending(i)
      BY DEF OldLinksDie, Withdrew, Succeeded
    <2> QED
      BY DEF AccountsInv, InvitationsInv, Asked, Pending
  <1> QED
    BY <1>1, AccountsInvariant, PTL

\* What one step says of the invitations that accounts are made from.
SpentByAccepting ==
    \A e \in Emails : accounts'[e].via # accounts[e].via =>
        LET i == accounts'[e].via IN
        /\ invitations'[i].state = "accepted" /\ invitations'[i].email = e
        /\ \A f \in Emails : accounts[f].via # i
        /\ \A q \in Reqs : Withdrew(q) => i \notin req[q].known

LEMMA ClaimSpends ==
  ASSUME InvitationsInv, NEW q \in Reqs, Claim(q)
  PROVE  SpentByAccepting
  <1> DEFINE i == req[q].invitation
             e == invitations[i].email
  <1>0. /\ i \in InvitationIds /\ TablesOK(accounts, invitations, live)
        /\ invitations \in [InvitationIds -> Invitation]
    BY DEF InvitationsInv, Claim, Asked, TablesOK
  <1>1. CASE UNCHANGED accounts
    BY <1>1 DEF SpentByAccepting
  <1>2. CASE invitations[i].state = "open" /\ ~accounts[e].exists
    <2>1. \A f \in Emails : accounts'[f].via # accounts[f].via =>
              f = e /\ accounts'[f].via = i
      BY <1>0, <1>2, ClaimFacts
    <2>2. invitations'[i].state = "accepted" /\ invitations'[i].email = e
      BY <1>0, <1>2 DEF Claim, Invitation
    <2>3. \A f \in Emails : accounts[f].via # i
      BY <1>0, <1>2, InvitationsAssumption DEF TablesOK, Holders
    <2>4. ASSUME NEW p \in Reqs, Withdrew(p) PROVE i \notin req[p].known
      <3>1. Asked(req[p], invitations) /\ Succeeded(req[p])
        BY <2>4 DEF InvitationsInv, Succeeded, Withdrew
      <3> HIDE DEF i
      <3> QED
        BY <1>2, <3>1 DEF Asked
    <2> HIDE DEF i, e
    <2> QED
      BY <2>1, <2>2, <2>3, <2>4 DEF SpentByAccepting
  <1> QED
    BY <1>1, <1>2 DEF Claim, db

\* No other step says from which invitation an account came.
LEMMA OthersMakeNone ==
  ASSUME InvitationsInv,
         \/ InvitationStep
         \/ \E l \in LinkIds : ExpireLink(l)
         \/ Cleanup
         \/ \E q \in Reqs : VerificationHandlers(q) /\ ~AcceptVerified(q)
  PROVE  \A e \in Emails : accounts'[e].via = accounts[e].via
  <1>0. accounts \in [Emails -> Account]
    BY DEF InvitationsInv, TablesOK
  <1> USE DEF db, vars
  <1>1. CASE UNCHANGED accounts
    BY <1>1
  <1>2. ASSUME NEW q \in Reqs, InvitationHandlers(q) PROVE UNCHANGED accounts
    BY <1>2 DEF InvitationHandlers, Invite, RevokePending, Issue, Accept,
                RevokeInvitation, Refuse
  <1>3. ASSUME NEW d \in Roles, DeleteRole(d) PROVE UNCHANGED accounts
    BY <1>3 DEF DeleteRole
  <1>4. ASSUME NEW e \in Emails, NEW r, Reassign(e, r)
        PROVE  \A f \in Emails : accounts'[f].via = accounts[f].via
    BY <1>0, <1>4 DEF Reassign, Account
  <1>5. ASSUME NEW i \in InvitationIds, Expire(i) PROVE UNCHANGED accounts
    BY <1>5 DEF Expire
  <1>6. CASE InvitationStep
    BY <1>2, <1>3, <1>4, <1>5, <1>6 DEF InvitationStep, Environment
  <1>7. CASE (\E l \in LinkIds : ExpireLink(l)) \/ Cleanup
    BY <1>7 DEF ExpireLink, Cleanup
  <1>8. ASSUME NEW q \in Reqs, NEW e \in Emails, Register(q, e)
        PROVE  \A f \in Emails : accounts'[f].via = accounts[f].via
    BY <1>0, <1>8 DEF Register, Refuse, Account
  <1>9. ASSUME NEW q \in Reqs, VerificationHandlers(q), ~AcceptVerified(q)
        PROVE  \A f \in Emails : accounts'[f].via = accounts[f].via
    <2>1. ASSUME NEW e \in Emails, RegisterAndSend(q, e)
          PROVE  \A f \in Emails : accounts'[f].via = accounts[f].via
      BY <1>8, <2>1 DEF RegisterAndSend
    <2>2. ASSUME NEW e \in Emails, ResendVerification(q, e) PROVE UNCHANGED accounts
      BY <2>2 DEF ResendVerification
    <2>3. ASSUME SeeLinks(q) \/ SendFails(q) \/ FinishSending(q) PROVE UNCHANGED accounts
      BY <2>3 DEF SeeLinks, SendFails, FinishSending, Finish
    <2>4. ASSUME NEW l \in LinkIds, StoreLink(q, l) \/ VerifyEmail(q, l)
          PROVE  UNCHANGED accounts
      BY <2>4 DEF StoreLink, VerifyEmail
    <2> QED
      BY <1>9, <2>1, <2>2, <2>3, <2>4 DEF VerificationHandlers
  <1> QED
    BY <1>6, <1>7, <1>9

\* AcceptInvitation claims the invitation it makes the account from: it was sent to
\* that address, is spent by that, has made no other account and was not withdrawn by
\* a request answered before, however long ago the acceptance looked at it.
THEOREM AcceptedAreSpent == AccountsSpec => AcceptedIsSpent
  <1>1. AccountsInv /\ [AccountsNext]_accountVars => [SpentByAccepting]_vars
    <2> SUFFICES ASSUME AccountsInv, AccountsNext PROVE SpentByAccepting
      BY DEF accountVars
    <2>1. InvitationsInv
      BY DEF AccountsInv
    <2>2. ASSUME NEW q \in Reqs, AcceptVerified(q) PROVE SpentByAccepting
      BY <2>1, <2>2, ClaimSpends DEF AcceptVerified
    <2>3. CASE ~ \E q \in Reqs : AcceptVerified(q)
      <3>1. \A e \in Emails : accounts'[e].via = accounts[e].via
        BY <2>1, <2>3, OthersMakeNone DEF AccountsNext
      <3> QED
        BY <3>1 DEF SpentByAccepting
    <2> QED
      BY <2>2, <2>3
  <1> QED
    BY <1>1, AccountsInvariant, PTL DEF AccountsSpec, AcceptedIsSpent, SpentByAccepting

\* DeleteRole leaves no link and no account with the role it deletes, although Invite
\* and AcceptInvitation have looked at the role before they write.
THEOREM OnlyLiveRolesAreOffered == AccountsSpec => []OffersLiveRoles
  <1>1. AccountsInv => OffersLiveRoles
    BY DEF AccountsInv, InvitationsInv, TablesOK, Offers, Holders, OffersLiveRoles, Pending
  <1> QED
    BY <1>1, AccountsInvariant, PTL

\* A resend that has stored its link leaves none alive that was when it arrived.
THEOREM OnlyNewestLinksWork == AccountsSpec => []NewestLinkWorks
  <1>1. AccountsInv => NewestLinkWorks
    BY DEF AccountsInv, SendOK, NewestLinkWorks
  <1> QED
    BY <1>1, AccountsInvariant, PTL

\* AcceptInvitation verifies the address in its own transaction, so no link to verify
\* it is ever stored.
THEOREM InvitedAreVerified == AccountsSpec => []InvitedNeedNoLink
  <1>1. AccountsInv => InvitedNeedNoLink
    BY DEF AccountsInv, LinksOwned, LinksOf, InvitedNeedNoLink
  <1> QED
    BY <1>1, AccountsInvariant, PTL

\* The live links of an address are never more than the requests served at the same
\* time, however many were sent: each has been stored by a request of its own.
THEOREM LinksAreBounded == AccountsSpec => []AsManyLinksAsRequests
  <1>1. AccountsInv => AsManyLinksAsRequests
    <2> SUFFICES ASSUME AccountsInv, NEW e \in Emails
                 PROVE  Cardinality(LinksOf(e, {"live"})) <= Cardinality(Reqs)
      BY DEF AsManyLinksAsRequests
    <2> DEFINE alive == LinksOf(e, {"live"})
    <2>1. PICK storer \in [LinkIds -> Reqs \cup {NoEmail}] : Credit(storer, links, send)
      BY DEF AccountsInv, Credited
    <2> DEFINE f == [l \in alive |-> storer[l]]
    <2>2. /\ \A l \in alive : /\ l \in LinkIds /\ links[l].state = "live"
                              /\ links[l].email = e /\ f[l] = storer[l]
      BY DEF LinksOf
    <2>3. f \in [alive -> Reqs]
      BY <2>1, <2>2 DEF Credit
    <2>4. \A l, k \in alive : f[l] = f[k] => l = k
      BY <2>1, <2>2 DEF Credit
    <2> HIDE DEF alive, f
    <2>5. f \in Injection(alive, Reqs)
      BY <2>3, <2>4 DEF Injection, IsInjective
    <2> QED
      BY <2>5, AccountsAssumption, FS_Injection DEF alive
  <1> QED
    BY <1>1, AccountsInvariant, PTL
=============================================================================

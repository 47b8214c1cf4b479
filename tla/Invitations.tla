----------------------------- MODULE Invitations -----------------------------
(***************************************************************************)
(* Invitations, the accounts they create, and the roles they offer:        *)
(* Invite, AcceptInvitation, RevokeInvitation and Register of              *)
(* internal/identity/service.go, and DeleteRole where its cascade meets    *)
(* them.                                                                   *)
(*                                                                         *)
(* Transactions are READ COMMITTED.  What a statement has read may be out  *)
(* of date when the transaction writes, so a read is a step and the write  *)
(* that commits is another; an UPDATE that had to wait for a row asks its  *)
(* WHERE clause again, and an INSERT that had to wait for an index entry   *)
(* or a parent row fails if it lost.                                       *)
(*                                                                         *)
(* An invitation stands for its link: only the mailbox gets the token.     *)
(* Time passes by expiring invitations.                                    *)
(***************************************************************************)
EXTENDS Naturals, FiniteSets

CONSTANTS
    Emails, Roles, InvitationIds,
    Reqs,          \* requests served at the same time
    Grantable,     \* roles whose permissions the inviters hold
    NoEmail, NoRole, NoInvitation

ASSUME InvitationsAssumption ==
    /\ Grantable \subseteq Roles
    /\ NoEmail \notin Emails /\ NoRole \notin Roles
    /\ NoInvitation \notin InvitationIds

VARIABLES
    accounts,      \* users by email, with their first role
    live,          \* rows of roles
    invitations,   \* rows of invitations
    req

db == <<accounts, live, invitations>>
vars == <<db, req>>

\* `via` is history: the invitation that created the account.
Account == [exists : BOOLEAN, role : Roles \cup {NoRole},
            via : InvitationIds \cup {NoInvitation}]
NoAccount == [exists |-> FALSE, role |-> NoRole, via |-> NoInvitation]

\* "open" is accepted_at and revoked_at both NULL, expired or not.
Invitation == [state : {"unused", "open", "accepted", "revoked", "deleted"},
               expired : BOOLEAN,
               email : Emails \cup {NoEmail}, role : Roles \cup {NoRole}]
Unused == [state |-> "unused", expired |-> FALSE, email |-> NoEmail, role |-> NoRole]

OpenFor(e) ==
    {i \in InvitationIds : invitations[i].state = "open" /\ invitations[i].email = e}

\* Invitation.Pending.
Pending(i) == invitations[i].state = "open" /\ ~invitations[i].expired

-----------------------------------------------------------------------------
(* Requests. *)

Request ==
    [pc : {"idle", "inviting", "issuing", "accepting", "done"},
     op : {"none", "invite", "accept", "revoke", "register"},
     email : Emails \cup {NoEmail}, role : Roles \cup {NoRole},
     invitation : InvitationIds \cup {NoInvitation},
     seen : SUBSET InvitationIds,     \* what RevokePendingInvitationFor saw
     known : SUBSET InvitationIds,    \* history: open when the request arrived
     result : {"none", "ok", "mail_failed", "not_found", "escalation",
               "email_taken", "invalid", "conflict"}]

Idle == [pc |-> "idle", op |-> "none", email |-> NoEmail, role |-> NoRole,
         invitation |-> NoInvitation, seen |-> {}, known |-> {}, result |-> "none"]

Put(q, x) == req' = [req EXCEPT ![q] = x]
Answer(q, result) == Put(q, [req[q] EXCEPT !.pc = "done", !.result = result])
Refuse(q, op, e, result) ==
    /\ Put(q, [Idle EXCEPT !.pc = "done", !.op = op, !.email = e, !.result = result])
    /\ UNCHANGED db

-----------------------------------------------------------------------------

\* Invite up to its transaction: GetRole, checkEscalation, GetUserByEmail.
Invite(q, e, r) ==
    /\ req[q].pc = "idle"
    /\ \/ r \notin live /\ Refuse(q, "invite", e, "not_found")
       \/ r \in live \ Grantable /\ Refuse(q, "invite", e, "escalation")
       \/ /\ r \in live \cap Grantable /\ accounts[e].exists
          /\ Refuse(q, "invite", e, "email_taken")
       \/ /\ r \in live \cap Grantable /\ ~accounts[e].exists
          /\ Put(q, [Idle EXCEPT !.pc = "inviting", !.op = "invite", !.email = e,
                                 !.role = r, !.known = OpenFor(e)])
          /\ UNCHANGED db

\* RevokePendingInvitationFor: the rows it can see.
RevokePending(q) ==
    /\ req[q].pc = "inviting"
    /\ Put(q, [req[q] EXCEPT !.pc = "issuing", !.seen = OpenFor(req[q].email)])
    /\ UNCHANGED db

\* Bug: revoked_at is never set.
WithdrawnNot(ids) == invitations

Withdrawn(ids) ==
    [i \in InvitationIds |-> IF i \in ids /\ invitations[i].state = "open"
                             THEN [invitations[i] EXCEPT !.state = "revoked"]
                             ELSE invitations[i]]

\* Bug: no unique index on the email of an open invitation.
IssueAnyway(q, i) ==
    LET e == req[q].email
        r == req[q].role IN
    /\ req[q].pc = "issuing"
    /\ invitations[i].state = "unused" /\ r \in live
    /\ invitations' = [Withdrawn(req[q].seen) EXCEPT
                         ![i] = [state |-> "open", expired |-> FALSE,
                                 email |-> e, role |-> r]]
    /\ Answer(q, "ok")
    /\ UNCHANGED <<accounts, live>>

\* CreateInvitation, the commit, and the mail.  Another open invitation for the
\* email collides in invitations_pending_email_idx; the role may be gone.
Issue(q, i) ==
    LET e == req[q].email
        r == req[q].role
        collides == OpenFor(e) \ req[q].seen # {} IN
    /\ req[q].pc = "issuing"
    /\ invitations[i].state = "unused"
    /\ \/ collides /\ Answer(q, "email_taken") /\ UNCHANGED db
       \/ ~collides /\ r \notin live /\ Answer(q, "conflict") /\ UNCHANGED db
       \/ /\ ~collides /\ r \in live
          /\ invitations' = [Withdrawn(req[q].seen) EXCEPT
                               ![i] = [state |-> "open", expired |-> FALSE,
                                       email |-> e, role |-> r]]
          /\ \E result \in {"ok", "mail_failed"} : Answer(q, result)
          /\ UNCHANGED <<accounts, live>>

\* AcceptInvitation: GetInvitationByTokenHash and Pending.  A deleted row has no
\* link any more.
Accept(q, i) ==
    /\ req[q].pc = "idle"
    /\ invitations[i].state # "unused"
    /\ \/ ~Pending(i) /\ Refuse(q, "accept", NoEmail, "invalid")
       \/ /\ Pending(i)
          /\ Put(q, [Idle EXCEPT !.pc = "accepting", !.op = "accept",
                                 !.invitation = i])
          /\ UNCHANGED db

\* Bug: the invitation is not claimed in the UPDATE, only looked at before.
ClaimStale(q) ==
    LET i == req[q].invitation
        e == invitations[i].email IN
    /\ req[q].pc = "accepting" /\ ~accounts[e].exists
    /\ invitations[i].role \in live
    /\ accounts' = [accounts EXCEPT ![e] = [exists |-> TRUE, via |-> i,
                                            role |-> invitations[i].role]]
    /\ Answer(q, "ok")
    /\ UNCHANGED <<live, invitations>>

\* repo.AcceptInvitation, CreateUser, AddUserRole, MarkEmailVerified, commit.  The
\* expiry is compared with the start of the transaction, before Accept's own look.
Claim(q) ==
    LET i == req[q].invitation
        e == invitations[i].email IN
    /\ req[q].pc = "accepting"
    /\ \/ invitations[i].state # "open" /\ Answer(q, "invalid") /\ UNCHANGED db
       \/ /\ invitations[i].state = "open" /\ accounts[e].exists
          /\ Answer(q, "email_taken")
          /\ UNCHANGED db
       \/ /\ invitations[i].state = "open" /\ ~accounts[e].exists
          /\ accounts' = [accounts EXCEPT ![e] = [exists |-> TRUE, via |-> i,
                                                  role |-> invitations[i].role]]
          /\ invitations' = [invitations EXCEPT ![i].state = "accepted"]
          /\ Answer(q, "ok")
          /\ UNCHANGED live

\* RevokeInvitation: one UPDATE, which does not ask whether it has expired.
RevokeInvitation(q, i) ==
    /\ req[q].pc = "idle"
    /\ \/ /\ invitations[i].state # "open"
          /\ Refuse(q, "revoke", NoEmail, "not_found")
       \/ /\ invitations[i].state = "open"
          /\ invitations' = Withdrawn({i})
          /\ Put(q, [Idle EXCEPT !.pc = "done", !.op = "revoke", !.known = {i},
                                 !.result = "ok"])
          /\ UNCHANGED <<accounts, live>>

\* Register: no role, and the invitations for the email are not looked at.
Register(q, e) ==
    /\ req[q].pc = "idle"
    /\ \/ accounts[e].exists /\ Refuse(q, "register", e, "email_taken")
       \/ /\ ~accounts[e].exists
          /\ accounts' = [accounts EXCEPT ![e].exists = TRUE]
          /\ Put(q, [Idle EXCEPT !.pc = "done", !.op = "register", !.email = e,
                                 !.result = "ok"])
          /\ UNCHANGED <<live, invitations>>

\* Bug: invitations.role_id does not cascade.
DeleteRoleOnly(r) ==
    /\ r \in live /\ \A e \in Emails : accounts[e].role # r
    /\ live' = live \ {r}
    /\ UNCHANGED <<accounts, invitations, req>>

\* repo.DeleteRole: refused while somebody holds the role, and it takes every
\* invitation to the role with it, whatever its state.
DeleteRole(r) ==
    /\ r \in live /\ \A e \in Emails : accounts[e].role # r
    /\ live' = live \ {r}
    /\ invitations' = [i \in InvitationIds |->
                         IF invitations[i].role = r
                         THEN [invitations[i] EXCEPT !.state = "deleted"]
                         ELSE invitations[i]]
    /\ UNCHANGED <<accounts, req>>

\* What Rbac's SetUserRoles may do to an account.
Reassign(e, r) ==
    /\ accounts[e].exists
    /\ accounts' = [accounts EXCEPT ![e].role = r]
    /\ UNCHANGED <<live, invitations, req>>

Expire(i) ==
    /\ Pending(i)
    /\ invitations' = [invitations EXCEPT ![i].expired = TRUE]
    /\ UNCHANGED <<accounts, live, req>>

\* The client has its answer, or the request failed and was rolled back (Postgres
\* ends one of an acceptance and a role's deletion that wait for each other).
Finish(q) ==
    /\ req[q].pc # "idle"
    /\ Put(q, Idle)
    /\ UNCHANGED db

-----------------------------------------------------------------------------

Init ==
    /\ accounts = [e \in Emails |-> NoAccount]
    /\ live = Roles
    /\ invitations = [i \in InvitationIds |-> Unused]
    /\ req = [q \in Reqs |-> Idle]

InvitationHandlers(q) ==
    \/ \E e \in Emails, r \in Roles : Invite(q, e, r)
    \/ RevokePending(q)
    \/ \E i \in InvitationIds : Issue(q, i)
    \/ \E i \in InvitationIds : Accept(q, i)
    \/ \E i \in InvitationIds : RevokeInvitation(q, i)

Handlers(q) ==
    \/ InvitationHandlers(q)
    \/ Claim(q)
    \/ \E e \in Emails : Register(q, e)
    \/ Finish(q)

Environment ==
    \/ \E r \in Roles : DeleteRole(r)
    \/ \E e \in Emails, r \in live \cup {NoRole} : Reassign(e, r)
    \/ \E i \in InvitationIds : Expire(i)

Next == (\E q \in Reqs : Handlers(q)) \/ Environment

Spec == Init /\ [][Next]_vars

-----------------------------------------------------------------------------
(* Properties. *)

\* The type invariant.  Only an account has a role, and an email has one open
\* invitation at most (the partial unique index, repository.go:537-541).
TypeOK ==
    /\ accounts \in [Emails -> Account]
    /\ \A e \in Emails : ~accounts[e].exists => accounts[e] = NoAccount
    /\ live \subseteq Roles
    /\ invitations \in [InvitationIds -> Invitation]
    /\ \A e \in Emails : Cardinality(OpenFor(e)) <= 1
    /\ req \in [Reqs -> Request]

\* Request q has withdrawn the invitations that were open when it came, and said so.
Withdrew(q) ==
    /\ req[q].pc = "done" /\ req[q].op \in {"invite", "revoke"}
    /\ req[q].result \in {"ok", "mail_failed"}

\* Inviting again "also invalidates the old link" (service.go:566-569), and so does
\* revoking: a link that was open when the request came cannot be accepted once the
\* request has been answered with success.
OldLinksDie == \A q \in Reqs : Withdrew(q) => \A i \in req[q].known : ~Pending(i)

\* Claiming and checking in one UPDATE (repository.go:654-657): the invitation an
\* account is made from is for its email, is spent by that, has made no other account,
\* and was not withdrawn by a request that has been answered, although the acceptance
\* may have found it open before that.
AcceptedIsSpent ==
    [][\A e \in Emails : accounts'[e].via # accounts[e].via =>
         LET i == accounts'[e].via IN
         /\ invitations'[i].state = "accepted" /\ invitations'[i].email = e
         /\ \A f \in Emails : accounts[f].via # i
         /\ \A q \in Reqs : Withdrew(q) => i \notin req[q].known]_vars

\* A link that can be accepted, and an account, are for a role that exists, although
\* a role may be deleted while it is being offered or accepted.
OffersLiveRoles ==
    /\ \A i \in InvitationIds : Pending(i) => invitations[i].role \in live
    /\ \A e \in Emails : accounts[e].role \in live \cup {NoRole}
=============================================================================

------------------------------ MODULE Accounts ------------------------------
(***************************************************************************)
(* Email verification (internal/identity/email_verification.go) composed   *)
(* with the two ways an account comes to be, Invitations' Register and     *)
(* AcceptInvitation.  A registration commits and then sends a link; an     *)
(* invitation was accepted from the mailbox, so it verifies the address at *)
(* once.                                                                   *)
(*                                                                         *)
(* Sending is best effort: whether a link was stored and mailed is not in  *)
(* the answer.  Its transaction reads and then writes like those of        *)
(* Invitations, and the user it is for is a snapshot: the one Register has *)
(* inserted, or the one requireAuth has read for a resend.                 *)
(*                                                                         *)
(* A link stands for its row of email_verifications; ids are used again    *)
(* once the reaper has deleted the row.                                    *)
(***************************************************************************)
EXTENDS Invitations

CONSTANT LinkIds

ASSUME AccountsAssumption == IsFiniteSet(Reqs)

VARIABLES
    verified,   \* emails of the users with email_verified_at set
    links,      \* rows of email_verifications
    send        \* SendVerificationEmail, per request

accountVars == <<vars, verified, links, send>>

\* "spent" was used by VerifyEmail, "withdrawn" by InvalidateEmailVerifications.
Link == [state : {"unused", "live", "expired", "spent", "withdrawn"},
         email : Emails \cup {NoEmail}]
UnusedLink == [state |-> "unused", email |-> NoEmail]

LinksOf(e, states) ==
    {l \in LinkIds : links[l].email = e /\ links[l].state \in states}

Sending ==
    [pc : {"idle", "begun", "storing", "stored"},
     email : Emails \cup {NoEmail},
     seen : SUBSET LinkIds,     \* what InvalidateEmailVerifications saw
     known : SUBSET LinkIds]    \* history: live when the request arrived

NotSending == [pc |-> "idle", email |-> NoEmail, seen |-> {}, known |-> {}]

Begun(e) == [NotSending EXCEPT !.pc = "begun", !.email = e,
                               !.known = LinksOf(e, {"live"})]

-----------------------------------------------------------------------------

\* Register and, after its commit, SendVerificationEmail.
RegisterAndSend(q, e) ==
    /\ Register(q, e)
    /\ send' = IF accounts[e].exists THEN send ELSE [send EXCEPT ![q] = Begun(e)]
    /\ UNCHANGED <<verified, links>>

\* ResendVerification, for the user requireAuth has found.
ResendVerification(q, e) ==
    /\ req[q].pc = "idle" /\ accounts[e].exists
    /\ UNCHANGED <<db, verified, links>>
    /\ \/ e \in verified /\ Refuse(q, "none", e, "invalid") /\ UNCHANGED send
       \/ /\ e \notin verified
          /\ Put(q, [Idle EXCEPT !.pc = "done", !.email = e])
          /\ send' = [send EXCEPT ![q] = Begun(e)]

\* InvalidateEmailVerifications: the rows it can see, expired or not.
SeeLinks(q) ==
    /\ send[q].pc = "begun"
    /\ send' = [send EXCEPT ![q].pc = "storing",
                            ![q].seen = LinksOf(send[q].email, {"live", "expired"})]
    /\ UNCHANGED <<vars, verified, links>>

\* Bug: the outstanding links are left alone.
StoreLinkOnly(q, l) ==
    /\ send[q].pc = "storing" /\ links[l].state = "unused"
    /\ links' = [links EXCEPT ![l] = [state |-> "live", email |-> send[q].email]]
    /\ send' = [send EXCEPT ![q].pc = "stored", ![q].seen = {}]
    /\ UNCHANGED <<vars, verified>>

\* CreateEmailVerification, the commit and the mail.  A row that was spent while
\* its UPDATE waited for it is left alone.
StoreLink(q, l) ==
    LET outstanding == send[q].seen \cap LinksOf(send[q].email, {"live", "expired"}) IN
    /\ send[q].pc = "storing" /\ links[l].state = "unused"
    /\ links' = [k \in LinkIds |->
                   IF k = l THEN [state |-> "live", email |-> send[q].email]
                   ELSE IF k \in outstanding THEN [links[k] EXCEPT !.state = "withdrawn"]
                   ELSE links[k]]
    /\ send' = [send EXCEPT ![q].pc = "stored", ![q].seen = {}]
    /\ UNCHANGED <<vars, verified>>

\* Any failure is logged and nothing is stored; the caller is not told.
SendFails(q) ==
    /\ send[q].pc \in {"begun", "storing"}
    /\ send' = [send EXCEPT ![q] = NotSending]
    /\ UNCHANGED <<vars, verified, links>>

\* VerifyEmail: ConsumeEmailVerification and MarkEmailVerified, in a transaction
\* that writes the first row it looks at.  Emails do not change, so the user found
\* by id has the email of the link.
VerifyEmail(q, l) ==
    /\ req[q].pc = "idle" /\ links[l].state # "unused"
    /\ UNCHANGED <<db, send>>
    /\ \/ /\ links[l].state # "live"
          /\ Refuse(q, "none", NoEmail, "invalid")
          /\ UNCHANGED <<verified, links>>
       \/ /\ links[l].state = "live"
          /\ links' = [links EXCEPT ![l].state = "spent"]
          /\ verified' = verified \cup {links[l].email}
          /\ Put(q, [Idle EXCEPT !.pc = "done", !.result = "ok"])

ExpireLink(l) ==
    /\ links[l].state = "live"
    /\ links' = [links EXCEPT ![l].state = "expired"]
    /\ UNCHANGED <<vars, verified, send>>

\* CleanupEmailVerifications deletes what has been dead for 30 days, longer than
\* any request lasts.
Cleanup ==
    LET dead == {l \in LinkIds : links[l].state \in {"expired", "spent", "withdrawn"}} IN
    /\ dead # {} /\ \A q \in Reqs : req[q].pc = "idle"
    /\ \E pruned \in SUBSET dead \ {{}} :
         links' = [l \in LinkIds |-> IF l \in pruned THEN UnusedLink ELSE links[l]]
    /\ UNCHANGED <<vars, verified, send>>

\* Bug: MarkEmailVerified is not called.
AcceptUnverified(q) == Claim(q) /\ UNCHANGED <<verified, links, send>>

\* AcceptInvitation's transaction ends with MarkEmailVerified.
AcceptVerified(q) ==
    /\ Claim(q)
    /\ verified' = verified \cup {e \in Emails : accounts'[e] # accounts[e]}
    /\ UNCHANGED <<links, send>>

\* The client has its answer, or the request died.
FinishSending(q) ==
    /\ Finish(q)
    /\ send' = [send EXCEPT ![q] = NotSending]
    /\ UNCHANGED <<verified, links>>

-----------------------------------------------------------------------------

AccountsInit ==
    /\ Init
    /\ verified = {}
    /\ links = [l \in LinkIds |-> UnusedLink]
    /\ send = [q \in Reqs |-> NotSending]

VerificationHandlers(q) ==
    \/ \E e \in Emails : RegisterAndSend(q, e) \/ ResendVerification(q, e)
    \/ SeeLinks(q)
    \/ \E l \in LinkIds : StoreLink(q, l) \/ VerifyEmail(q, l)
    \/ SendFails(q)
    \/ AcceptVerified(q)
    \/ FinishSending(q)

\* What neither sends a link nor verifies an address.
InvitationStep ==
    /\ \/ \E q \in Reqs : InvitationHandlers(q)
       \/ Environment
    /\ UNCHANGED <<verified, links, send>>

AccountsNext ==
    \/ \E q \in Reqs : VerificationHandlers(q)
    \/ \E l \in LinkIds : ExpireLink(l)
    \/ Cleanup
    \/ InvitationStep

AccountsSpec == AccountsInit /\ [][AccountsNext]_accountVars

-----------------------------------------------------------------------------
(* Properties. *)

\* The type invariant, with the rows of this module.
AccountsTypeOK ==
    /\ TypeOK
    /\ verified \subseteq {e \in Emails : accounts[e].exists}
    /\ links \in [LinkIds -> Link]
    /\ send \in [Reqs -> Sending]

\* "Only the newest link works" (email_verification.go:45): a link that could be
\* used when a resend arrived cannot be once the resend has stored its own,
\* whatever other requests store, spend or withdraw in the meantime.
NewestLinkWorks ==
    \A q \in Reqs : send[q].pc = "stored" =>
        \A l \in send[q].known : links[l].state # "live"

\* Resends that overlap do not see each other's link (email_verification.go:46), so
\* an address may have several that work: but never more than requests that were
\* served at the same time, however many were sent over time.
AsManyLinksAsRequests ==
    \A e \in Emails : Cardinality(LinksOf(e, {"live"})) <= Cardinality(Reqs)

\* Whoever accepted an invitation has proved the mailbox (service.go:685-688): the
\* account is verified, and no link to verify it is ever sent, stored or used.
InvitedNeedNoLink ==
    \A e \in Emails : accounts[e].via # NoInvitation =>
        /\ e \in verified
        /\ LinksOf(e, {"live", "expired", "spent", "withdrawn"}) = {}
=============================================================================

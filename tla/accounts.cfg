\* Two requests at a time, one address, two invitations, three links.
SPECIFICATION AccountsSpec
CONSTANTS
    Emails = {carol}
    Roles = {member, admin}
    InvitationIds = {i1, i2}
    LinkIds = {l1, l2, l3}
    Reqs = {q1, q2}
    Grantable = {member}
    NoEmail = NoEmail
    NoRole = NoRole
    NoInvitation = NoInvitation
SYMMETRY Symmetry
INVARIANTS AccountsTypeOK OldLinksDie OffersLiveRoles NewestLinkWorks AsManyLinksAsRequests InvitedNeedNoLink
PROPERTY AcceptedIsSpent

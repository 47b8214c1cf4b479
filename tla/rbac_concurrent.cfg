\* Two requests at a time; the caller manages users and roles, and holds one
\* permission of the two.
SPECIFICATION Spec
CONSTANTS
    ann = ann  bob = bob  cyd = cyd
    admin = admin  member = member  desk = desk  spare = spare
    pUsers = pUsers  pRoles = pRoles  pOther = pOther
    Nobody = Nobody  NoRole = NoRole
    Users = {ann, bob}
    RoleIds = {admin, member, desk, spare}
    Perms = {pUsers, pOther}
    Catalog = {pUsers, pOther}
    PermUsersUpdate = pUsers
    PermRolesCreate = pUsers
    PermRolesUpdate = pUsers
    PermRolesDelete = pUsers
    Reqs = {q1, q2}
    Callers = {bob}
    CliUsers = {}
    SystemRoles = {admin, member}
    AdminRole = admin
    KeyOf <- MCOwnKeys
    SeedUsers = {ann, bob}
    SeedSuperusers = {}
    SeedRoles = {admin, member, desk}
    SeedPerms <- MCSeedPerms
    SeedUserRoles <- MCStaff
SYMMETRY Symmetry
INVARIANTS NoEscalation HeldRolesExist SystemRolesIntact

\* Two admins are demoted by two requests at the same time.
SPECIFICATION Spec
CONSTANTS
    ann = ann  bob = bob  cyd = cyd
    admin = admin  member = member  desk = desk  spare = spare
    pUsers = pUsers  pRoles = pRoles  pOther = pOther
    Nobody = Nobody  NoRole = NoRole
    Users = {ann, bob}
    RoleIds = {admin}
    Perms = {pUsers, pRoles}
    Catalog = {pUsers, pRoles}
    PermUsersUpdate = pUsers
    PermRolesCreate = pRoles
    PermRolesUpdate = pRoles
    PermRolesDelete = pRoles
    Reqs = {q1, q2}
    Callers = {ann, bob}
    CliUsers = {}
    SystemRoles = {admin}
    AdminRole = admin
    KeyOf <- MCOwnKeys
    SeedUsers = {ann, bob}
    SeedSuperusers = {}
    SeedRoles = {admin}
    SeedPerms <- MCSeedPerms
    SeedUserRoles <- MCTwoAdmins
INVARIANT AdminRemains
CHECK_DEADLOCK FALSE

\* One request at a time, by a member who works the desk; two admins besides.
SPECIFICATION Spec
CONSTANTS
    ann = ann  bob = bob  cyd = cyd
    admin = admin  member = member  desk = desk  spare = spare
    pUsers = pUsers  pRoles = pRoles  pOther = pOther
    Nobody = Nobody  NoRole = NoRole
    Users = {ann, bob, cyd}
    RoleIds = {admin, desk}
    Perms = {pUsers, pRoles}
    Catalog = {pUsers, pRoles}
    PermUsersUpdate = pUsers
    PermRolesCreate = pRoles
    PermRolesUpdate = pRoles
    PermRolesDelete = pRoles
    Reqs = {q1}
    Callers = {cyd}
    CliUsers = {}
    SystemRoles = {admin}
    AdminRole = admin
    KeyOf <- MCOwnKeys
    SeedUsers = {ann, bob, cyd}
    SeedSuperusers = {}
    SeedRoles = {admin, desk}
    SeedPerms <- MCSeedPerms
    SeedUserRoles <- MCTwoAdmins
PROPERTY DeactivationByAdmin
CHECK_DEADLOCK FALSE

\* One request at a time, by an admin, a superuser and somebody who registers.
SPECIFICATION Spec
CONSTANTS
    ann = ann  bob = bob  cyd = cyd
    admin = admin  member = member  desk = desk  spare = spare
    pUsers = pUsers  pRoles = pRoles  pOther = pOther
    Nobody = Nobody  NoRole = NoRole
    Users = {ann, bob, cyd}
    RoleIds = {admin, desk, spare}
    Perms = {pUsers, pRoles}
    Catalog = {pUsers, pRoles}
    PermUsersUpdate = pUsers
    PermRolesCreate = pRoles
    PermRolesUpdate = pRoles
    PermRolesDelete = pRoles
    Reqs = {q1}
    Callers = {ann, bob, cyd}
    CliUsers = {}
    SystemRoles = {admin}
    AdminRole = admin
    KeyOf <- MCReusedKey
    SeedUsers = {ann, cyd}
    SeedSuperusers = {cyd}
    SeedRoles = {admin, desk}
    SeedPerms <- MCSeedPerms
    SeedUserRoles <- MCOneAdmin
INVARIANT AdminRemains
PROPERTIES DemotionByAdmin AuditTellsChange AtomicButForRank

\* One request at a time, by session or by key, beside the operator at the CLI.
SPECIFICATION KeysSpec
CONSTANTS
    ann = ann  bob = bob
    admin = admin  desk = desk
    pDesk = pDesk  pOther = pOther
    Nobody = Nobody  NoRole = NoRole  NoKey = NoKey
    Users = {ann, bob}
    RoleIds = {admin, desk}
    Perms = {pDesk, pOther}
    Catalog = {pDesk, pOther}
    PermUsersUpdate = pDesk
    PermRolesCreate = pDesk
    PermRolesUpdate = pDesk
    PermRolesDelete = pDesk
    PermAPIKeysCreate = pDesk
    PermAPIKeysDelete = pDesk
    Reqs = {q1}
    KeyIds = {k1, k2}
    Callers = {bob}
    CliUsers = {bob}
    SystemRoles = {admin}
    AdminRole = admin
    KeyOf <- MCOwnKeys
    SeedUsers = {ann}
    SeedSuperusers = {}
    SeedRoles = {admin, desk}
    SeedPerms <- MCSeedPerms
    SeedUserRoles <- MCStaff
SYMMETRY Symmetry
INVARIANTS KeysTypeOK NoKeyEscalation
PROPERTY KeysConfined

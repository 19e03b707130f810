SPECIFICATION Spec
CONSTANTS
    Clients = {c1}
    NoClient = NoClient
    Limit = 1
    LastMinute = 1
    RedisMayFail = TRUE
    root = root
    ana = ana
    rootMail = rootMail
    anaMail = anaMail
    AnaMail = AnaMail
    LastRequest = 3
    Concurrency = 2
    Seeds = {root, ana}
    Admins = {root}
    Addresses = {rootMail, anaMail, AnaMail}
    Lower <- Lowered
    SeedAddress <- SeedMail
    Roles = {"viewer", "admin"}
    Names = {"new"}
    NoAddress = NoAddress
    NoAccount = NoAccount
    NoRole = NoRole
    NoName = NoName
    MayAbort = TRUE
INVARIANTS AccountsInv EmailUnique TrailExplains ChangesByAdmins FairLimit
PROPERTIES DeactivatedForGood RoleChangesLogged

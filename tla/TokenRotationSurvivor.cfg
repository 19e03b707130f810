SPECIFICATION Spec
CONSTANTS
    Requests = {r1, r2}
    Users = {u1}
    Tokens = {1, 2}
    NoUser = NoUser
    NoToken = 0
    Expiring = {1, 2}
    MayAbort = FALSE
    AuditMayFail = FALSE
PROPERTY AllDevicesLoggedOut

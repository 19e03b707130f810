SPECIFICATION Spec
CONSTANTS
    Requests = {r1, r2}
    Users = {u1}
    Tokens = {1, 2, 3}
    NoUser = NoUser
    NoToken = 0
    Expiring = {1}
    MayAbort = TRUE
    AuditMayFail = TRUE
INVARIANTS SingleUse RotationIsWhole WaitInv
PROPERTIES ImplementsSingleUse LogoutRevokes RequestsFinish

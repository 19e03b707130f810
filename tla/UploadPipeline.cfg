SPECIFICATION Spec
CONSTANTS
    Uploads = {r1, r2}
    Users = {u1, u2}
    Keys = {k1}
    Contents = {c1, c2}
    NoKey = NoKey
    NoAsset = NoAsset
    NoContent = NoContent
    Faults <- AllFaults
INVARIANTS
    UploadInv
    AssetHasObject
    Deduplicated
PROPERTIES
    ImplementsStore
    UploadsEnd

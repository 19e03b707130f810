SPECIFICATION Spec
CONSTANTS
    Uploads = {r1, r2}
    Users = {u1}
    Keys = {k1}
    Contents = {c1, c2}
    NoKey = NoKey
    NoAsset = NoAsset
    NoContent = NoContent
    Faults = {"storage"}
PROPERTIES
    FailedUploadsRecorded
CHECK_DEADLOCK FALSE

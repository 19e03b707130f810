CHECK_DEADLOCK FALSE
SPECIFICATION Spec
CONSTANTS
    t1 = t1  t2 = t2  u1 = u1  u2 = u2
    f1 = f1  f2 = f2  i1 = i1  i2 = i2  h1 = h1  h2 = h2
    Tokens = {t1, t2}
    Uploads = {u1, u2}
    Assets = {f1, f2, i1, i2}
    Kind <- AssetKinds
    Owner <- AssetOwners
    Value <- AssetValues
    Checksums = {h1, h2}
    MaxRows = 4
    NoRow = NoRow  Null = Null  Blank = Blank
INVARIANTS
    HeadFitsModels
    DowngradeUndoes
PROPERTIES
    LinksSurvive

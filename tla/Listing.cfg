SPECIFICATION Spec
CONSTANTS
    Rows = {r1, r2, r3}
    Users = {ann, root}
    Admins = {root}
    AssetOwner = ann
    Times = {1, 2, 3}
    Limit = 1
    Nobody = Nobody
SYMMETRY RowSymmetry
INVARIANTS NothingMissed NothingTwice
PROPERTY ListedReadable

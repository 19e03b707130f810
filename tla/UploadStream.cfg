SPECIFICATION Spec
CONSTANTS
    Files <- SomeFiles
    AllowedTypes = {"pdf", "webp", "zip", "docx", "text", "other"}
    SniffBytes = 3
    ReadChunk = 3
    PartSize = 2
    MaxFileSize = 12
    Faults = {"storage", "read", "cancel"}
CHECK_DEADLOCK FALSE
INVARIANTS
    StreamInv
    FateOfContent
    StoredIsFile
    BoundedMemory
PROPERTY
    StreamEnds

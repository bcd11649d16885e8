\* Packets of two rows, five rows and two BLOBs in the life of a batch: a
\* refused packet may leave another in the server, with rows still to come.
SPECIFICATION Spec
CONSTANTS
    PerPacket = 2
    MaxRows = 5
    MaxBlobs = 2
    ExecKeepsRows = TRUE
INVARIANTS
    RunOnceInOrder
    RightBlob
    SuccessRanAll
    

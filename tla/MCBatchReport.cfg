\* A report after a refused packet is about other rows than those asked.
SPECIFICATION Spec
CONSTANTS
    PerPacket = 2
    MaxRows = 5
    MaxBlobs = 2
    ExecKeepsRows = FALSE
INVARIANT ReportMatchesRows

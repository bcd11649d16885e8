------------------------------- MODULE MCBlobs --------------------------------
(* BLOBs of a connection, written by BlobWrite or read by BlobRead over the  *)
(* same stream.  What a lane that is not followed would do stands still.     *)
EXTENDS BlobWrite, BlobRead

VARIABLE lane   \* which of them is followed

MCVars == <<lane, allVars, readVars>>

Idle == <<stage, alive, blob, local, ending>>

MCInit ==
    \/ lane = "write" /\ BlobInit /\ ReadInit
    \/ lane = "read" /\ ReadInit /\ left = 0 /\ pc = "fill" /\ outstanding = 0
                     /\ firstErr = 0 /\ call = "done" /\ writer = "none" /\ result = "none"

Writing == lane = "write" /\ BlobNext /\ UNCHANGED <<lane, Idle>>
Reading ==
    /\ lane = "read"
    /\ ReadNext
    /\ UNCHANGED <<lane, pc, left, outstanding, firstErr, blobVars>>

MCSpec ==
    /\ MCInit
    /\ [][Writing \/ Reading]_MCVars
    /\ WF_MCVars(lane = "write" /\ Caller /\ UNCHANGED <<lane, Idle>>)
    /\ WF_MCVars(lane = "write" /\ BlobServer /\ UNCHANGED <<lane, Idle>>)
===============================================================================

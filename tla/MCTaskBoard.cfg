SPECIFICATION Spec
CONSTANTS
    alice = alice
    MaxBatch = 2
    NoOwner = NoOwner
    Unset = Unset
    TaskID <- MCTaskID
    Owner <- MCOwner
    Requests <- MCRequests
INVARIANTS
    BoardNotStuck
    IInv
PROPERTY
    RejectedUpdateIsNoOp

SPECIFICATION Spec
CONSTANTS
    Worker = {1}
    MaxPackets = 2
    Packets <- MCPackets
INVARIANTS
    InStep
    Noticed
    AllFreed
    StructsHoldThePacket
    RelayedInStep
\* Everything may have been written and read.
CHECK_DEADLOCK FALSE

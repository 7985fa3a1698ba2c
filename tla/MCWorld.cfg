SPECIFICATION Spec
CONSTANTS
    p1 = p1
    p2 = p2
    p3 = p3
    alice = alice
    bob = bob
    carol = carol
    here = here
    there = there
    None = None
    Player = {p1, p2, p3}
    Name = {alice, bob, carol}
    Wanted <- MCWanted
    Chunk = {here, there}
    Spawn = here
    Near <- MCNear
    Setups <- MCServers
INVARIANTS
    EveryoneIsFound
    SeesWhoIsNear
    GhostsAreLeftBehind
\* Everyone may have left; a name may be free no longer.
CHECK_DEADLOCK FALSE

SPECIFICATION Spec
CONSTANTS
    Primes <- ThePrimes
    Radius = 2
    ChunksHint = 10
    Spawns <- TheSpawns
    Places <- ThePlaces
    Fragile <- TheFragile
    None = None
    Item = {1, 2}
    Slot = {10, 36, 37}
    MaxCount = 2
    Empty = Empty
    Width = 109
    Sunset = 20
    Night = 23
    Sunrise = 37
    Day = 40
    Rates <- TheRates
    Loads <- TheLoads
    Chunk = {chunk}
    NoWorld = NoWorld
    Top = 12
    LavaTop = 2
    CaveTop = 5
    Roof = 1
    Water = 6
    Soil = 2
    Heights = {3, 4, 5, 6, 7, 8, 9, 10, 11}
INVARIANTS
    ViewFollows
    AlgebraIsRight
    ChunkOfPlayer
    InventoriesAgree
    ChunksAreWhole
    GroundIsLit
PROPERTIES
    DropsAreSeen
    ClockRuns
\* The player's client may be gone.
CHECK_DEADLOCK FALSE

SPECIFICATION SpecContainers
CONSTANTS
    n1 = n1
    n2 = n2
    n3 = n3
    Null = Null
    Rank <- TheRank
    Node = {n1, n2, n3}
    Value = {1, 2, 3}
    Uses <- TheUses
    Key = {"a", "b", "c"}
    Content = {1, 2}
    Thread = {1}
    HashOf <- TheHashOf
    Starts <- TheStarts
SYMMETRY Symmetry
INVARIANTS
    LinksAreSound
    VisitsEachOnce
PROPERTIES
    ImplementsList
    ImplementsMap
\* A list that only grows is full at last.
CHECK_DEADLOCK FALSE

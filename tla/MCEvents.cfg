SPECIFICATION FairSpec
CONSTANTS
    chat = chat
    admin = admin
    t1 = t1
    t2 = t2
    Function = {chat, admin}
    Priority <- MCPriority
    Thread = {t1, t2}
    MaxCallbacks = 3
    MaxDispatches = 2
INVARIANTS
    InPriorityOrder
    SeesOneList
PROPERTIES
    CallsAll
    RegistrationEnds
\* The dispatches are bounded.
CHECK_DEADLOCK FALSE

SPECIFICATION FairSpec
CONSTANTS
    Supers = {sa, sb}
    NGroups = 1
    Zeroed0 = {{}}
    Prefetch = {sa}
    MaxCalls = 3
    Thread = Thread
    None = None
INVARIANTS
    RequestsAlive
    ListServed
PROPERTIES
    CallsReturn
    RequestsServed

SPECIFICATION Spec
CONSTANTS
    HasJournal = {TRUE, FALSE}
    Faults = {}
    None = None
INVARIANTS
    
    NothingOutlives
    WritableIsGuarded

    

SPECIFICATION HistorySpec
CONSTANTS
    header = header
    e1 = e1
    e2 = e2
    s1 = s1
    Clients = {c1, c2}
    Header = header
    Sections = {}
    Events = {e1, e2}
    Sources = {s1}
    EventOf <- MCEventOf
    MaxContents = 3
    MaxRevisions = 3
CHECK_DEADLOCK FALSE
SYMMETRY Symmetry
INVARIANTS
    HistoryTypeOK
    LossesAreAccountedFor
PROPERTY AutosaveKeepsPrior

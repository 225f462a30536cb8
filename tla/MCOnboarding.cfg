CONSTANTS
    s1 = s1  s2 = s2
    Types = {"rccm"}
    Pages = {"kyb", "list", "detail"}
    Slots = {s1, s2}
    MaxDocs = 2
    MaxDecisions = 2
    MaxPresses = 3
    MaxLost = 1
SYMMETRY SlotSymmetry
SPECIFICATION Spec
CHECK_DEADLOCK FALSE
INVARIANTS
    HistoryTellsStatus
    SubmissionIsQueued

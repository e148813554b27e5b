SPECIFICATION EditorSpec
CONSTANTS
    DraftRows = {"event"}
    MaxTexts = 4
    MaxCalls = 2
    MaxTouches = 1
    MaxLost = 1
CHECK_DEADLOCK FALSE
INVARIANTS
    EditorTypeOK
    CopyIsAVersion
    NewerTextsStay
PROPERTY EditsSettle

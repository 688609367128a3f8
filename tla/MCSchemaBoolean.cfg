SPECIFICATION Spec
CONSTANTS
    KeyType = "int8"
    KeyForm <- MCKeyForm
    Keys <- MCKeys
    Columns = {"status", "flag"}
    InitialCols = {"flag"}
    ColType <- MCColType
    Sample <- MCSample
    TextCasts <- MCTextCasts
    Rounded <- MCRounded
    DDL = {}
    MaxDDL = 1
    MaxEvents = 3
    FlushMax = 2
CHECK_DEADLOCK FALSE
INVARIANTS
    SamePrintout

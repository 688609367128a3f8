SPECIFICATION Spec
CONSTANTS
    KeyType = "int8"
    KeyForm <- MCKeyForm
    Keys <- MCKeys
    Columns = {"status", "state", "flag"}
    InitialCols = {"status"}
    ColType <- MCColType
    Sample <- MCSample
    TextCasts <- MCTextCasts
    Rounded <- MCRounded
    DDL = {"add", "drop", "rename"}
    MaxDDL = 2
    MaxEvents = 3
    FlushMax = 2
CHECK_DEADLOCK FALSE
INVARIANTS
    TypeOK
    NothingDropped
    OneKeyPerRow
    SamePrintout

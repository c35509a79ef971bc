SPECIFICATION Spec
CONSTANTS
    Levels = {"INFO"}
    Messages <- SomeMessages
    Locations <- SomeLocations
    GivenLists <- SomeLists
    Contexts <- SomeContexts
    I64_MAX = 7
    Loggers <- AllLoggers
    Stamps <- SweptStamps
    OneStamp <- Noon
    PlainMessage <- Hello
    MaxFields = 4
INVARIANTS
    LineNamesInstant
    JsonReadsBack
    KeysOnce

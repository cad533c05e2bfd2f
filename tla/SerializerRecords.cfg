SPECIFICATION SerSpec
CONSTANTS
    SerScenario <- MCRecords
    SerIncr = 16
    SerHeaderSize = 8
INVARIANTS RecordsAlike
CHECK_DEADLOCK FALSE

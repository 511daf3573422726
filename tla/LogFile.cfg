\* Up to three writes, each cut off at any byte or whole.
SPECIFICATION Spec
CONSTANTS
    Base = 4
    Records <- SomeRecords
    MaxRecordSize = 10
    MaxAppends = 3
INVARIANTS
    WholeRecordsRead
    NothingInvented
\* The file is full.
CHECK_DEADLOCK FALSE

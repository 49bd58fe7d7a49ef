\* Records, CSV file and benches; access may fill its array.
SPECIFICATION Spec
CONSTANTS
    MaxApi = 3
    MaxFile = 2
    Times <- MCTimes
    SyncTimes <- MCSyncTimes
    Garbage = {0, 9}
    MaxRecords = 4
INVARIANTS TypeOK ReportsTellSamples
PROPERTIES  BenchPermutes BenchKeepsOthers

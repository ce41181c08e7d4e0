SPECIFICATION PlacementSpec
CONSTANTS
    Top = 5
    Lengths = {0, 1, 2, 3}
    Files <- MCFiles
    Default = "UNSPECIFIED"
    Lines = {0, 1}
    Segments = {1, 2, 4}
    Unit = 2
INVARIANTS AcceptsExactly Disjoint ResolvesAsWritten SectorsExact SmallSegmentsRightLine LineAtOneBackend
CHECK_DEADLOCK FALSE

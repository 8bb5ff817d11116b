SPECIFICATION Spec
CONSTANTS
    Space = 3
    IntSpan = 8
    TypeSize <- MCTypeSize
    Special = {"cstr"}
    Height = 1
    StartWidth = 2
    Main = 2
    Results = {1}
INVARIANTS
    TypeOK
    WidthIsPower
    CellsFit
    EditReported
PROPERTIES
    RowsFetchedWhole
    LabelsSettle
CHECK_DEADLOCK FALSE

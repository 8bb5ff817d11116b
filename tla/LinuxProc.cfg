SPECIFICATION Spec
CONSTANTS
    Ids = {1, 2, 3}
    MaxLife = 2
    Top = 4
    Kinds <- MCKinds
    Layouts <- MCLayouts
INVARIANTS
    Ascending
    SteadyListed
    ListedWereProcesses
    RegionsTrue
    LettersThrow
CHECK_DEADLOCK FALSE

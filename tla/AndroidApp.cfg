SPECIFICATION AppSpec
INVARIANTS
    HoldsItsWindow
    NothingLeft
PROPERTIES
    WindowIsDrawn
    ActivityAnswered
CHECK_DEADLOCK FALSE

SPECIFICATION Spec
CONSTANTS
    Radix = 2
    DecBase = 2
    HexBase = 3
    Size <- MCSize
    Wild = Wild
    Bad = Bad
    Empty = Empty
    Space = 16
    Hole = Hole
    Memories <- MCMemories
    Layouts <- MCLayouts
    Ranges <- MCRanges
    Numbs <- MCNumbs
    Patterns <- MCPatterns
    Strings <- MCStrings
    Searched <- MCSearched
INVARIANTS
    TypeOK
    PatternIsTyped
    ShownReadBack
    FindsTyped
    KeepsMatching
    OverreadOnlyShort
CHECK_DEADLOCK FALSE

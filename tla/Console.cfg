SPECIFICATION Spec
CONSTANTS
    TEXT_ROWS = 5
    TEXT_COLS = 4
    TabStop = 2
    ClearedRows = 2
    Char <- MCChar
    Leftover <- MCLeftover
    Title <- MCTitle
    TitleAt = 1
    Prefix <- MCPrefix
    Dots <- MCDots
    Messages <- MCMessages
INVARIANTS TypeOK ScreenShowsTheText LogLineStartsALine LineReachesItsReaders
PROPERTIES OnlyTheTopLineGoes

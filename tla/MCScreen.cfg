SPECIFICATION Spec
CONSTANTS
    letter = letter
    blank = blank
    Char <- MCChar
    SCREEN_ERASER = blank
    SCREEN_WIDTH = 2
    SCREEN_HEIGHT = 3
    SCREEN_CELLS = 11
INVARIANTS VisibleInMemory HardwareFollows
PROPERTIES ImplementsTerminal

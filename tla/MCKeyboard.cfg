SPECIFICATION KeyboardSpec
CONSTANTS
    Key <- MCKey
    MaxCodes = 2
    MaxDown = 3
INVARIANTS Decoded ShiftNeverSticks

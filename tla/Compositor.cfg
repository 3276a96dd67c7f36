SPECIFICATION Spec
CONSTANTS
    Windows = {w1, w2, w3}
    First = w1
    Menu = w2
    NULL = NULL
    Width = 5
    MinSize = 1
    Positions = {0, 2}
    Sizes = {0, 2}
    MaxInputs = 4
INVARIANTS PixelsInPlace HiddenNotShown StackingShown

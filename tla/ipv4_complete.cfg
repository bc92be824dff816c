CONSTANTS
    Chars <- QuadChars
    MaxLen = 9
SPECIFICATION Spec
INVARIANT AcceptsAllDottedQuads
CHECK_DEADLOCK FALSE

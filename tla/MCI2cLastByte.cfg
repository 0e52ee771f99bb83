SPECIFICATION Spec
CONSTANTS
    Size = 3
    Data <- MCData
    Lens <- MCLens
    Junk <- MCJunk
INVARIANT ReadComplete
\* After a read of length zero main may spin for ever, or be lost.
CHECK_DEADLOCK FALSE

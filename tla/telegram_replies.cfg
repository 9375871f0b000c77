SPECIFICATION WireSpec
CONSTANTS
    TgMax = 1
    TgTexts = {1}
    GwFrames <- NoFrames
INVARIANT RepliesAreShown
CHECK_DEADLOCK FALSE

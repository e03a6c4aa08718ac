SPECIFICATION Spec
CONSTANTS
    Bad = Bad
    Null = Null
    Unreadable = Unreadable
    Padded <- PaddedTexts
    Documents <- MCDocuments
    Edits <- MCEdits
    Launches <- MCLaunches
    Missing <- MCMissing
    MaxCommands = 2
    MaxEdits = 2
CHECK_DEADLOCK FALSE
INVARIANT WholePolicy

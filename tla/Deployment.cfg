CONSTANTS
    MaxEvents = 2
    MaxCommands = 3
    Edits <- EditedGrants
SPECIFICATION Spec
INVARIANTS RunsThrough AppliedIsComplete
PROPERTIES EventsSurvive
CHECK_DEADLOCK FALSE

\* Two presses or live edits, polls, and one of: a command given up, a dead daemon, a new window, a window brought to the front.
CONSTANTS
    MaxCalls = 2
    Polls <- OnePoll
    Parsed = {1}
    Faults <- AllFaults
    MaxEvents = 1
SPECIFICATION OrderSpec
CHECK_DEADLOCK FALSE
INVARIANTS
    TypeOK
    DisconnectIsFinal
    CommandsInOrder
PROPERTIES
    StaleNeverShown
    ConnectingEnds
    FalseConnectedEnds

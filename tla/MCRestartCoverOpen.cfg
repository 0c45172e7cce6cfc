SPECIFICATION Spec
CONSTANTS
    EnterTicks = 2
    DisconnectTicks = 4
    LeaveTicks = 2
    MaxInbox = 3
PROPERTIES ComesBackClosed

SPECIFICATION Spec
CONSTANTS
    Shortcuts <- MCShortcuts
    Devices <- MCDevices
INVARIANT MessagesRemain
CHECK_DEADLOCK FALSE

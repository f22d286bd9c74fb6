SPECIFICATION Spec
CONSTANTS
    Agent = {a, b}
    MaxConcurrent = 1
    MaxTerminal = 1
    Calls = {"cancel", "cancel_all", "shutdown"}
SYMMETRY Symmetric
INVARIANTS SlotsAccounted PendingIsOpen DeliveredOnce
PROPERTIES TerminalStays
CHECK_DEADLOCK FALSE

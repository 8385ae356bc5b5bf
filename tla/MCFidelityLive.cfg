SPECIFICATION LiveSpec
CONSTANTS
    r1 = r1
    r2 = r2
    r3 = r3
    Reservations <- TwoReservations
    MaxOperations = 1
    MaxTokens = 1
    Sizes = {1}
    Faults = {"persist", "ledger", "remove", "unreadable", "unmovable"}
    MaxFaults = 2
PROPERTIES
    EventuallyRecorded

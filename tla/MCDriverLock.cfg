SPECIFICATION FairSpec
CONSTANTS
    Thread = {rx, command, stop}
    MaxTickets = 5
PROPERTIES
    ServedInOrder
    WaitersAdmitted
CHECK_DEADLOCK FALSE

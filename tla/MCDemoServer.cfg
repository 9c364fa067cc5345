SPECIFICATION Spec
CONSTANTS
    c1 = c1
    c2 = c2
    Computations = {c1, c2}
    Devices = {d1, d2}
    Mode <- MCMode
    TaskName <- MCTaskName
    NumberOfClients <- MCNumberOfClients
    MaxAssignments = 2
    Faults = {"cancel", "receive", "result"}
CHECK_DEADLOCK FALSE
INVARIANTS
    ServicesAgree
    ResultHoldsAcceptedInputs
PROPERTY
    EnoughInputsEndTheWait

SPECIFICATION Spec
CONSTANTS
    Lines <- MCLines
    Inputs <- MCInputs
    Protocols <- MCProtocols
    MaxLines = 2
INVARIANT
    CleanEndAnsweredAll
PROPERTIES
    RefinesSession
    ReturnedIsQuiet
    CancelReturns
CHECK_DEADLOCK FALSE

SPECIFICATION Spec
CONSTANTS
    MaxHooks = 2
    MaxArgs = 0
    Custom = 202
    Controllers <- MCControllers
    RoutesFiles <- MCOneFile
    Requests <- MCOneRequest
    Traced <- MCOneTraced
INVARIANTS BeforeFinal
CHECK_DEADLOCK FALSE

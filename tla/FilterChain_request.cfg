SPECIFICATION Spec
CONSTANTS
    MaxHooks = 2
    MaxArgs = 1
    Custom = 202
    Controllers <- MCControllers
    RoutesFiles <- MCFiles
    Requests <- MCRequests
    Traced <- MCTraced
INVARIANTS FirstLineWins StartCauses CleanedUp InterceptorsRun ResultWinner StatusCauses
CHECK_DEADLOCK FALSE

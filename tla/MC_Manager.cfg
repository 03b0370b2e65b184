SPECIFICATION Spec
CONSTANTS
    Endpoints <- MCEndpoints
    NoEndpoint = NoEndpoint
    Lines <- MCLines
    Configs <- MCConfigs
    Sources = {1, 3}
    Kinds = {"impulse"}
    MaxConns = 2
    MaxSent = 2
INVARIANTS RightConnection AnsweredIfFresh NavFromOwner StatusTellsWhatWasApplied
CHECK_DEADLOCK FALSE

SPECIFICATION Spec
CONSTANTS
    Endpoints <- MCEndpoints
    NoEndpoint = NoEndpoint
    Lines <- MCLines
    Configs <- MCConfigs
    Sources = {3}
    Kinds = {"impulse"}
    MaxConns = 2
    MaxSent = 2
INVARIANT EveryRequestAnswered
CHECK_DEADLOCK FALSE

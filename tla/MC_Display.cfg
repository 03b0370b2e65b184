CONSTANTS
    Gateways = {9000, 9001}
    ForeignId = ForeignId
    MaxForeign = 1
    Sessions = {s1, s2}
    Pairs <- TwoPairs
    NoClick = NoClick
    MaxClicks = 2
    Reports <- SomeReports
    MaxReports = 3
    MaxAudience = 1
    MaxStimuli = 6
SPECIFICATION FairSpec
INVARIANTS
    ImageMatchesScale
    DotsOfThisPlot
PROPERTIES
    ImplementsTLService
    ButtonComesBack
CHECK_DEADLOCK FALSE

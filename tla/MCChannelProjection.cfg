SPECIFICATION FairSpec
CONSTANTS
    Events <- MCEvents
    Parents <- MCParents
    Priority <- MCPriority
    Channel <- MCChannel
    OrderBudget <- MCOrderBudget
    Ev <- MCEv
    Encoding <- MCEncoding
    Own = "o"
    None = None
    MaxCrashes = 1
INVARIANTS
    PublishedCanonical
    OrderNeverCorrupt
    CurrentIsReduction
    DepartureSticks
    AcceptanceCutoff
    NothingForgotten
PROPERTIES
    EventuallyCurrent

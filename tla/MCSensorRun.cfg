SPECIFICATION FairSpec
CONSTANTS
    Hosts <- MCHosts
    Addresses <- MCAddresses
    Traits <- MCTraits
    Embedded <- MCEmbedded
    Literal <- MCLiteral
    Answers <- MCAnswers
    FirstAnswers <- MCFirstAnswers
    Policies <- MCPolicies
    MaxConns = 3
    MaxChanges = 1
    None = None
    Jobs <- MCJobs
    PageRequests <- MCPageRequests
    MaxRedirects = 1
CHECK_DEADLOCK FALSE
INVARIANTS
    
    PinnedEgress
    PageBudget
PROPERTIES
    JobsEndClean

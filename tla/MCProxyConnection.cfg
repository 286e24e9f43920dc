CONSTANTS
    BUFFER_SIZE = 2
    Requests <- MCRequests
    Responses <- MCResponses
    MaxTunnel = 3
    MaxEndpoints = 2
    MaxParts = 2
    MaxRequests = 2
SPECIFICATION FairSpec
INVARIANTS RelayedInOrder HtmlAfterWhole AnswerComplete
PROPERTIES EventuallyClosed
CHECK_DEADLOCK FALSE

CONSTANTS
    Streams <- MCStreams
SPECIFICATION Spec
INVARIANTS RelayExact BodyExact StopsAtEnd
CHECK_DEADLOCK FALSE

SPECIFICATION MCSpec
CONSTANTS
    Numbers <- MCNumbers
    UIntMax = 2
    MaxLines = 5
    Letters = {"a", "b"}
    EOL = "eol"
    BufSize = 4
    MaxStream = 6
    Packages = {"p1", "p2", "p3"}
    MaxTargets = 2
    AfidMax = 3
    WordBits = 2
INVARIANTS
    ReadyIffGrammar RefusedIffHopeless HandedOver
    ReadsOnlyReceived OneRecvDelivers
    AfidsUnique ExhaustedOnlyIfFull
PROPERTY Terminates
CONSTRAINT MCHarm
CHECK_DEADLOCK FALSE

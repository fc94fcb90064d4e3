SPECIFICATION FramingSpec
CONSTANTS
    Letters <- MCLetters
    EOL = "eol"
    BufSize = 8
    MaxStream = 5
INVARIANT LinesDelivered
CHECK_DEADLOCK FALSE

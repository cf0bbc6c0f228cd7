CONSTANTS
    Char <- Chars
    OpenTag <- Open
    CloseTag <- Close
    Decodable <- Good
    MaxCalls = 1
    Replies <- MCReplies
    NativeCalls <- Native
    Pieces <- PiecesOf
    MaxJunk = 1
    MaxLag = 1
    Polls = {p1, p2}
    Ttl = 2
SPECIFICATION StreamsSpec
INVARIANT StreamsTypeOK
INVARIANT AnswersAreWhole
PROPERTY ReadyIsRecent
PROPERTY StreamsSettle
CHECK_DEADLOCK FALSE

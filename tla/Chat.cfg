\* Two messages to a conversation of each kind, or to a DM beside another; one close, shutdown, crash or failing clean-up.
CONSTANTS
    c1 = c1
    c2 = c2
    s1 = s1
    s2 = s2
    s3 = s3
    Convos = {c1, c2}
    Sends = {s1, s2, s3}
    At <- Places
    Casts <- OneOrTwo
    Replies <- Answers
    MaxMishaps = 1
    None = None
SPECIFICATION FairSpec
CHECK_DEADLOCK FALSE
INVARIANTS
    TypeOK
    OneReply
PROPERTIES
    AnswersLatest
    ReplyStands
    RepliesEnd
    WaitersReturn

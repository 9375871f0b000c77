SPECIFICATION TalkSpec
CONSTANTS
    ann = ann
    bob = bob
    a1 = a1
    a2 = a2
    b1 = b1
    NoSession = NoSession
    Messages <- ThreeMessages
    Users <- OneUser
    User <- OnlyAnn
    MaxAsks = 1
CHECK_DEADLOCK FALSE
PROPERTY NextMessageIsTheReply

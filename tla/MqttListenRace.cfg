\* Short messages on a connection that is never lost.
CONSTANTS
    NBufs = 2
    Ring = 4
    Msgs = {"cmd", "val"}
    MsgLen <- MCLen
    MsgTopic <- MCTopic
    MaxLost = 0
    NoMsg = NoMsg
SPECIFICATION ListenSpec
PROPERTY HooksGetMessage

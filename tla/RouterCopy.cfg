CONSTANTS
    x = x
    y = y
    Zero = zero
    Bytes = {x, y, zero}
    Text <- Conversation
    BufferSize = 2
    Window = 2
SPECIFICATION FairSpec
CHECK_DEADLOCK FALSE
INVARIANT LossHasACause
PROPERTIES
    ImplementsChannels
    BothEndsAreClosed

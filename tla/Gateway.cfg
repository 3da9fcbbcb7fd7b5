CONSTANTS
    Messages = {1, 2}
    Replies = {11, 12}
    ReplyTo <- ByTens
    Subscribers = {"dispatcher", "voice"}
    InboundSize = 1
    OutboundSize = 1
    Traffic <- OneChannel
    Dispatcher = Dispatcher
    None = None
    MaxFailedReads = 1
    Workers = 1
SPECIFICATION Spec
INVARIANTS
    NoSendOnClosed
PROPERTIES
    QueuedMessagesAreSettled
    ShutdownCompletes
    ImplementsDelivery
CHECK_DEADLOCK FALSE

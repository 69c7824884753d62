SPECIFICATION FairSpec
CONSTANTS
    m1 = m1
    m2 = m2
    m3 = m3
    c1 = c1
    c2 = c2
    Messages <- MCMessages
    Conversations <- MCConversations
    ConversationOf <- MCConversationOf
    MaxConcurrency = 1
    MaxDeliveries = 2
    MaxCrashes = 1
INVARIANTS
    TypeOK
    ProcessingIsExecuting
    PermitsNotLost
PROPERTIES
    AnsweredOnce
    ImplementsQueue
    RequestsAnswered
CHECK_DEADLOCK FALSE

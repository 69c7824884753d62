SPECIFICATION FairSpec
CONSTANTS
    artifacts = artifacts
    text1 = text1
    text2 = text2
    text3 = text3
    unposted = unposted
    NoJob = NoJob
    Jobs <- MCJobs
    TextJobs <- MCTextJobs
    Uncloneable <- MCUncloneable
    WorkerIds = {1, 2, 3, 4, 5, 6, 7}
    Workers = 2
    QueueLimit = 2
INVARIANTS
    TypeOK
    NoJobLost
    WorkConserving
    OwnResult
PROPERTIES
    JobsSettle
CHECK_DEADLOCK FALSE

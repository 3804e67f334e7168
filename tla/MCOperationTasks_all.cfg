SPECIFICATION MCFairSpec
CONSTANTS
    t1 = t1
    t2 = t2
    cron1 = cron1
    consumer = consumer
    NoTask = NoTask
    Tasks <- TwoTasks
    CronWorkers <- OneCron
    QueueWorkers <- OneConsumer
    Chunks = 2
    MaxAttempts = 2
    LeaseTicks = 2
    BatchLimit = 2
    PromptWorkers = {TRUE, FALSE}
    MaxCrashes = 1
    MaxRedrives = 1
INVARIANTS
    TypeOK
    OneWorker
    NoEarlyDeath
    ProgressIsReal
PROPERTIES
    OutcomeIsFinal
    EventuallySettled

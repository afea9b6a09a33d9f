CONSTANTS
    serial = serial
    timers = timers
    host = host
    idle = idle
    main_task = main_task
    Tasks = {timers, serial, host, main_task, idle}
    Idle = {idle}
    OneAtATime = {main_task}
    SignalledOnce = {serial}
    Priority <- BuildPriority
    MaxPosts = 4
SPECIFICATION FairSpec
INVARIANTS ListByPriority NoLostWakeup UrgentFirst
PROPERTIES ServesTasks IdleTurns

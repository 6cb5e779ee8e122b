SPECIFICATION FairSpec
CONSTANTS
    p1 = p1
    p2 = p2
    capA = capA
    capB = capB
    o1 = o1
    o2 = o2
    NoPlugin = NoPlugin
    Coordinator = coordinator
    Plugins = {p1}
    BootPlugins = {p1}
    Managed = {}
    Caps = {capA, capB}
    CapsOf <- MCCapsOf
    Policy <- AlwaysRestart
    Threshold = 1
    MaxAttempts = 3
    Operators = {}
    Watchers = {watcher}
    WatchJobs = {"retry"}
    CanShutdown = FALSE
    Faults = {"dial", "health", "register"}
    MaxFaults = 2
    MaxInstances = 5
PROPERTIES
    StuckIsResolved
CHECK_DEADLOCK FALSE

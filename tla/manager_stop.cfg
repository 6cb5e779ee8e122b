SPECIFICATION Spec
CONSTANTS
    p1 = p1
    p2 = p2
    capA = capA
    capB = capB
    o1 = o1
    o2 = o2
    NoPlugin = NoPlugin
    Coordinator = coordinator
    Plugins = {p2}
    BootPlugins = {p2}
    Managed = {p2}
    Caps = {capA, capB}
    CapsOf <- MCCapsOf
    Policy <- AlwaysRestart
    Threshold = 1
    MaxAttempts = 2
    Operators = {}
    Watchers = {watcher}
    WatchJobs = {"new", "changed"}
    CanShutdown = TRUE
    Faults = {"die"}
    MaxFaults = 1
    MaxInstances = 3
INVARIANTS
    DrainingIsOwned
PROPERTIES
    ShutdownDrains
CHECK_DEADLOCK FALSE

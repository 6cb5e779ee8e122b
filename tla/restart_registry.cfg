SPECIFICATION Spec
CONSTANTS
    p1 = p1
    p2 = p2
    capA = capA
    capB = capB
    o1 = o1
    o2 = o2
    NoPlugin = NoPlugin
    Coordinator = coordinator
    Plugins = {p1}
    BootPlugins = {p1}
    Managed = {}
    Caps = {capA, capB}
    CapsOf <- MCCapsOf
    Policy <- AlwaysRestart
    Threshold = 2
    MaxAttempts = 2
    Operators = {o1}
    Watchers = {}
    WatchJobs = {}
    CanShutdown = FALSE
    Faults = {"health"}
    MaxFaults = 1
    MaxInstances = 3
INVARIANT ServingIsRegistered
CHECK_DEADLOCK FALSE

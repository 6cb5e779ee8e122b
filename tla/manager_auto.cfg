SPECIFICATION FairSpec
CONSTANTS
    p1 = p1
    p2 = p2
    capA = capA
    capB = capB
    o1 = o1
    o2 = o2
    NoPlugin = NoPlugin
    Coordinator = coordinator
    Plugins = {p1, p2}
    BootPlugins = {p1, p2}
    Managed = {p1}
    Caps = {capA, capB}
    CapsOf <- MCCapsOf
    Policy <- AlwaysRestart
    Threshold = 2
    MaxAttempts = 2
    Operators = {}
    Watchers = {}
    WatchJobs = {}
    CanShutdown = FALSE
    Faults = {"die", "spawn", "dial", "register", "health"}
    MaxFaults = 3
    MaxInstances = 5
INVARIANTS
    TypeOK
    ScheduledIsQueued
    RequestedOnce
    StoppedIsUnregistered
    ServingIsRegistered
    HandleIsCurrent
PROPERTIES
    RecoversOrStranded
CHECK_DEADLOCK FALSE

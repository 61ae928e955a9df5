SPECIFICATION Spec
CONSTANTS
    Workers = {w1, w2}
    MaxQueue = 2
    Sources <- SignalSources
    Priority <- SignalPriority
    Scripts <- SignalScripts
    Forwards <- SignalForwards
    Emits <- NoEmits
    JobEmits = {"signals"}
    FirstJobs = {1}
    Delays = {}
    MaxEvents = 2
    MaxJobs = 0
    MayStop = FALSE
CHECK_DEADLOCK FALSE
INVARIANTS
    NeverLate

SPECIFICATION Spec
CONSTANTS
    Procs = {p, q}
    Drainers = {d}
    Milestones = 3
    BatchSize = 2
    MaxAttempts = 2
    MaxDeliver = 3
    MaxSeq = 3
    MaxFaults = 0
INVARIANT RecordedIsStored
CHECK_DEADLOCK FALSE

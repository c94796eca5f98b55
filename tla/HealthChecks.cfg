SPECIFICATION FairContainer
CONSTANTS
    w1 = w1
    w2 = w2
    Workers = {w1, w2}
    Queue = "tpl.default"
    OtherQueue = "other"
    Tasks = {"execute", "pump"}
    None = None
    Window = 1
    Budget = 3
    p1 = p1
    Pids = {p1}
    MaxAge = 1
    WriteInterval = 1
    MaxTime = 2
    MaxBoots = 2
    MaxStarts = 2
    MaxCount = 2
    MaxPublish = 1
CHECK_DEADLOCK FALSE
INVARIANTS
    HealthTypeOK
PROPERTIES
    ReadyWasTrue
    ReadyWasTrueAtOnce
    EveryProbeEnds
    AnswersAreAboutTheRunningBeat
    HungBeatsAreNoticed
    AnswersNeverGoBack

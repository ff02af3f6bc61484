CONSTANTS
    Threads = {t1, t2, t3}
    Contexts = {ctx}
    Callbacks = {cb1, cb2}
    MaxEvents = 1
    MaxCalls = 3
    Nobody = Nobody
    None = None
SPECIFICATION FairSpec
INVARIANTS
    TypeOK
    HookOnce
    HookBeforeMethod
    HookNotForgotten
    OnlyCurrentCallbackRuns
    SomeoneGoesOn
PROPERTIES
    EveryCallReturns
CHECK_DEADLOCK FALSE

SPECIFICATION FairSpec
CONSTANTS
    Solver = {s1, s2}
    Interrupter = {i1, i2}
    Timer = timer
    MaxInterrupts = 2
INVARIANTS TypeOK HandlerAlive OthersLeftAlone LeftoverHasCause IInv
PROPERTIES InterruptEndsCall TimeoutEndsCall CallGoesOn

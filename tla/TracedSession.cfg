SPECIFICATION FairSpec
CONSTANTS
    plain = plain
    draw = draw
    switch = switch
    Calls = {plain, draw, switch}
    ValueCalls = {plain}
    DrawCalls = {draw}
    ShaderSwitches = {switch}
    NoCall = NoCall
    Null = Null
    Env = {"exit", "fault"}
    NoTraceModes = {"RUN"}
    TracedHandlers = {"step", "skip", "run", "capture"}
    Halts = {0, 1}
    PsLoop = FALSE
INVARIANTS QInv TraceIsParked AnswerIsFresh
PROPERTIES KeepsThePromise CommandAnswered FaultEndsSession
CHECK_DEADLOCK FALSE

SPECIFICATION Spec
CONSTANTS
    plain = plain
    draw = draw
    switch = switch
    Calls = {plain, draw, switch}
    ValueCalls = {plain}
    DrawCalls = {draw}
    ShaderSwitches = {switch}
    NoCall = NoCall
    Null = Null
    Env = {"glerror"}
    NoTraceModes = {"RUN"}
    TracedHandlers = {"step"}
    Halts = {1}
    PsLoop = FALSE
INVARIANTS LockedInLoop
CHECK_DEADLOCK FALSE

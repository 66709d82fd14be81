SPECIFICATION FairSpec
CONSTANTS
    plain = plain
    draw = draw
    switch = switch
    Calls = {plain, draw, switch}
    ValueCalls = {plain}
    DrawCalls = {draw}
    ShaderSwitches = {switch}
    NoCall = NoCall
    Null = Null
    Env = {"exit", "glerror", "fork"}
    NoTraceModes = {"RUN", "JUMP_TO_DRAW_CALL", "JUMP_TO_SHADER_SWITCH", "JUMP_TO_USER_DEFINED"}
    TracedHandlers = {"step", "skip"}
    Halts = {1, 0}
    PsLoop = FALSE
INVARIANTS LockIsKept
PROPERTIES HaltReturns
CHECK_DEADLOCK FALSE

SPECIFICATION FairSpec
CONSTANTS
    plain = plain
    draw = draw
    switch = switch
    Calls = {plain, draw, switch}
    ValueCalls = {plain}
    DrawCalls = {draw}
    ShaderSwitches = {switch}
    NoCall = NoCall
    Null = Null
    Env = {"exit", "glerror"}
    NoTraceModes = {"RUN", "JUMP_TO_DRAW_CALL", "JUMP_TO_SHADER_SWITCH", "JUMP_TO_USER_DEFINED"}
    TracedHandlers = {"step", "skip", "jump", "capture"}
    Halts = {0}
    PsLoop = FALSE
INVARIANTS IInv CommandMeetsLoop CalledOnce DoneProceeds
PROPERTIES NeverDropped PauseParks
CHECK_DEADLOCK FALSE

SPECIFICATION FairSpec
CONSTANTS
    plain = plain
    draw = draw
    switch = switch
    Calls = {plain, draw, switch}
    ValueCalls = {plain}
    DrawCalls = {draw}
    ShaderSwitches = {switch}
    NoCall = NoCall
    Null = Null
    Env = {}
    NoTraceModes = {"RUN"}
    TracedHandlers = {"step"}
    Halts = {0}
    PsLoop = FALSE
PROPERTIES PauseReturns
CHECK_DEADLOCK FALSE

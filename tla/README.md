# Formal verification of the GLSL-Debugger

GLSL-Debugger runs an OpenGL application under `ptrace`, stops it at its GL
calls and lets the user step, skip, jump, read buffers back and debug shaders.
This directory holds TLA+ models of its own logic, the TLC runs that check them
on small instances, and TLAPS proofs for all instances.

## Parts of the system

| Part | Source | State | Operations |
|---|---|---|---|
| Command protocol of the debugger | `glsldb/progControl.cpp`, `errorCodes.cpp` | `_debuggeePID`, the record `DbgRec` in shared memory | `runProgram`, `executeDbgCommand` (write, `PTRACE_CONT`, `waitpid`), `checkChildStatus`, `childAlive`, `checkError`, `checkExecuteState`, `executeContinueOnError`, `killProgram`, one `dbgCommand*` per operation |
| Run levels and trace buttons | `glsldb/mainWindow.cpp` | `currentRunLevel`, `m_pCurrentCall`, check boxes | `on_tb*_clicked`, `singleStep`, `nextStep`, `getNextCall`, `waitForEndOfExecution`, `setRunLevel` |
| Function hooks | `DebugLib/generator/FunctionHooks.pl`, `DebugLib/libglsldebug.c`, `error.c` | record, `G.lock`, `G.errorCheckAllowed` | the generated hook, `keepExecuting`, `storeFunctionCall`, `stop`, `executeDefaultDbgOperation`, `setErrorCode` |
| Shader-debug session | `mainWindow.cpp` 1881-2640, 3029-3192 | debug run levels, compiler handle, variable model | `on_tbShaderExecute_clicked`, `recordDrawCall`, `ShaderStep`, `leaveDBGState`, `cleanupDBGShader` |
| Shader stepping | `GLSLCompiler/glslang/DebugCodeGen`, `IntermTraverse.cpp`, `mainWindow.cpp` 1646-2327, `loopDialog.cpp`, `shVarModel.cpp` | marks in the parse tree, parse stack, changeables, scopes, watch list, loop data | `ShDebugJumpToNext`, `ShaderStep`, step, step over, reset, selection and loop dialogs, `updateWatchListData` |
| Query interruption | `DebugLib/queries.c` | hash of query states | `interruptAndSaveQueries`, `restartQueries` |
| Recording and replay | `DebugLib/streamRecorder.c`, `streamRecording.c` | list of recorded calls | record, replay, clear |
| Debug shaders, render targets, read-back | `DebugLib/shader.c`, `glstate.c`, `readback.c` | stored program, saved GL state | store, restore, replace, read |
| Remote memory | `DebugLib/memory.c`, `utils/p2pcopy.c` | heap of the debuggee | `DBG_ALLOC_MEM`, `DBG_FREE_MEM` |
| Thread records | `getThreadRecord` of both processes | 16 slots of the segment | find or take a slot |
| Hash table | `utils/hash.c` | buckets | insert, find, remove |
| Start-up | `initLib.c`, `libdlsym.c`, `hooks.c` | library handles | interposition of `dlsym` |
| Windows back end | `progControlWin.cpp`, `attachToProcess.cpp` | events, process handle | the same protocol with two events |
| Trace list, filters, statistics, watches, views | `gl*Model.cpp`, `shVarModel.cpp`, `watch*.cpp`, ... | widget data | presentation |
| Debug code generation | `GLSLCompiler/glslang/GenericCodeGen` | marks in the parse tree, debug stack, debug registers | `compileDbg`: write the shader anew with a probe at the statement the user stopped at |
| Shader compilers | `GLSLCompiler/glslang`, `mesa-glsl` | parse trees | parse and link shaders |

How they interact: the debugger and the debuggee are two processes. The
debugger writes an operation with its arguments into the record, continues the
debuggee and blocks in `waitpid`; the hook reads the operation, serves it,
writes a result into the same record and stops itself by `raise(SIGSTOP)`. In
the no-trace mode the debuggee runs freely while the debugger polls the record
and the process and lets Qt deliver clicks. Everything else in the debugger is
one thread; the other parts of the debug library run inside a hook, while the
debugger waits.

What is hard: the record is shared without a lock and both wait statuses and
results can be stale; wait statuses are consumed by two different callers;
handlers call `processEvents` and go on after a click has changed the run level
or killed the debuggee; results of waits are dropped in places; the debuggee may
exit, fault or fork between any two calls.

What makes the parts correct:

* protocol: a command reaches a debuggee that is waiting for one, its answer is
  its own, and every command is answered;
* hooks: each call is executed once or, if the user says so, not at all; a hook
  holds `G.lock` in its command loop (broken when an error halts a no-trace run, see
  `UnlockedLoop`) and never leaves with it; a pause is seen;
* run levels: the user has control exactly while the debuggee is stopped in the
  call on display; a session ends when its debuggee does;
* shader stepping: every step stops at the statement that comes next, whatever
  the user chose before; the values on display are those of that position; who
  goes on comes to the end;
* debug code: the generated shader answers, for every fragment, what the
  application's shader would have there at the place, in the call and in the turn
  at which the user stopped, and otherwise does what that shader does;
* shader debugging: whatever was saved, interrupted or replaced is restored once;
* recording, memory, queries, hash: no entry is lost, leaked or used after release.

## Modules

| Module | Models |
|---|---|
| `DbgRecord` | the record, the kernel's view of the debuggee (`proc`, `wstat`), `ptrace` and `waitpid`, `checkError` |
| `FunctionHook` | the generated hook and the helpers of `libglsldebug.c` it calls; the application around it |
| `ProgramControl` | `ProgramControl` and the trace handlers of `MainWindow` |
| `DebugSession` | the two together, all properties, the inductive invariant `IInv` |
| `SteppedProgram` | the abstract promise: a program that parks at calls, is in the user's hands only there, and has each call executed at most once on his behalf |
| `MCDebugSession` | the instances for TLC |
| `DebugSession_proofs` | theorems and proofs |
| `SteppedProgram_proofs` | proof that a session implements `SteppedProgram` |
| `RenderState` | what the debug library does to the debuggee's GL state: queries, attribute stack, output targets, stored and debug shader, recording and replay |
| `ShaderDebug` | the handlers of `MainWindow` that conduct a shader-debug session, over `RenderState`; its properties |
| `MCShaderDebug` | the instance for TLC |
| `RenderState_proofs` | lemmas: what each operation of `RenderState` returns |
| `ShaderDebug_proofs` | theorems about what a session holds and gives back |
| `ShaderDrawing_proofs` | theorems about what it draws |
| `ShaderCounting_proofs` | theorems about what a query counts meanwhile |
| `ShaderTree` | the intermediate tree of a shader, as a sequence of nodes |
| `ShaderTerms` | shaders written as nested terms, for TLC |
| `DebugVar` | what `DebugVar.cpp` notes at its nodes: changeables, emitted vertices and discards, scopes |
| `DebugJump` | `ShDebugJumpToNext`: the traversals that move the debug target; what they rely on in a tree (`WellFormed`) |
| `JumpSession` | a sequence of such steps with any behaviour, and resets; properties and their inductive invariant |
| `JumpSession_proofs` | theorems: every step stops, and the marks are those of the stop |
| `DbgResult` | the answer of a step, which `JumpSession` and `WatchList` share |
| `WatchList` | scopes and values of the watched variables, and what they need of the answers |
| `WatchList_proofs` | theorem: the values on display are current |
| `ShaderStepping` | `ShaderStep`, its buttons and dialogs; properties |
| `ShaderEffects` | what the execution of a shader is, without marks and notes |
| `ShaderWalk` | the promise of stepping, over `ShaderEffects` |
| `TestShaders`, `MCShaderStepping` | the shaders for TLC |
| `ShaderExec` | the execution of a shader for one fragment, as GLSL defines it (external) |
| `DebugCode` | `compileDbg`: debug stack, target, and the shader with the probe |
| `ShaderReadBack` | a stepped shader, the application's and the generated ones run side by side; properties |
| `MCShaderReadBack` | the shaders for TLC |

`hpc` and `dpc` are the control points of the debuggee and of the debugger.
They are placed so that every access to shared state that the other side can
observe, and every system call, is a step of its own: `stop()` is one step
(`raise`), behind which the debuggee cannot move until `PTRACE_CONT`; a
command of the debugger is three (`cont`, `wait`, `reply`). What runs while
the other side is known to wait is joined with its neighbour: so are the two
stores of `setErrorCode` (result, then code) in the command loop, but not where the
debugger polls (`CallUnlocked`, `StoreErrorItem`). `storeFunctionCall` is joined as
it writes the result first, and a poll that sees it waits for the stop behind the rest.
`pthread_mutex_lock` is a guard of `EnterHook`: a hook that was left with
`G.lock` held would block the next. `handler` says
which handler of `MainWindow` is on the stack and `cmd` which command is in
flight and what follows it. The names of the actions are those of the functions,
with `Clicked` for slots and `Reply` for the code behind a command.

Data: a GL function is a model value; its arguments are a single value `"ARG"`
in `items[0]`, its type a 1 in `items[1]` (the type codes other than `DBG_TYPE_CHAR` are not 0). The
read-back, memory, shader and query operations of the command loop are the one
operation `AUX`, answered by data or an error; one `AUX` stands for the one or
more that a `getShaderCode` or a capture consists of. GL's error state is a
choice at each check. The trace filter is a choice at each step. The table
columns of `glFunctions` are the constants `DrawCalls` and `ShaderSwitches`.

### Shader debugging

`ShaderDebug` starts where `DebugSession` ends: a command is a single step that
yields its answer, which is what `CommandMeetsLoop` and `AnswerIsFresh` of
`DebugSession` permit. `pc` is the next command of the handler that runs and
`"idle"` the event loop; `"events"` is the `processEvents` inside
`recordDrawCall`, the one place where clicks arrive in the middle of a handler.
`level` is `currentRunLevel`, with `RL_TRACE_EXECUTE` split as `setRunLevel`
does it; `tab` is the current tab, `type` the one the handler read at its start.

An operation of `RenderState` maps the GL state to the set of its outcomes
`[err, gl]`. `err` is `"none"`, `"gl"` (an error that `isErrorCritical` lets
pass) or `"critical"`; a GL error may leave the operation half done, and the
outcomes name the halves that the code can leave. `Faults` says which errors
happen at all; what follows from the state (a `glPopAttrib` with an empty
stack, `glUseProgram` under transform feedback, a debug shader without a stored
one) happens always. `image` is what the application's frame buffer shows of
the frame: for each call the program it was drawn with and whether a query
counted it. The frame buffer's contents are abstracted to that.

| State | Code |
|---|---|
| `gl.stored`, `gl.program` | `g.storedShader.programHandle`, `GL_CURRENT_PROGRAM` |
| `gl.pushed` | attribute sets that `saveGLState` pushed and nobody popped |
| `gl.target`, `gl.feedback` | the frame buffer or feedback buffer of `readback.c`; transform feedback in progress |
| `gl.query`, `gl.marked` | the application's query and `Query.interrupted` |
| `gl.recorded`, `gl.open` | `g.recordedStream`; between `glBegin` and `glEnd` |
| `objects` | `m_dShCompiler` and `m_pShVarModel` |
| `at`, `called` | `m_pCurrentCall`; the history of the frame |

Simplifications: the application has one frame, repeated, and one query;
a click on step makes one read-back, and the further ones of resets, loops,
selections and watch items are further clicks; running to the first frame with
its shader shown is one step; the user skips only calls that stand for
themselves; a `processEvents` delivers at most one pause or kill.

### Stepping a shader

The debugger has no program counter. `DebugJump` keeps a mark at every node of
the tree (`None`, `Path`, `Target`, `Finished`), a state in selections and
loops, a counter in loops, and the stack of the functions entered. A step runs
three traversals over the tree; `Process` is the whole of them. The traversal
with side effects is written as operators that thread a record `s` (the marks,
the operation `op` of the traverser, the behaviour `bh`, the answer `res`):
`Traverse(s, n)` is the virtual `traverse` of node `n`, and `Visit...` and
`Traverse...` are the callbacks of `DebugJump.cpp`. `op = "Abort"` is `exit(1)`
or a NULL dereference.

The recursion of the traversal is not that of the tree: the end of a function
traverses its caller again from inside the traversal of the function, and a call
traverses the function. `Traversal[d]` is therefore the traversal that may nest
`d` calls, and an operator that traverses a part takes the traversal that is one
call shallower (`deeper`); deeper calls abort. `Depth` is more than any step
needs, which is proved below. What `process` relies on, because parser and linker
guarantee it or because the code breaks down without it (see the end of the
disagreements), is `WellFormed`: subtrees nest, statements have the parts
their callbacks take for granted, what is called is defined and not recursive,
`main` ends with the dummy that the parser appends.

`JumpSession` steps such a shader with any behaviour at every stop; what the
main window offers (`ShaderStepping`) and where it stops to read back
(`ShaderReadBack`) are steps of it: the run `ShaderStepping` checks `JumpSpec`, and
each action of `ShaderReadBack` is a `Jump(bh)` with a further guard. `JumpInv` and the
three properties behind it belong to `JumpSession`, so what is proved of it
holds in both.

| Model | Code |
|---|---|
| `shader.tree`, `T` | the tree; a node is its kind, children and the names it holds |
| `shader.notes`, `Known` | the `cgbList`, `cgbParameterList`, `scope`, `emitVertex` and `discard` fields that `DebugVar` fills in |
| `jump` | `debugState`, `dbgState`, `dbgIteration` of the nodes, `parseStack`, `finishedDbgFunction` |
| `res` | `DbgResult`; `frames` is the scope stack |
| `ui` | the dialog that is open or the loop in one of its buttons |
| `loopData`, `active` | for which loop the top of `m_qLoopData` was made; `getActive() > 0` |
| `watch` | scope and value of each `ShVarItem`; the value is absent, current or old |

A variable is one scalar: array elements and components are not told apart.
Types, ranges and names are left out. Coverage maps are a choice: unchanged,
grown or shrunk, in either kind of shader (`Completions`).

What the marks should mean is said independently of them. `ShaderEffects`
executes a shader with an agenda of what is still to be done, and `ShaderWalk`
allows a step to do what the head of the agenda and the user's choice say, to
stop where the agenda stops, and obliges it to name whatever it wrote. `Agenda`
of `ShaderStepping` maps marks to agendas (it is cached in a variable), and
`WalkSpec` says that every step of the code is such a step, from every marking
that any sequence of steps, choices and resets can reach.

`WatchList` is the watch list by itself. `setChangedAndScope`, `updateWatchListData` and
`resetWatchListData` only see answers, so `WatchSpec` lets any answers come that
keep four promises: all that a step wrote is named (`S` in `Updated`), the
variables of a caller were shown before (`StackIsKnown`), iterations passed in
the loop dialog change the same variables again and bring none into scope
(`ChangesAgain`, `NothingEnters`), and a reset leaves no caller. `ShaderStepping` extends
`WatchList` and is checked to implement `WatchSpec`.

### Reading a stepped shader back

What the user sees at a stop is computed by shaders that `compileDbg` writes
for the question at hand (`Options`): which fragments come here, what is the
value of `v`, which way do they go. `DebugCode` is that translation: `Stack` is the
first traversal, which collects the nodes on the way from the marks of
`DebugJump`; `Plan` is the choice of the target and of the functions whose
copy carries the probe; `Output(g, n)` is the second traversal, one operator
per callback of `CodeGen.cpp`. Its result is a program of `ShaderExec`, not
text: calls are replaced by the bodies of their functions, which keeps what
distinguishes the two copies of a function.

`ShaderExec` runs such a program for one fragment. A variable's value is
the number of writes to it, so two places of an execution differ in a variable
exactly if it was written in between; conditions are not computed, a
fragment is the set of the evaluations of each condition that give true. All
fragments are tried at every stop. `Plain` is the application's shader itself,
with the user's position in it (`Here`): the calls on the way, the statement,
the part of it that comes next, and the turns of the loops around it. What it
passes at `Here` is what the answers are compared with.

Abstracted: names and types of the debug registers, swizzles, the texture or
transform feedback through which results come back, and the text. One scalar
stands for a variable; `?:`, `switch` and comma expressions do not occur in the
trees. Reading back does not change the marks: `compileDbg` keeps its own in
fields that it resets (`DbgOw`, `isTarget`), so they are parts of the plan here.

## Runs

All runs of `MCDebugSession` use three calls: a plain one that returns a value, a draw call and a
shader switch. Three are enough, as a call matters only through its membership
in those three sets and through being or not being a jump's target. `MaxTimes`
bounds the only counter, `times`, by 2: it saturates there, and every
property distinguishes 0, 1 and more.

| Run | Question | Result |
|---|---|---|
| `TracedSession` | Does a session keep the promise of `SteppedProgram`, with exits and faults; does a fault end it? | holds: also that the debuggee is parked at `RL_TRACE_EXECUTE`, answers are fresh, commands answered; a fault ends a session outside the no-trace mode; `QInv` is checked here as an invariant |
| `NoTraceSession` | Traced and all no-trace modes with GL errors that do not halt: calls once, never dropped, pause | holds; `IInv` is checked here as an invariant |
| `HaltOnError` | Does a GL error that halts a run bring the user back; is `G.lock` released on every way out of a hook? | holds, also when the debuggee forks |

`CHECK_DEADLOCK FALSE` in the runs with a no-trace mode, because the lost stop
below really blocks the debugger for ever, in `ReadBack`, because a shader
ends, and in the runs that look for one violation. In their place,
`CommandAnswered` says that the debugger leaves every blocking wait of a traced session;
without the no-trace mode `TracedSession` also passes with deadlock checked.

Three more show disagreements between the code and what it says of itself:

| Run | What happens |
|---|---|
| `PauseLost` | `childAlive` takes the stop that `checkChildStatus` then waits for; the debugger hangs |
| `ErrorRepeats` | a call whose error halts the run enters its command loop though it was executed: its own report answers the `DBG_DONE`, or (behind `DBG_EXECUTE`) it is executed twice |
| `UnlockedLoop` | that command loop runs with `G.lock` released, and `EXIT_CS` at its end unlocks a mutex that is not held (`FunctionHooks.pl:256`, `298` and `314`; line 178 has a TODO on the positions of the unlocks) |

`LockIsKept` is what remains of the lock discipline, with all halts, forks and
clicks: no hook keeps the lock, and only the loop of an executed call runs
without it. With one thread in the model the unlocked loop disturbs nothing; in the code
another thread can enter a hook, and the record, meanwhile.

The runs of `MCShaderDebug` use one frame: a primitive of two vertices, a draw
call, a call that is not debuggable, the swap. Two vertices because the first
call inside a primitive follows `glBegin` and the second another vertex; the
stand-alone call lets a session start after a session. Of the stages, `vertex`
and `geometry` behave alike. `MaxDepth` (2) bounds the attribute stack: a
session pushes one entry, so 2 shows one too many. Once the code has lost its
render target (see the disagreements below), read-backs draw into the application's
frame buffer without bound; the runs therefore enable one source of trouble
each by `Faults`, `PauseAt` and `UserActs`, those in which the property holds.

| Run | Enabled | Question | Result |
|---|---|---|---|
| `ShaderSession` | two stages, death of the debuggee | does the debuggee hold what the run level needs, do compiler and variable model exist only then, does a query count what is called | holds; `QueryInv` is checked here as an invariant |
| `PausedRecording` | pause inside the primitive, fragment stage | is the recorded part drawn once, in place, with its own shader; is the state clean; is no shader stepped without a stored one | holds; also `SInv` and `DrawInv` |
| `GlErrors` | GL errors at any command, cancelled Open | is a call drawn twice | no, for a fragment shader; also `OnceInv` |

The runs of `MCShaderStepping` step small shaders with two functions, one of
which calls the other, and one statement in `main`. The statement
is one of four leaves (an assignment with two calls; a declaration
with initial value and an increment; a call with an out argument; a vertex
emitted and an indexed assignment with a call in a call), alone or in one of
five compounds (selections with and without else, the three kinds of loops, with
calls in their conditions), or a compound in a compound: 49 shaders. `MaxIter`
bounds the iterations in which a loop still has active data, which bounds
nothing but the user's patience: 1 lets a loop be repeated, left and entered
again; the run also passes with 2 (15563 states instead of 10348).

The run of `MCShaderReadBack` uses the same shaders and seven with a branch: a
function that may return in the middle, each kind of loop with a `break`, a `for`
with a `continue`, selections with a `discard` (some others are among the
disagreements below). `MaxTrue = 2` gives a condition four courses,
true at the first, the second, both or none of its evaluations, so that loops
turn up to twice and a second evaluation differs from the first; `MaxIter = 1`
stops in the iterations 0 and 1, the first and a later one.

| Run | Question | Result |
|---|---|---|
| `ShaderStepping` | Is every step, in any order of choices and resets, one of `ShaderWalk`, and one of `JumpSpec`; do the marks stay consistent (`JumpInv`, the inductive invariant of the proofs, among others); are stop, iteration and values on display those of the position; do the answers keep the promises of `WatchSpec`; does stepping end | holds |
| `NestedLoops` | Does the loop dialog show the data of the loop it asks about | no: an inner loop's data stay on top of `m_qLoopData` until the shader is cleaned up |

| Run | Question | Result |
|---|---|---|
| `ReadBack` | Does every answer of the generated shader agree, for every fragment, with the application's shader: covered or not, value of each variable in scope, branch taken; does the probe disturb anything | holds |

### Further disagreements

The models state more promises that the code breaks. Each is shown by TLC with
the run of the second column after the changes of the third.

| Property | Run | Changes | What happens |
|---|---|---|---|
| `KillEnds` | `PauseLost` | `PsLoop = TRUE`, `NoTraceModes = {}` | OSX build: `killProgram` clears the pid first and then waits until `ps` shows no line with a 0 |
| `TraceHasDebuggee` | `PauseLost` | `NoTraceModes = {"JUMP_TO_DRAW_CALL"}` | a jump whose debuggee was killed sets `RL_TRACE_EXECUTE` |
| `OrigIsAnswered` | `PauseLost` | `NoTraceModes = {}` | hooks with a return value store neither value nor error, because of a `my` in an inner block |
| `HaltIsHandled` | `ErrorRepeats` | as it is, or `NoTraceModes = {"JUMP_TO_DRAW_CALL"}` | a poll between the two stores of `setErrorCode` (`error.c:59`) takes the execution mode for the code of the error: `DBG_EXECUTE_RUN` is `DBG_NO_ERROR`, so the user is shown a call as reached, and a jump is the code of a critical error, so the debuggee is killed (`progControl.cpp:2057`) |
| `FunctionCallReached` | `PauseLost` | `Env = {"fork"}`, `NoTraceModes = {}` | the `SIGTRAP` of a fork event is taken for the stop of a call |
| `FaultEndsSession` | `TracedSession` | `Env = {"exit", "fault", "fork"}`, `NoTraceModes = {}` | after a fork's `SIGTRAP` the debugger is one wait behind and treats a dead debuggee as stopped |
| `TraceIsClean` | `GlErrors` | `Faults = {}`, `PauseAt = {"end"}`, `UserActs = {}` | a pause just before `glEnd` skips the undoing of the recording: target, stored shader and recording stay (`mainWindow.cpp:2376`) |
| `TraceIsClean` | `GlErrors` | `Faults = {}` | a cancelled Open dialog leaves the run level of a shader that was cleaned up; the second clean-up pops the application's attributes (`mainWindow.cpp:281`) |
| `NothingDrawnTwice` | `GlErrors` | `Stages = {"vertex"}` | a draw call debugged in its vertex shader is drawn when recorded and again by `endReplay` |
| `QueriesCount` | `GlErrors` | `Faults = {}`, `PauseAt = {"vertex"}`, `UserActs = {}` | the undoing of an interrupted recording never restarts the queries |
| `LevelHasDebuggee` | `GlErrors` | `Stages = {"vertex"}`, `Faults = {"critical"}`, `UserActs = {}` | a critical error in `cleanupDBGShader` is overwritten by `RL_DBG_RESTART` |
| `StoredForStep` | `GlErrors` | `UserActs = {}` | a GL error of `setDbgTarget` allows a restart without anything stored |
| `TraceIsClean` | `GlErrors` | two stages, `Faults = {}`, `PauseAt = {"vertex"}`, `UserActs = {"tab"}` | a tab changed during the recording makes the undoing restore another stage's target |
| `WatchIsCurrent` | `ShaderStepping` | `Shaders <- Sampled` | `DebugVar` does not visit the arguments of built-in functions (`DebugVar.cpp:588`): what a call in them writes is not reported, and `x = texture(f(x))` leaves the globals that `f` writes with old values in the watch list |
| `ValueIsCurrent` | `ReadBack` | `Shaders <- LoopInside` | the probe asks the counters of all loops of the debug stack (`addLoopHeader`, `CodeInsertion.cpp:691`). A caller's variable is read in the caller, but the stack keeps the loop of the called function, whose counter nobody has set there; `CodeGen.cpp:3137` says "pop stack since we cannot process all changeables here", and nothing is popped |
| `CoverageIsReached` | `ReadBack` | `Shaders <- Continued` | `while` and `do` loops count at the end of their bodies (`CodeGen.cpp:2140`, `2173`), which a `continue` skips: from then on the probe looks for the wrong turn |
| `CoverageIsReached` | `ReadBack` | `Shaders <- Discarded` | discards are dropped if they are written behind the probe (`dbgTargetProcessed`, `CodeGen.cpp:2244`). In a loop one that is executed before the probe may be written behind it: it is dropped and the fragment shown as covered |
| `ValueIsCurrent` | `ReadBack` | `Shaders <- Negated` | a unary operator does not pass on the side effects of its operand (`Intermediate.cpp:491`), so for `f(-f(x))` the probe is written in front of the argument and shows the globals from before the inner call |

Reading the stepping code showed more, for shaders that are not among the
checked ones: `a[f()]++` is visited behind its operand and traverses it again,
so that Step Into enters `f` for ever; a constructor of a structure is never
marked as path, so a call below one is not found again; Skip on
`if (c) {} else {...}` dereferences the missing block; a loop without a test
asks for iteration 0 twice and pushes two loop data, and one with an
initialisation and no test is shown as still initialising when it asks; an
emitted vertex or a discard in a condition or in the arguments of a call is not
noted; a `switch` is passed without a stop; a `discard` is no stop. Of the
code generation: a selection without a true block is not colored in the
dialog; a probe in front of an assignment or increment that is itself an
argument of a call, or the initial value of a declaration, is written without
brackets, where its comma means another argument or declarator.

`FunctionHook`, `ProgramControl`, `RenderState`, `ShaderDebug`, `DebugJump`, `DebugCode`, `WatchList` and `ShaderStepping` contain definitions `Mut_*` in front of
the ones they vary: plausible errors which the properties are shown to detect.

### Fairness

`FairSpec` assumes weak fairness of the debugger's steps, of a hook's steps
and of the application going on (to its next GL call or its end). Both
processes are scheduled by the kernel, and the debugger's handlers run without
waiting for the user. Clicks, faults and forks are never assumed to happen; a
pause or a kill may come or not. `PauseParks`, `HaltReturns` and
`CommandAnswered` would be false for an application that stops calling GL; this
assumption is the application's part.

`ShaderStepping` assumes that the user goes on: that he does not stop at a
statement for ever. It is `WF_vars(Proceed)`, with the condition under which
`Proceed` is enabled written out. `EndReached` needs it, and supposes besides
that the user does not reset for ever and (by `MaxIter`) that the loops end.

`ShaderDebug` has no fairness: that its handlers end follows from their
being sequential code whose commands are answered, which is `CommandAnswered`.

## Proofs

`DebugSession_proofs` proves, for every value of the constants:

* `TypeCorrect`: `Spec => []TypeOK`, without further assumption.
* `Never_stuck`: `Spec => []NeverStuck`, also without one. Debugger and debuggee
  never wait for each other in a wait behind `PTRACE_CONT`, whatever signals,
  forks, errors and clicks there are: the safety half of
  `CommandAnswered`. The only wait that `NeverStuck` leaves out is the one behind the polling
  loop, where they do (`PauseLost`). No run lists it; TLC found it to hold in `NoTraceSession` with all of
  `EnvEvents` and `Halts = {0, 1}`.
* `Lock_is_kept`: `Spec => []LockIsKept`, also without one: errors that halt the run,
  the ones of `UnlockedLoop`, are included. The property is inductive together
  with `TypeOK`.
* Under `Undisturbed` (no forks; exits and faults at will, but an application that
  raises GL errors gets no faults, and its no-trace runs do not halt on them):
  `Inductive` (`Spec => []IInv`) and from it `Commands_meet_the_loop`,
  `Answers_are_fresh`, `Called_once`, `Done_proceeds` and
  `Never_dropped` (an action property).

Each part of `Undisturbed` is needed: with GL errors that halt a no-trace run
`DoneProceeds` and `LockedInLoop` fail (`ErrorRepeats`, `UnlockedLoop`); with forks an answer may not be the command's
own (`FunctionCallReached` above); and with faults and GL errors together a
command meets no waiting debuggee, as `nextStep` drops the answer of `callDone` after a GL error
(`mainWindow.cpp:839`) and takes a signal for the next call (`CommandMeetsLoop`
fails in `NoTraceSession` with `"fault"` added to `Env`, also with
`NoTraceModes = {}`). None of the properties is
inductive: that a command finds a waiting debuggee depends on where the debuggee
is for each command and phase. `IInv` says exactly that, one part per phase
(`ContInv`, `WaitInv`, `ReplyInv`, `RunInv`, `RestInv`), with named situations
of the debuggee (`HeldAt`, `Serving`, `Arriving`, `Acknowledging`, `Roaming`,
`Faulted`, `Launching`) so that each step of the debuggee stays in its situation and each
step of the debugger leads from one to the next. The proof has one step per
action. A signal can reach the debuggee only in the application, so `Faulted` belongs
to `Arriving`, where the wait for the next call ends the session, and to
`Roaming`, where the polling may take the signal and the debuggee stays stopped
until the user kills it; that neither is a wait whose answer is dropped
needs `ErrorInv` (without GL errors no such command is sent). TLC checks `IInv` in
`NoTraceSession` and, with faults, as part of `QInv` in `TracedSession`.

`SteppedProgram_proofs` proves the refinement and what the user sees:

* Under `Undisturbed` and `Noticed` (the application does not both raise GL errors
  and end): `Keeps_the_promise` (`Spec => KeepsThePromise`), for traced and
  no-trace sessions alike.
* If besides no jump is used (`NoJumps`): `Trace_is_parked`, from `Parked_inductive`
  (`QInv` itself, which `TracedSession` checks).

Both assumptions are needed. `nextStep` drops the answer of `callDone` after a
GL error (`mainWindow.cpp:839`, with a TODO on the error code): a debuggee that ends
in this very step is shown as stopped in a call (`TracedSession` with
`Env = {"exit", "glerror"}` violates `TraceIsParked` and `KeepsThePromise`); a
jump whose debuggee is killed sets a run level behind its end
(`TraceHasDebuggee` above). The invariant adds to `IInv` where the debugger may
not yet know of the end (`GoneInv`: it waits for the next call, or polls a
no-trace run). The mapping then leaves each action one abstract step:
`StoreFunctionCall` and the stops stutter, `EnterCommandLoop` is `Park`,
`ServeCallOrig` is `Execute`, `ServeDone` and `LeaveByExecute` are `Continue`, the
replies that return to the event loop are `Grant`, the clicks `Take`, and an exit
or a kill is `End`; a fault stutters. `QInv` extends the invariant by the call on display
(`ShownInv`); TLC checks it in `TracedSession`. `PInv` was checked besides on
`NoTraceSession` with `Env = {"exit", "fault"}` and `Halts = {0, 1}`, and with
`Env = {"glerror"}`.

### Shader debugging

All theorems about `ShaderDebug` are for every frame, attribute stack and
combination of the other constants that their hypotheses leave.

| Theorem | Hypotheses | States |
|---|---|---|
| `TypeCorrect`, `No_stale_objects` | none | `TypeOK`, `NoStaleObjects` |
| `Session_inductive`; `Trace_is_clean`, `Debug_is_ready`, `Stored_for_step` | `Undisturbed` | `SInv`; `TraceIsClean`, `DebugIsReady`, `StoredForStep` |
| `Drawing_inductive`; `Drawn_as_called` | `Undisturbed`, fragment shaders only | `DrawInv`; `DrawnAsCalled` |
| `Query_inductive`; `Queries_count` | `Undisturbed`, no pause during a recording | `QueryInv`; `QueriesCount` |
| `Once_inductive`; `Nothing_drawn_twice` | fragment shaders only, no pause during a recording | `OnceInv`; `NothingDrawnTwice` |

`Undisturbed` leaves out GL errors, a cancelled Open dialog, a pause just in front
of `glEnd`, and a pause under the tab of another kind of shader. The debuggee
may still die at any command, and the user may pause at any vertex. Each part is
needed: dropping it leads to one of the disagreements above (GL errors
to `StoredForStep`, the others to `TraceIsClean`). So are the hypotheses that are
added to it: a draw call debugged in its vertex shader is drawn twice, and after
an interrupted recording the queries stay stopped. `Nothing_drawn_twice`
does without `Undisturbed`: whatever fails, a fragment shader's session draws
nothing twice.

None of the properties is inductive, because they speak of the trace or of the event loop
only, and what is true there depends on every command sent since.

* `SInv` says for each control point what the debug library holds: nothing at the
  trace (`TraceInv`), then target, shader and recording in the order in which they are
  taken (`StartInv`, `RecordInv`), a complete draw call while a shader is debugged
  (`DebugInv`), and what is left of it while it is given back in the
  reverse order (`LeaveInv`) or undone (`AbortInv`). `LevelInv` says at which run levels
  each command is sent. The proof reduces each action to one step lemma: where it
  starts, that the debuggee survived, and the one GL state it can lead
  to, which follows from the lemmas on `RenderState`; `SInv` holds trivially without a
  debuggee.
* `DrawInv`: the calls of the image followed by the recorded ones are the calls
  made. `RecordCall` moves a call into the recording, where `SInv` says the fragment
  target is set; `LeaveReplay` and `AbortReplay` move the recording into the image, where
  `SInv` says the target was restored and the shader is the application's.
* `QueryInv`: what the query has counted followed by what is recorded is what was
  called; the query stands still and is marked from `Interrupt` to
  `LeaveQueries`, and runs before the replay. Counting is the number of counted effects
  up to a position, so that its two lemmas (`CountsMore`, `CountsUncounted`) are about
  cardinalities and need no induction.
* `OnceInv` cannot rest on `SInv`, which GL errors break. It keeps what
  they leave true: drawn and recorded calls together are no more than those
  called; while something is recorded or a debugged shader can be stepped the fragment target is set, which
  a failed `SetTarget` or `RestoreTarget` does not contradict; and a recording
  is gone before the application draws again.

### Watches

`WatchList_proofs` proves `Watch_is_current` (`WatchSpec => []WatchIsCurrent`): for any
shader, any watched variables and any sequence of answers with the promises
above, what is on display is current. `ShaderStepping` itself is out of reach, as the
meaning of its steps (`ShaderEffects`) is recursive over the tree; there TLC shows, shader by shader, that
the promises are kept. This splits the question: what
`updateWatchListData` does is proved, what it relies on is checked. `WatchIsCurrent` is not
inductive, because the loop dialog passes iterations without reading values
back, and the update behind them reads only what the last of them named:
`WatchInv` says that all other values are current. The lemmas give, for one item, what
each of the three functions makes of it (`SteppedItems`, `UpdatedItems`,
`ResetItems`), and `UpdateIsCurrent` combines them: a variable that is shown behind a
step was shown before, or is new and read. `StackIsKnown` is needed as a scope
`InScopeStack` alone makes no one read a value, the promise of a reset because
`resetWatchListData` drops the values of callers.

### Stepping

`JumpSession_proofs` proves, of `JumpSpec` and for every set of `WellFormed` shaders
(`ShadersAssumption`, which TLC evaluates on the shaders of its runs):

| Theorem | States |
|---|---|
| `Jump_inductive`, `Jump_JumpInv` | every answer is a stop, and the marks are those of the stop it names, with the path to it (`JumpInv`) |
| `Jump_AlwaysStops` | every step finds a statement to stop at (`AlwaysStops`): no `exit(1)`, no NULL, no lost target |
| `Jump_OneTargetPerFrame` | each function on the parse stack has one target, a caller's is its call (`OneTargetPerFrame`) |
| `Jump_MarksLeadToTargets` | the path leads to the targets and nowhere else, nothing beside it is in progress (`MarksLeadToTargets`) |

They hold for any behaviour at any stop, also for those that no button
offers there, and for shaders that are not among the checked ones, such as loops
without a test and increments of operands with calls. `WellFormed` excludes what
breaks: a selection with a false block only, calls below a constructor, a
function that is called and not defined.

None of the properties is inductive. `JumpInv` looks at the marks without the
path, which a step clears and builds again. `StopsIn(s, f, t)` says that in the
function `f` everything is untouched (`Quiet`) but the stop `t`, which has the mark
and a state at which its kind stops, and the nodes above it, which are at work on the
part in which `t` lies (`Leads`); `Stacked` says it of every caller and its call.

* The path (`PathReached`): before a step, every node with the mark `Path` lies above a
  stop by parts in progress, so the clearing traversal comes to it, and a step starts
  from the marks of a stop (`StartsAtStop`).
* The contract (`Contract`) of a traversal of given depth, for every node `n`. While the
  target is looked for and does not lie in `n`, nothing changes. If it lies in `n`
  (`Starts`), or has been left before `n` (`Free`), the
  traversal either stops the shader properly (`Stops`) or passes `n`: nothing in `n` is
  marked or in progress, the stack is the same and a stop is still looked
  for. The body of `main`, its last node and the function on top are never passed: they stop.
  One lemma per kind of node shows that its visit keeps the contract if the
  visits of its parts do; selections and loops have one per stage, with
  the states in which they come to it. The end of a
  function is the case that leaves the tree: its caller is traversed
  again, with one function less on the stack.
* Depth. A visit of `n` needs no more than `Room`: the nodes of its subtree, and the
  whole tree for each function on the stack and for entering one
  (`Weight`; a step enters one at most, by leaving its target with `INTO`). `DeepEnough` is the induction over the depth: a
  traversal keeps the contract for all nodes whose room is less than its depth.
  `FitsDepth` shows that `Depth` is enough, because the stack
  holds no function twice: the rank that `Callable` gives to functions falls
  from caller to callee.
* A step therefore ends with a stop (`AlwaysFound`), whose marks with
  the path are `JumpInv` again (`StepAnswers`).

The induction is over the set of the depths at which the contract holds
(`SetInduction`, from the well-foundedness of the naturals), as the induction
theorems of the library take operators. That `Traversal` is what its recursive
definition says is proved in the same way (`EveryDepth`).

### Left to TLC

Only model-checked are the liveness properties (fairness is beyond the prover);
`DebugSession` with forks, with GL errors that halt no-trace runs, or with faults
and GL errors together; that a stop is the one that execution comes to next and
names what it wrote (`StopIsShown`, `WalkSpec`), as `ShaderEffects` and `DebugVar`
are recursive over the tree of the shader; that the main window steps as `JumpSpec`
and its answers keep the promises of `WatchSpec`, which `ShaderStepping` states next to
them; and the four properties of `ShaderReadBack`.

## Not modelled, and why

* Scanner, parser and linker of the shader compilers, the wording of generated
  code, widgets, logging: sequential translation or presentation. The vendored Mesa compiler
  and GL headers are most of the repository's lines and none of its logic.
* The values of shader variables: `ShaderStepping` says which are current and
  `ShaderReadBack` from which point of the execution they are, not what they are.
* Debug code for vertex and geometry shaders (`DBG_CG_GEOMETRY_MAP`,
  `DBG_CG_GEOMETRY_CHANGEABLE`, `DBG_CG_VERTEX_COUNT`): their results are lists of
  vertices, not one answer per fragment.
* The Windows back end: the same protocol over two events; planned after the
  Linux one.
* Threads of the debuggee: the code keys records by process and does not trace
  clones, so a second thread has no defined behaviour to verify.
* The forked child of a debuggee and what becomes of it.
* Clicks that are delivered inside a nested handler started from
  `processEvents` (a second step inside a run).

## Plan

1. (done) `DbgRecord`, `FunctionHook`, `ProgramControl`, `DebugSession`, `SteppedProgram`.
2. (done) `RenderState`, `ShaderDebug`: run levels of shader debugging with the stored
   shader, the interrupted queries, the debug target and the recording.
3. `StreamRecorder`, `ScratchMemory`, `ThreadRecords`, `HashTable`, `Queries`: sequential
   state machines against abstract ones (sequence, set of blocks, partial function).
4. Windows handshake: two auto-reset events instead of signals, against the
   same `SteppedProgram`.
5. (done) `ShaderTree`, `DebugVar`, `DebugJump`, `JumpSession`, `WatchList`, `ShaderStepping`: stepping of shaders;
   `DebugCode`, `ShaderExec`, `ShaderReadBack`: the code generated for a stop. Next:
   the options of geometry shaders.
6. (done) `DebugSession` implements `SteppedProgram`; the safety properties of `ShaderDebug`;
   the watch list of `ShaderStepping`, and its marks for every shader (`JumpSession`).
   Proofs left: inductive invariants of the modules of 3 and 4.

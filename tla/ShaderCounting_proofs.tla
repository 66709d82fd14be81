-------------------------- MODULE ShaderCounting_proofs -------------------------
(***************************************************************************)
(* What a query of the application counts when a shader-debug session is   *)
(* conducted while it runs.                                                *)
(***************************************************************************)
EXTENDS ShaderDrawing_proofs, FiniteSetTheorems

(* The positions of the counted effects, and how many there are up to one  *)
(* of them.                                                                *)
LEMMA CountedTyped ==
    ASSUME NEW s \in Seq(Effects)
    PROVE  /\ Counted(s) \subseteq 1 .. Len(s) /\ IsFiniteSet(Counted(s))
           /\ Cardinality(Counted(s)) \in Nat
           /\ \A i \in Counted(s) : CountedTo(s, i) \in 1 .. Cardinality(Counted(s))
<1>1. Counted(s) \subseteq 1 .. Len(s)
  BY DEF Counted
<1>2. Len(s) \in Nat /\ IsFiniteSet(1 .. Len(s))
  BY FS_Interval
<1>3. IsFiniteSet(Counted(s))
  BY <1>1, <1>2, FS_Subset
<1>4. Cardinality(Counted(s)) \in Nat
  BY <1>3, FS_CardinalityType
<1>5. ASSUME NEW i \in Counted(s)
      PROVE  CountedTo(s, i) \in 1 .. Cardinality(Counted(s))
  <2> DEFINE upTo == Counted(s) \cap 1 .. i
  <2>1. IsFiniteSet(upTo) /\ Cardinality(upTo) <= Cardinality(Counted(s))
    BY <1>3, FS_Subset
  <2>2. i \in upTo
    BY <1>1
  <2> HIDE DEF upTo
  <2>3. Cardinality(upTo) \in Nat /\ Cardinality(upTo) # 0
    BY <2>1, <2>2, FS_CardinalityType, FS_EmptySet
  <2>4. Cardinality(upTo) \in 1 .. Cardinality(Counted(s))
    BY <1>4, <2>1, <2>3
  <2> QED
    BY <2>4 DEF upTo, CountedTo
<1> QED
  BY <1>1, <1>3, <1>4, <1>5

(* The elements of a longer image.                                         *)
LEMMA LongerImage ==
    ASSUME NEW s \in Seq(Effects), NEW t \in Seq(Effects)
    PROVE  /\ s \o t \in Seq(Effects) /\ DOMAIN (s \o t) = 1 .. Len(s) + Len(t)
           /\ \A i \in 1 .. Len(s) : (s \o t)[i] = s[i]
           /\ \A i \in Len(s) + 1 .. Len(s) + Len(t) : (s \o t)[i] = t[i - Len(s)]
<1>1. /\ s \o t \in Seq(Effects) /\ Len(s \o t) = Len(s) + Len(t)
      /\ \A i \in 1 .. Len(s) + Len(t) :
           (s \o t)[i] = IF i <= Len(s) THEN s[i] ELSE t[i - Len(s)]
  BY ConcatProperties
<1>2. Len(s) \in Nat /\ Len(t) \in Nat
  OBVIOUS
<1>3. DOMAIN (s \o t) = 1 .. Len(s) + Len(t)
  BY <1>1
<1>4. \A i \in 1 .. Len(s) : (s \o t)[i] = s[i]
  <2> TAKE i \in 1 .. Len(s)
  <2>1. i \in 1 .. Len(s) + Len(t) /\ i <= Len(s)
    BY <1>2
  <2> QED
    BY <1>1, <2>1
<1>5. \A i \in Len(s) + 1 .. Len(s) + Len(t) : (s \o t)[i] = t[i - Len(s)]
  <2> TAKE i \in Len(s) + 1 .. Len(s) + Len(t)
  <2>1. i \in 1 .. Len(s) + Len(t) /\ ~(i <= Len(s))
    BY <1>2
  <2> QED
    BY <1>1, <2>1
<1> QED
  BY <1>1, <1>3, <1>4, <1>5

(* Effects that are not counted change nothing.                            *)
LEMMA CountsUncounted ==
    ASSUME NEW s \in Seq(Effects), NEW t \in Seq(Effects), NEW calls,
           \A i \in DOMAIN t : ~t[i].counted, Counts(s, calls)
    PROVE  Counts(s \o t, calls)
<1> DEFINE u == s \o t
<1>1. /\ DOMAIN u = 1 .. Len(s) + Len(t)
      /\ \A i \in 1 .. Len(s) : u[i] = s[i]
      /\ \A i \in Len(s) + 1 .. Len(s) + Len(t) : u[i] = t[i - Len(s)]
  BY LongerImage
<1>2. Len(s) \in Nat /\ Len(t) \in Nat /\ DOMAIN s = 1 .. Len(s) /\ DOMAIN t = 1 .. Len(t)
  OBVIOUS
<1> HIDE DEF u
<1>3. \A i \in Len(s) + 1 .. Len(s) + Len(t) : ~u[i].counted
  <2> TAKE i \in Len(s) + 1 .. Len(s) + Len(t)
  <2>1. i - Len(s) \in DOMAIN t
    BY <1>2
  <2> QED
    BY <1>1, <2>1
<1>4. Counted(u) = Counted(s)
  BY <1>1, <1>2, <1>3 DEF Counted
<1>5. \A i \in Counted(u) : u[i].call = calls[CountedTo(u, i)]
  BY <1>1, <1>2, <1>4 DEF Counts, Counted, CountedTo
<1> QED
  BY <1>4, <1>5 DEF Counts, u

(* Effects that are counted follow those that were.                        *)
LEMMA CountsMore ==
    ASSUME NEW s \in Seq(Effects), NEW t \in Seq(Effects),
           NEW calls \in Seq(CallKinds),
           \A i \in DOMAIN t : t[i].counted, Counts(s, calls)
    PROVE  Counts(s \o t, calls \o Calls(t))
<1> DEFINE u == s \o t
           more == Calls(t)
           C == Counted(s)
           n == Len(s)
           m == Len(t)
           k == Len(calls)
<1>1. /\ DOMAIN u = 1 .. n + m /\ u \in Seq(Effects)
      /\ \A i \in 1 .. n : u[i] = s[i]
      /\ \A i \in n + 1 .. n + m : u[i] = t[i - n]
  BY LongerImage
<1>2. /\ n \in Nat /\ m \in Nat /\ k \in Nat
      /\ DOMAIN s = 1 .. n /\ DOMAIN t = 1 .. m
  OBVIOUS
<1>3. /\ more \in Seq(CallKinds) /\ Len(more) = m
      /\ \A i \in 1 .. m : more[i] = t[i].call
  BY CallsTyped DEF Calls
<1>4. /\ C \subseteq 1 .. n /\ IsFiniteSet(C) /\ Cardinality(C) = k
      /\ \A i \in C : CountedTo(s, i) \in 1 .. k /\ s[i].call = calls[CountedTo(s, i)]
  BY CountedTyped DEF Counts
<1> HIDE DEF more, n, m, k, u
<1>5. /\ Len(calls \o more) = k + m
      /\ \A i \in 1 .. k : (calls \o more)[i] = calls[i]
      /\ \A i \in k + 1 .. k + m : (calls \o more)[i] = more[i - k]
  <2>1. /\ Len(calls \o more) = k + m
        /\ \A i \in 1 .. k + m :
             (calls \o more)[i] = IF i <= k THEN calls[i] ELSE more[i - k]
    BY <1>3, ConcatProperties DEF k
  <2>2. \A i \in 1 .. k : (calls \o more)[i] = calls[i]
    BY <1>2, <2>1
  <2>3. \A i \in k + 1 .. k + m : (calls \o more)[i] = more[i - k]
    <3> TAKE i \in k + 1 .. k + m
    <3>1. i \in 1 .. k + m /\ ~(i <= k)
      BY <1>2
    <3> QED
      BY <2>1, <3>1
  <2> QED
    BY <2>1, <2>2, <2>3
<1>6. \A i \in n + 1 .. n + m : u[i].counted
  <2> TAKE i \in n + 1 .. n + m
  <2>1. i - n \in DOMAIN t
    BY <1>2
  <2> QED
    BY <1>1, <2>1
<1>7. Counted(u) = C \cup (n + 1 .. n + m)
  BY <1>1, <1>2, <1>4, <1>6 DEF Counted
<1> HIDE DEF C
<1>8. ASSUME NEW j \in n .. n + m
      PROVE  Cardinality(C \cup (n + 1 .. j)) = k + (j - n)
  <2>1. j \in Int /\ n + 1 \in Int /\ (n + 1 > j <=> j = n)
    BY <1>2
  <2>2. IsFiniteSet(n + 1 .. j) /\ Cardinality(n + 1 .. j) = j - n
    BY <1>2, <2>1, FS_Interval
  <2>3. C \cap (n + 1 .. j) = {}
    BY <1>2, <1>4
  <2> DEFINE R == n + 1 .. j
  <2> HIDE DEF R
  <2>4. Cardinality(C \cup R) = k + (j - n) - 0
    <3>1. /\ IsFiniteSet(R) /\ Cardinality(R) = j - n
          /\ C \cap R = {} /\ Cardinality({}) = 0
      BY <2>2, <2>3, FS_EmptySet DEF R
    <3>2. Cardinality(C \cup R) = Cardinality(C) + Cardinality(R) - Cardinality(C \cap R)
      BY <1>4, <3>1, FS_Union
    <3> QED
      BY <1>4, <3>1, <3>2
  <2> QED
    BY <1>2, <2>4 DEF R
<1>9. Cardinality(Counted(u)) = Len(calls \o more)
  BY <1>2, <1>5, <1>7, <1>8
<1>10. ASSUME NEW i \in Counted(u)
       PROVE  u[i].call = (calls \o more)[CountedTo(u, i)]
  <2>1. CASE i \in C
    <3>1. i \in 1 .. n /\ (C \cup (n + 1 .. n + m)) \cap 1 .. i = C \cap 1 .. i
      BY <1>2, <1>4, <2>1
    <3>2. CountedTo(u, i) = CountedTo(s, i)
      BY <1>7, <3>1 DEF CountedTo, C
    <3> QED
      BY <1>1, <1>4, <1>5, <2>1, <3>1, <3>2
  <2>2. CASE i \in n + 1 .. n + m
    <3>1. (C \cup (n + 1 .. n + m)) \cap 1 .. i = C \cup (n + 1 .. i)
      <4>1. C \cap 1 .. i = C
        <5>1. ASSUME NEW x \in C PROVE x \in 1 .. i
          BY <1>2, <1>4, <2>2
        <5> QED
          BY <5>1
      <4>2. (n + 1 .. n + m) \cap 1 .. i = n + 1 .. i
        BY <1>2, <2>2
      <4> QED
        BY <4>1, <4>2, Zenon
    <3>2. CountedTo(u, i) = k + (i - n)
      <4>1. i \in n .. n + m
        BY <1>2, <2>2
      <4>2. CountedTo(u, i) = Cardinality(C \cup (n + 1 .. i))
        BY <1>7, <3>1 DEF CountedTo
      <4> QED
        BY <1>8, <4>1, <4>2
    <3>3. /\ k + (i - n) \in k + 1 .. k + m /\ k + (i - n) - k = i - n
          /\ i - n \in 1 .. m
      BY <1>2, <2>2
    <3>4. u[i].call = more[i - n]
      BY <1>1, <1>3, <2>2, <3>3
    <3>5. (calls \o more)[k + (i - n)] = more[i - n]
      <4>1. i \in Int /\ n \in Int /\ k \in Int
        BY <1>2, <2>2
      <4>2. PICK q \in k + 1 .. k + m : q = k + (i - n)
        BY <3>3
      <4>3. q - k = i - n
        BY <4>1, <4>2
      <4>4. (calls \o more)[q] = more[q - k]
        BY <1>5
      <4> QED
        BY <4>2, <4>3, <4>4
    <3> QED
      BY <3>2, <3>4, <3>5
  <2> QED
    BY <1>7, <2>1, <2>2
<1>11. Counts(u, calls \o more)
  BY <1>9, <1>10 DEF Counts
<1> QED
  BY <1>11 DEF u, more

-----------------------------------------------------------------------------
(* The first part of a sequence of calls is found again in it.             *)
LEMMA FirstPart ==
    ASSUME NEW s \in Seq(CallKinds), NEW t \in Seq(CallKinds)
    PROVE  /\ Len(s) \in 0 .. Len(s \o t)
           /\ SubSeq(s \o t, 1, Len(s)) = s
<1> DEFINE u == s \o t
           n == Len(s)
           m == Len(t)
           v == SubSeq(u, 1, n)
<1>1. /\ u \in Seq(CallKinds) /\ Len(u) = n + m
      /\ \A i \in 1 .. n + m : u[i] = IF i <= n THEN s[i] ELSE t[i - n]
  BY ConcatProperties
<1>2. n \in Nat /\ m \in Nat
  OBVIOUS
<1> HIDE DEF u, m
<1>3. n \in 0 .. Len(u) /\ \A i \in 1 .. n : u[i] = s[i]
  <2> HIDE DEF n
  <2> QED
    BY <1>1, <1>2
<1>4. v \in Seq(CallKinds) /\ Len(v) = n /\ \A i \in 1 .. n : v[i] = u[i]
  BY <1>1, <1>2, <1>3
<1> HIDE DEF v
<1>5. v = s
  BY <1>3, <1>4, SeqEqual
<1> QED
  BY <1>3, <1>5 DEF u, v, n

(* The image counts a first part of the calls, and the rest is recorded.   *)
CountedBefore(image, recorded, calls) ==
    \E s \in Seq(CallKinds) : calls = s \o recorded /\ Counts(image, s)

(* Said in this way or, as TLC evaluates it, by the length of the part.    *)
LEMMA CountedParts ==
    ASSUME NEW calls \in Seq(CallKinds), NEW recorded \in Seq(CallKinds), NEW image
    PROVE  CountedBefore(image, recorded, calls)
             <=> \E n \in 0 .. Len(calls) :
                   /\ calls = SubSeq(calls, 1, n) \o recorded
                   /\ Counts(image, SubSeq(calls, 1, n))
<1>1. ASSUME NEW s \in Seq(CallKinds), calls = s \o recorded, Counts(image, s)
      PROVE  \E n \in 0 .. Len(calls) :
               /\ calls = SubSeq(calls, 1, n) \o recorded
               /\ Counts(image, SubSeq(calls, 1, n))
  <2>1. Len(s) \in 0 .. Len(calls) /\ SubSeq(calls, 1, Len(s)) = s
    BY <1>1, FirstPart
  <2> QED
    BY <1>1, <2>1, Zenon
<1>2. ASSUME NEW n \in 0 .. Len(calls),
             calls = SubSeq(calls, 1, n) \o recorded,
             Counts(image, SubSeq(calls, 1, n))
      PROVE  CountedBefore(image, recorded, calls)
  <2>1. SubSeq(calls, 1, n) \in Seq(CallKinds)
    OBVIOUS
  <2> QED
    BY <1>2, <2>1, Zenon DEF CountedBefore
<1> QED
  BY <1>1, <1>2, Zenon DEF CountedBefore

(* What is drawn is counted when the query runs, and only then.            *)
LEMMA DrawnCounted ==
    ASSUME NEW g \in GlStates, NEW calls \in Seq(CallKinds)
    PROVE  \A i \in DOMAIN Drawn(g, calls) :
             Drawn(g, calls)[i].counted <=> g.query = "running"
BY DEF Drawn, Effect

(* While the query is stopped, nothing that is drawn counts.               *)
LEMMA StoppedDraws ==
    ASSUME NEW g \in GlStates, NEW image \in Seq(Effects),
           NEW calls \in Seq(CallKinds), NEW s,
           g.query = "stopped", Counts(image, s)
    PROVE  Counts(image \o Drawn(g, calls), s)
<1> DEFINE t == Drawn(g, calls)
<1>1. t \in Seq(Effects) /\ \A i \in DOMAIN t : ~t[i].counted
  BY DrawnCalls, DrawnCounted
<1> HIDE DEF t
<1>2. Counts(image \o t, s)
  BY <1>1, CountsUncounted
<1> QED
  BY <1>2 DEF t

(* While it runs, everything that is drawn counts.                         *)
LEMMA RunningDraws ==
    ASSUME NEW g \in GlStates, NEW image \in Seq(Effects),
           NEW calls \in Seq(CallKinds), NEW s \in Seq(CallKinds),
           g.query = "running", Counts(image, s)
    PROVE  Counts(image \o Drawn(g, calls), s \o calls)
<1> DEFINE t == Drawn(g, calls)
<1>1. t \in Seq(Effects) /\ \A i \in DOMAIN t : t[i].counted
  BY DrawnCalls, DrawnCounted
<1>2. Calls(t) = calls
  BY DrawnCalls
<1> HIDE DEF t
<1>3. Counts(image \o t, s \o Calls(t))
  BY <1>1, CountsMore
<1> QED
  BY <1>2, <1>3, Zenon DEF t


(* An empty image counts nothing.                                          *)
LEMMA NothingCounted == Counts(<<>>, <<>>)
<1>1. Counted(<<>>) = {} /\ Cardinality({}) = 0
  BY FS_EmptySet DEF Counted
<1> QED
  BY <1>1 DEF Counts

(* With nothing recorded all the calls are counted.                        *)
LEMMA NothingRecorded ==
    ASSUME NEW calls \in Seq(CallKinds), NEW image
    PROVE  CountedBefore(image, <<>>, calls) <=> Counts(image, calls)
<1>1. \A s \in Seq(CallKinds) : s \o <<>> = s
  BY ConcatEmptySeq
<1> QED
  BY <1>1, Zenon DEF CountedBefore

(* Only a debuggee that lives answers a command.                           *)
LEMMA HandlerLives ==
    ASSUME Undisturbed, TypeOK, SInv, Handler, alive' PROVE alive
BY QuietDraws, ReadBackDraws, ReplayDraws, RecordDraws, AppCallDraws, AbortEndStep
   DEF Handler, QuietStep
-----------------------------------------------------------------------------
(* The query runs, or the library has stopped and marked it; and no        *)
(* recording is given up.                                                  *)
QueryStands ==
    /\ IF (level \in Trace /\ pc # "target") \/ pc \in {"app", "leaveReplay"}
       THEN gl.query = "running"
       ELSE gl.query = "stopped" /\ gl.marked
    /\ pc \notin {"abortEnd", "abortTarget", "abortShader", "abortReplay"}

(* The steps of the handlers keep this,                                    *)
LEMMA QueryHandler ==
    ASSUME Undisturbed, PauseAt = {}, TypeOK, SInv, alive', QueryStands, Handler
    PROVE  QueryStands'
<1>1. /\ gl \in GlStates /\ type \in Stages
      /\ Stages \cap (Trace \cup {"setup", "record", "restart"}) = {}
      /\ {"record", "restart"} \cap Trace = {} /\ \A i : SubLevel(i) \in Trace
  BY Typed, Fine DEF Trace, SubLevel
<1>2. CASE LeaveShader
  BY <1>1, <1>2, LeaveShaderStep DEF QueryStands, GlStates, rest, SInv, LevelInv
<1>3. CASE LeaveQueries
  BY <1>1, <1>3, LeaveQueriesStep DEF QueryStands, GlStates, rest, SInv, LevelInv
<1>4. CASE LeaveReplay
  BY <1>4, LeaveReplayStep, ReplayDraws DEF QueryStands, rest
<1>5. CASE AppCall
  <2>1. pc' = "idle" /\ level' \in Trace /\ pc = "app"
    BY <1>1, <1>5, AppCallStep
  <2> QED
    BY <1>5, <2>1, AppCallDraws DEF QueryStands
<1>6. CASE Interrupt
  BY <1>1, <1>6, InterruptStep DEF QueryStands, GlStates, rest, SInv, LevelInv, Trace
<1>7. CASE SetDbgTarget
  BY <1>1, <1>7, SetDbgTargetStep DEF QueryStands, GlStates
<1>8. CASE Store
  BY <1>1, <1>8, StoreStep DEF QueryStands, GlStates, rest, SInv, LevelInv
<1>9. CASE InitRecording
  BY <1>1, <1>9, InitRecordingStep DEF QueryStands, GlStates, SInv, LevelInv
<1>10. CASE RecordCall
  <2>1. /\ pc = "record" /\ level = "record" /\ level' = level
        /\ pc' \in {"events", "enter"}
    BY <1>10, RecordCallStep
  <2> QED
    BY <1>1, <1>10, <2>1, RecordDraws DEF QueryStands
<1>11. CASE EventsDone
  <2>1. level = "record" /\ pc = "events" /\ pc' = "record" /\ level' = level /\ gl' = gl
    BY <1>11 DEF EventsDone, SInv, RecordInv
  <2> QED
    BY <1>1, <2>1 DEF QueryStands
<1>12. CASE AbortEnd \/ AbortTarget \/ AbortShader \/ AbortReplay
  BY <1>12 DEF QueryStands, AbortEnd, AbortTarget, AbortShader, AbortReplay
<1>13. CASE Enter
  <2>1. alive /\ pc = "enter" /\ level \in {"record", "restart"}
    BY <1>13 DEF Enter, SInv, LevelInv
  <2>2. level' \in Stages /\ pc' \in {"step", "cleanup"} /\ gl' = gl
    BY <1>1, <1>13 DEF Enter
  <2> QED
    BY <1>1, <2>1, <2>2 DEF QueryStands
<1>14. CASE ReadBack
  <2>1. /\ pc = "step" /\ pc' = "idle" /\ level \in Stages /\ level' = level
    BY <1>14, ReadBackStep
  <2> QED
    BY <1>1, <1>14, <2>1, ReadBackDraws DEF QueryStands
<1>15. CASE CleanupDBGShader
  BY <1>1, <1>15, CleanupDBGShaderStep DEF QueryStands, GlStates
<1> QED
  BY <1>2, <1>3, <1>4, <1>5, <1>6, <1>7, <1>8, <1>9, <1>10, <1>11, <1>12, <1>13, <1>14,
     <1>15 DEF Handler

(* and so do the user's.                                                   *)
LEMMA QueryUser ==
    ASSUME Undisturbed, PauseAt = {}, TypeOK, SInv, alive', alive => QueryStands, User
    PROVE  QueryStands'
<1>1. /\ tab \in Stages
      /\ Stages \cap (Trace \cup {"setup", "record", "restart"}) = {}
      /\ {"record", "restart"} \cap Trace = {} /\ \A i : SubLevel(i) \in Trace
  BY Typed, Fine DEF Trace, SubLevel
<1>2. CASE ExecuteClicked
  <2>1. gl' = Fresh /\ level' \in Trace /\ pc' = "idle"
    BY <1>1, <1>2 DEF ExecuteClicked, Launched, Kill, Gone
  <2> QED
    BY <2>1 DEF QueryStands, Fresh
<1>3. CASE OpenAccepted \/ OpenCancelled
  BY <1>3, Fine DEF OpenAccepted, OpenCancelled, Kill, Gone
<1>4. CASE SelectTab
  BY <1>4 DEF SelectTab, QueryStands
<1>5. CASE StepClicked \/ SkipClicked
  BY <1>1, <1>5 DEF StepClicked, SkipClicked, Traced, QueryStands
<1>6. CASE ShaderExecuteClicked
  BY <1>1, <1>6 DEF ShaderExecuteClicked, QueryStands, Trace
<1>7. CASE ShaderStepClicked
  BY <1>1, <1>7 DEF ShaderStepClicked, QueryStands
<1>8. CASE PauseClicked
  BY <1>8 DEF PauseClicked
<1> QED
  BY <1>2, <1>3, <1>4, <1>5, <1>6, <1>7, <1>8 DEF User

(* A query that runs has counted the calls made; one that is stopped has   *)
(* counted those before the recording, which is replayed after the restart.*)
THEOREM Query_inductive ==
    ASSUME Undisturbed, PauseAt = {} PROVE Spec => []QueryInv
<1>1. Init => QueryInv
  BY DEF Init, QueryInv
<1>2. TypeOK /\ SInv /\ QueryInv /\ [Next]_vars => QueryInv'
  <2> SUFFICES ASSUME TypeOK, SInv, QueryInv, [Next]_vars, TypeOK', alive'
               PROVE  QueryStands' /\ CountedBefore(gl'.image, gl'.recorded, called')
    <3>1. TypeOK /\ [Next]_vars => TypeOK'
      BY HandlerTyped, UserTyped DEF Next, vars, dbg, app, TypeOK
    <3>2. TypeOK' => called' \in Seq(CallKinds) /\ gl'.recorded \in Seq(CallKinds)
      BY DEF TypeOK, GlStates
    <3>3. TypeOK' => (CountedBefore(gl'.image, gl'.recorded, called')
                        <=> \E n \in 0 .. Len(called') :
                              /\ called' = SubSeq(called', 1, n) \o gl'.recorded
                              /\ Counts(gl'.image, SubSeq(called', 1, n)))
      BY <3>2, CountedParts
    <3> QED
      BY <3>1, <3>3 DEF QueryInv, QueryStands
  <2>1. /\ gl \in GlStates /\ gl.image \in Seq(Effects)
        /\ gl.recorded \in Seq(CallKinds) /\ Frame[at] \in CallKinds
        /\ <<Frame[at]>> \in Seq(CallKinds) /\ called \in Seq(CallKinds)
    <3>1. gl \in GlStates /\ gl.image \in Seq(Effects) /\ Frame[at] \in CallKinds
      BY Typed DEF GlStates
    <3> QED
      BY <3>1, Typed DEF TypeOK
  <2>2. alive => QueryStands
    BY DEF QueryInv, QueryStands
  <2>3. alive => CountedBefore(gl.image, gl.recorded, called)
    BY <2>1, CountedParts DEF QueryInv
  <2>4. QueryStands'
    <3>1. CASE Handler
      <4>1. alive
        BY <3>1, HandlerLives
      <4> QED
        BY <2>2, <3>1, <4>1, QueryHandler
    <3>2. CASE User
      BY <2>2, <3>2, QueryUser
    <3>3. CASE UNCHANGED vars
      BY <2>2, <3>3 DEF vars, dbg, QueryStands
    <3> QED
      BY <3>1, <3>2, <3>3 DEF Next
  <2>5. CASE UNCHANGED vars \/ QuietStep
    <3>1. /\ alive /\ called' = called
          /\ gl'.image = gl.image /\ gl'.recorded = gl.recorded
      BY <2>5, QuietDraws DEF vars, app
    <3> QED
      BY <2>4, <2>3, <3>1, Zenon
  <2>6. CASE ReadBack
    <3>1. alive /\ pc = "step" /\ level \in Stages
      BY <2>6, ReadBackStep
    <3>2. gl.query = "stopped"
      BY <2>2, <3>1, Fine DEF QueryStands
    <3>3. PICK s \in Seq(CallKinds) : called = s \o gl.recorded /\ Counts(gl.image, s)
      BY <2>3, <3>1 DEF CountedBefore
    <3>4. /\ called' = called /\ gl'.recorded = gl.recorded
          /\ \/ gl'.image = gl.image
             \/ \E g \in GlStates : /\ g.query = gl.query
                                    /\ gl'.image = gl.image \o Drawn(g, gl.recorded)
      BY <2>6, ReadBackDraws
    <3>5. Counts(gl'.image, s)
      <4>1. CASE gl'.image = gl.image
        BY <3>3, <4>1
      <4>2. ASSUME NEW g \in GlStates, g.query = gl.query,
                   gl'.image = gl.image \o Drawn(g, gl.recorded)
            PROVE  Counts(gl'.image, s)
        <5>1. Counts(gl.image \o Drawn(g, gl.recorded), s)
          BY <2>1, <3>2, <3>3, <4>2, StoppedDraws
        <5> QED
          BY <4>2, <5>1, Zenon
      <4> QED
        BY <3>4, <4>1, <4>2
    <3>6. called' = s \o gl'.recorded
      BY <3>3, <3>4, Zenon
    <3> QED
      BY <2>4, <3>3, <3>5, <3>6, Zenon DEF CountedBefore
  <2>7. CASE RecordCall
    <3>1. alive /\ pc = "record" /\ level = "record"
      BY <2>7, RecordCallStep
    <3>2. gl.query = "stopped"
      BY <2>2, <3>1 DEF QueryStands, Trace
    <3>3. PICK s \in Seq(CallKinds) : called = s \o gl.recorded /\ Counts(gl.image, s)
      BY <2>3, <3>1 DEF CountedBefore
    <3>4. /\ called' = Append(called, Frame[at])
          /\ gl'.recorded = Append(gl.recorded, Frame[at])
          /\ \/ gl'.image = gl.image
             \/ \E g \in GlStates : /\ g.query = gl.query
                                    /\ gl'.image = gl.image \o Drawn(g, <<Frame[at]>>)
      BY <2>7, RecordDraws
    <3>5. Counts(gl'.image, s)
      <4>1. CASE gl'.image = gl.image
        BY <3>3, <4>1
      <4>2. ASSUME NEW g \in GlStates, g.query = gl.query,
                   gl'.image = gl.image \o Drawn(g, <<Frame[at]>>)
            PROVE  Counts(gl'.image, s)
        <5>1. Counts(gl.image \o Drawn(g, <<Frame[at]>>), s)
          BY <2>1, <3>2, <3>3, <4>2, StoppedDraws
        <5> QED
          BY <4>2, <5>1, Zenon
      <4> QED
        BY <3>4, <4>1, <4>2
    <3>6. called' = s \o gl'.recorded
      <4>1. s \o Append(gl.recorded, Frame[at]) = Append(s \o gl.recorded, Frame[at])
        BY <2>1, ConcatAppend
      <4> QED
        BY <3>3, <3>4, <4>1, Zenon
    <3> QED
      BY <2>4, <3>3, <3>5, <3>6, Zenon DEF CountedBefore
  <2>8. CASE LeaveReplay
    <3>1. /\ alive /\ called' = called /\ gl'.recorded = <<>>
          /\ gl'.image = gl.image \o Drawn(gl, gl.recorded)
      BY <2>8, ReplayDraws
    <3>2. gl.query = "running"
      BY <2>2, <2>8, <3>1 DEF QueryStands, LeaveReplay
    <3>3. PICK s \in Seq(CallKinds) : called = s \o gl.recorded /\ Counts(gl.image, s)
      BY <2>3, <3>1 DEF CountedBefore
    <3>4. Counts(gl.image \o Drawn(gl, gl.recorded), s \o gl.recorded)
      BY <2>1, <3>2, <3>3, RunningDraws
    <3>5. Counts(gl'.image, called')
      BY <3>1, <3>3, <3>4, Zenon
    <3>6. called' \in Seq(CallKinds)
      BY <2>1, <3>1
    <3> QED
      BY <2>4, <3>1, <3>5, <3>6, NothingRecorded, Zenon
  <2>9. CASE AppCall
    <3>1. alive /\ gl.recorded = <<>> /\ gl'.recorded = <<>> /\ called' \in Seq(CallKinds)
      BY <2>9, AppCallDraws DEF TypeOK
    <3>2. Counts(gl.image, called)
      BY <2>1, <2>3, <3>1, NothingRecorded
    <3>3. gl.query = "running"
      BY <2>2, <2>9, <3>1 DEF QueryStands, AppCall
    <3>4. Counts(gl.image \o Drawn(gl, <<Frame[at]>>), called \o <<Frame[at]>>)
      BY <2>1, <3>2, <3>3, RunningDraws
    <3>5. \/ called' = <<>> /\ gl'.image = <<>>
          \/ called' = called /\ gl'.image = gl.image
          \/ /\ called' = called \o <<Frame[at]>>
             /\ gl'.image = gl.image \o Drawn(gl, <<Frame[at]>>)
      BY <2>9, AppCallDraws
    <3>6. Counts(gl'.image, called')
      BY <3>2, <3>4, <3>5, NothingCounted, Zenon
    <3> QED
      BY <2>4, <3>1, <3>6, NothingRecorded, Zenon
  <2>10. CASE ExecuteClicked
    <3>1. gl'.image = <<>> /\ gl'.recorded = <<>> /\ called' = <<>>
      BY <2>10 DEF ExecuteClicked, Launched, Kill, Gone, Fresh
    <3>2. <<>> \in Seq(CallKinds)
      OBVIOUS
    <3> QED
      BY <2>4, <3>1, <3>2, NothingCounted, NothingRecorded, Zenon
  <2>11. CASE OpenAccepted \/ OpenCancelled
    BY <2>11, Fine DEF OpenAccepted, OpenCancelled, Kill, Gone
  <2>12. CASE AbortEnd \/ AbortReplay
    <3>1. alive
      BY <2>12, HandlerLives DEF Handler
    <3> QED
      BY <2>2, <2>12, <3>1 DEF QueryStands, AbortEnd, AbortReplay
  <2> QED
    BY <2>4, <2>5, <2>6, <2>7, <2>8, <2>9, <2>10, <2>11, <2>12
       DEF Next, Handler, User, QuietStep
<1> QED
  BY <1>1, <1>2, TypeCorrect, Session_inductive, PTL DEF Spec

(* Back at the trace, where nothing is recorded, a query of the            *)
(* application has counted exactly the calls made, in their order.         *)
THEOREM Queries_count ==
    ASSUME Undisturbed, PauseAt = {} PROVE Spec => []QueriesCount
<1>1. TypeOK /\ SInv /\ QueryInv => QueriesCount
  <2> SUFFICES ASSUME TypeOK, SInv, QueryInv, AtTrace
               PROVE  Counts(gl.image, called)
    BY DEF QueriesCount
  <2>1. gl.recorded = <<>> /\ gl.recorded \in Seq(CallKinds) /\ called \in Seq(CallKinds)
    BY Typed DEF TypeOK, SInv, TraceInv, AtTrace
  <2>2. CountedBefore(gl.image, gl.recorded, called)
    BY <2>1, CountedParts DEF QueryInv, AtTrace
  <2> QED
    BY <2>1, <2>2, NothingRecorded
<1> QED
  BY <1>1, TypeCorrect, Session_inductive, Query_inductive, PTL
=============================================================================

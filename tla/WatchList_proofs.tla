---------------------------- MODULE WatchList_proofs ----------------------------
(***************************************************************************)
(* The watch list is current, whatever the variables and the answers are,  *)
(* as long as these keep the promises of WatchSpec.                        *)
(***************************************************************************)
EXTENDS WatchList, TLAPS

(* A well-typed watch list w, of which only variables in P may be shown    *)
(* with a value that is not current.                                       *)
Items == [scope : Shown \cup {"Left", "Out"}, val : {"none", "current", "old"}]

CurrentBut(w, P) ==
    \A v \in DOMAIN w :
        /\ w[v] \in Items
        /\ w[v].scope \in Shown => w[v].val = "current" \/ v \in P

(* The scope of an item is that of the last answer.                        *)
LEMMA ScopeIsNow ==
  ASSUME NEW old, NEW v, NEW r
  PROVE  /\ ScopeNow(old, v, r) \in Shown \cup {"Left", "Out"}
         /\ ScopeNow(old, v, r) \in Shown <=> v \in r.scope \cup r.frames
         /\ ScopeNow(old, v, r) = "Stack" <=> v \in r.frames \ r.scope
         /\ ScopeNow(old, v, r) = "In" => old \in {"New", "In"}
BY DEF ScopeNow, Shown

(* What a step leaves behind: the variables it wrote are not current, and  *)
(* those that come into scope are new.                                     *)
LEMMA SteppedItems ==
  ASSUME NEW w, NEW S, NEW v \in DOMAIN w, w[v] \in Items
  PROVE  /\ DOMAIN Stepped(w, S) = DOMAIN w
         /\ Stepped(w, S)[v] \in Items
         /\ Stepped(w, S)[v].scope = ScopeNow(w[v].scope, v, res')
         /\ w[v].val = "current" =>
              Stepped(w, S)[v].val = "current" \/ v \in S
<1>1. DOMAIN Outdated(w, S) = DOMAIN w
  BY DEF Outdated
<1>2. /\ Outdated(w, S)[v] \in Items
      /\ Outdated(w, S)[v].scope = w[v].scope
      /\ w[v].val = "current" => Outdated(w, S)[v].val = "current" \/ v \in S
  BY DEF Outdated, Items
<1> DEFINE o == Outdated(w, S)[v]
           s == ScopeNow(o.scope, v, res')
<1>3. s \in Shown \cup {"Left", "Out"}
  BY ScopeIsNow
<1>4. Stepped(w, S)[v] = [o EXCEPT !.scope = s]
  BY <1>1 DEF Stepped, SetChangedAndScope
<1>5. DOMAIN Stepped(w, S) = DOMAIN w
  BY <1>1 DEF Stepped, SetChangedAndScope
<1> HIDE DEF s
<1> QED
  BY <1>2, <1>3, <1>4, <1>5 DEF Items, s

(* updateWatchListData reads every shown value that changed or came into   *)
(* scope, and disturbs no current one.                                     *)
LEMMA UpdatedItems ==
  ASSUME NEW w, NEW r, NEW completed, NEW v \in DOMAIN w, w[v] \in Items
  PROVE  LET u == UpdateWatchListData(w, r, completed)
         IN  /\ DOMAIN u = DOMAIN w
             /\ u[v] \in Items
             /\ u[v].scope = w[v].scope
             /\ w[v].scope \in Shown /\
                  (w[v].val = "current" \/ v \in r.changed \/ w[v].scope = "New")
                  => u[v].val = "current"
BY DEF UpdateWatchListData, ReadBack, Dropped, Items, Shown

(* resetWatchListData reads what is in scope.                              *)
LEMMA ResetItems ==
  ASSUME NEW w, NEW v \in DOMAIN w, w[v] \in Items
  PROVE  /\ DOMAIN ResetWatchListData(w) = DOMAIN w
         /\ ResetWatchListData(w)[v] \in Items
         /\ ResetWatchListData(w)[v].scope = w[v].scope
         /\ w[v].scope \in {"New", "In"} => ResetWatchListData(w)[v].val = "current"
BY DEF ResetWatchListData, Items

(* Catching up with the last answer leaves no value that it named old.     *)
LEMMA CaughtUp ==
  ASSUME NEW w, NEW r, NEW completed, CurrentBut(w, r.changed)
  PROVE  /\ CurrentBut(UpdateWatchListData(w, r, completed), {})
         /\ DOMAIN UpdateWatchListData(w, r, completed) = DOMAIN w
         /\ \A v \in DOMAIN w :
              UpdateWatchListData(w, r, completed)[v].scope = w[v].scope
<1>1. DOMAIN UpdateWatchListData(w, r, completed) = DOMAIN w
  BY DEF UpdateWatchListData
<1> QED
  BY <1>1, UpdatedItems DEF CurrentBut

(* A step with an update makes the list current if the answer names what   *)
(* is not: a variable that is shown behind it was shown before, or is new. *)
LEMMA UpdateIsCurrent ==
  ASSUME NEW w, CurrentBut(w, res'.changed), Updated(w),
         \A v \in DOMAIN w : v \in res'.frames \ res'.scope => w[v].scope \in Shown
  PROVE  CurrentBut(watch', {}) /\ ui' \notin Behind
<1>1. PICK S \in SUBSET res'.changed, completed \in Completions :
         watch' = UpdateWatchListData(Stepped(w, S), res', completed)
  BY DEF Updated
<1>2. ui' \notin Behind
  BY DEF Updated
<1>3. ASSUME NEW v \in DOMAIN w
      PROVE  /\ w[v] \in Items
             /\ Stepped(w, S)[v] \in Items
             /\ Stepped(w, S)[v].scope = ScopeNow(w[v].scope, v, res')
             /\ w[v].val = "current" =>
                  Stepped(w, S)[v].val = "current" \/ v \in S
  BY <1>3, SteppedItems DEF CurrentBut
<1>4. DOMAIN Stepped(w, S) = DOMAIN w
  BY DEF Stepped, SetChangedAndScope, Outdated
<1>5. DOMAIN watch' = DOMAIN w
  BY <1>1, <1>4 DEF UpdateWatchListData
<1>6. ASSUME NEW v \in DOMAIN w
      PROVE  /\ watch'[v] \in Items
             /\ watch'[v].scope \in Shown => watch'[v].val = "current"
  <2> DEFINE s == Stepped(w, S)
  <2>1. /\ watch'[v] \in Items
        /\ watch'[v].scope = s[v].scope
        /\ s[v].scope \in Shown /\
             (s[v].val = "current" \/ v \in res'.changed \/ s[v].scope = "New")
             => watch'[v].val = "current"
    BY <1>1, <1>3, <1>4, <1>6, UpdatedItems
  <2> SUFFICES ASSUME s[v].scope \in Shown, s[v].scope # "New", v \notin res'.changed
               PROVE  s[v].val = "current"
    BY <2>1
  <2>2. w[v].scope \in Shown
    BY <1>3, <1>6, ScopeIsNow DEF Shown
  <2> QED
    BY <2>2, <1>3, <1>6 DEF CurrentBut
<1> QED
  BY <1>2, <1>5, <1>6 DEF CurrentBut

-----------------------------------------------------------------------------
(* Every step of the list preserves the invariant.                         *)
LEMMA StepCurrent ==
  ASSUME WatchInv, WatchNext PROVE WatchInv'
<1>1. ASSUME CurrentBut(watch', {}) PROVE WatchInv'
  BY <1>1 DEF WatchInv, CurrentBut, Items
<1>2. CASE WatchStep
  <2>1. CurrentBut(watch, res'.changed)
    BY <1>2 DEF WatchStep, WatchInv, CurrentBut, Items
  <2> QED
    BY <1>1, <1>2, <2>1, UpdateIsCurrent DEF WatchStep, Updated, StackIsKnown
<1>3. CASE WatchStatistics
  <2>1. CurrentBut(watch, res'.changed)
    BY <1>3 DEF WatchStatistics, WatchInv, CurrentBut, Items, ChangesAgain
  <2> QED
    BY <1>1, <1>3, <2>1, UpdateIsCurrent DEF WatchStatistics, Updated, StackIsKnown
<1>4. CASE WatchJump
  <2>1. PICK completed \in Completions \ {"no"} :
          Updated(UpdateWatchListData(watch, res, completed))
    BY <1>4 DEF WatchJump
  <2> DEFINE w == UpdateWatchListData(watch, res, completed)
  <2>2. CurrentBut(watch, res.changed)
    BY DEF WatchInv, CurrentBut, Items
  <2>3. /\ CurrentBut(w, {})
        /\ DOMAIN w = DOMAIN watch
        /\ \A v \in DOMAIN watch : w[v].scope = watch[v].scope
    BY <2>2, CaughtUp
  <2>4. Updated(w)
    BY <2>1
  <2> HIDE DEF w
  <2>5. CurrentBut(w, res'.changed)
    BY <2>3 DEF CurrentBut
  <2>6. \A v \in DOMAIN w : v \in res'.frames \ res'.scope => w[v].scope \in Shown
    BY <2>3, <2>4 DEF Updated, StackIsKnown
  <2> QED
    BY <1>1, <2>4, <2>5, <2>6, UpdateIsCurrent
<1>5. CASE WatchPass
  <2>1. PICK S \in SUBSET res'.changed : watch' = Stepped(watch, S)
    BY <1>5 DEF WatchPass
  <2>2. DOMAIN watch' = DOMAIN watch
    BY <2>1 DEF Stepped, SetChangedAndScope, Outdated
  <2>3. ASSUME NEW v \in DOMAIN watch
        PROVE  /\ watch'[v] \in Items
               /\ watch'[v].scope \in Shown =>
                    watch'[v].val = "current" \/ v \in res'.changed
    <3>1. watch[v] \in Items
      BY <2>3 DEF WatchInv, Items
    <3>2. /\ watch'[v] \in Items
          /\ watch'[v].scope = ScopeNow(watch[v].scope, v, res')
          /\ watch[v].val = "current" => watch'[v].val = "current" \/ v \in S
      BY <2>1, <2>3, <3>1, SteppedItems
    <3>3. watch'[v].scope \in Shown => watch[v].scope \in Shown
      BY <1>5, <2>3, <3>2, ScopeIsNow DEF WatchPass, StackIsKnown, NothingEnters
    <3>4. watch[v].scope \in Shown => watch[v].val = "current" \/ v \in res'.changed
      BY <1>5, <2>3 DEF WatchPass, ChangesAgain, WatchInv
    <3> QED
      BY <2>1, <3>2, <3>3, <3>4
  <2> QED
    BY <1>5, <2>2, <2>3 DEF WatchPass, WatchInv, Items
<1>6. CASE WatchReset
  <2> DEFINE w == SetChangedAndScope(watch, res')
  <2>1. watch' = ResetWatchListData(w) /\ res'.frames \subseteq res'.scope
    BY <1>6 DEF WatchReset
  <2>2. ASSUME NEW v \in DOMAIN watch
        PROVE  w[v] \in Items /\ w[v].scope = ScopeNow(watch[v].scope, v, res')
    <3>1. watch[v] \in Items
      BY <2>2 DEF WatchInv, Items
    <3>2. ScopeNow(watch[v].scope, v, res') \in Shown \cup {"Left", "Out"}
      BY ScopeIsNow
    <3>3. w[v] = [watch[v] EXCEPT !.scope = ScopeNow(watch[v].scope, v, res')]
      BY <2>2 DEF SetChangedAndScope
    <3> QED
      BY <3>1, <3>2, <3>3 DEF Items
  <2>3. DOMAIN w = DOMAIN watch
    BY DEF SetChangedAndScope
  <2> HIDE DEF w
  <2>4. DOMAIN watch' = DOMAIN w
    BY <2>1 DEF ResetWatchListData
  <2>5. ASSUME NEW v \in DOMAIN watch
        PROVE  /\ watch'[v] \in Items
               /\ watch'[v].scope \in Shown => watch'[v].val = "current"
    <3>1. /\ watch'[v] \in Items
          /\ watch'[v].scope = w[v].scope
          /\ w[v].scope \in {"New", "In"} => watch'[v].val = "current"
      BY <2>1, <2>2, <2>3, <2>5, ResetItems
    <3>2. w[v].scope # "Stack"
      BY <2>1, <2>2, <2>5, ScopeIsNow
    <3> QED
      BY <3>1, <3>2 DEF Shown
  <2> QED
    BY <1>1, <2>3, <2>4, <2>5 DEF CurrentBut
<1> QED
  BY <1>2, <1>3, <1>4, <1>5, <1>6 DEF WatchNext

(* At every moment a watched value that is shown is current, or is known   *)
(* from the last answer to be passed by the iterations of a loop.          *)
THEOREM Watch_inductive == WatchSpec => []WatchInv
<1>1. WatchInit => WatchInv
  BY DEF WatchInit, WatchInv, Unseen, Shown
<1>2. WatchInv /\ [WatchNext]_<<res, ui, watch>> => WatchInv'
  <2> SUFFICES ASSUME WatchInv, [WatchNext]_<<res, ui, watch>> PROVE WatchInv'
    OBVIOUS
  <2>1. CASE UNCHANGED <<res, ui, watch>>
    BY <2>1 DEF WatchInv
  <2> QED
    BY <2>1, StepCurrent
<1> QED
  BY <1>1, <1>2, PTL DEF WatchSpec

(* The values on display are those of the position (updateWatchListData),  *)
(* for any shader, variables and sequence of answers with the promises of  *)
(* WatchSpec.                                                              *)
THEOREM Watch_is_current == WatchSpec => []WatchIsCurrent
<1>1. WatchInv => WatchIsCurrent
  BY DEF WatchInv, WatchIsCurrent
<1> QED
  BY <1>1, Watch_inductive, PTL
=============================================================================

-------------------------------- MODULE WatchList --------------------------------
(***************************************************************************)
(* The watch list: scopes and values of the watched variables (ShVarModel, *)
(* and MainWindow::updateWatchListData and resetWatchListData), as the     *)
(* answers of ShDebugJumpToNext change them.  Reading a value back         *)
(* (updateWatchItemData) succeeds.                                         *)
(*                                                                         *)
(* WatchSpec is the list by itself, for any answers that keep the promises *)
(* written there.  ShaderStepping produces the answers and implements it.  *)
(***************************************************************************)
EXTENDS Naturals, DbgResult

VARIABLES
    ui,         \* "idle", the open dialog, or what its buttons are doing
    watch       \* the watched variables

Shown == {"New", "In", "Stack"}    \* NewInScope, InScope, InScopeStack
Unseen == [scope |-> "Out", val |-> "none"]

Mut_ScopeNow(old, v, r) ==   \* a variable is never new
    CASE v \in r.scope -> "In"
      [] v \notin r.scope /\ v \in r.frames -> "Stack"
      [] OTHER -> IF old = "Left" THEN "Out" ELSE "Left"

(* setChangedAndScope: the scope of an item, from the last answer.         *)
ScopeNow(old, v, r) ==
    CASE v \in r.scope -> IF old \in {"New", "In"} THEN "In" ELSE "New"
      [] v \notin r.scope /\ v \in r.frames -> "Stack"
      [] OTHER -> IF old = "Left" THEN "Out" ELSE "Left"

(* updateWatchListData: the items that are read back, and those whose      *)
(* values are dropped.  After the coverage map grew, all values are        *)
(* completed: of vertices all are read again, of fragments those that have *)
(* a value missing.                                                        *)
Completions == {"no", "missing", "all"}

Forced(r) == r.changed \cap {"EMIT", "DISCARD"} # {}

ReadBack(w, v, r, completed) ==
    /\ w.scope \in Shown
    /\ \/ Forced(r) \/ v \in r.changed \/ w.scope = "New"
       \/ completed = "all" \/ (completed = "missing" /\ w.val = "none")

Dropped(w, r, completed) ==
    w.scope \notin Shown /\ (Forced(r) \/ w.scope = "Left" \/ completed # "no")

UpdateWatchListData(w, r, completed) ==
    [v \in DOMAIN w |->
        CASE ReadBack(w[v], v, r, completed) -> [w[v] EXCEPT !.val = "current"]
          [] Dropped(w[v], r, completed)     -> [w[v] EXCEPT !.val = "none"]
          [] OTHER -> w[v]]

(* resetWatchListData reads what is in scope and drops the rest.           *)
ResetWatchListData(w) ==
    [v \in DOMAIN w |-> [w[v] EXCEPT !.val = IF w[v].scope \in {"New", "In"}
                                             THEN "current" ELSE "none"]]

(* The execution of what wrote the variables S makes their values old.     *)
Outdated(w, S) ==
    [v \in DOMAIN w |-> IF v \in S /\ w[v].val = "current"
                        THEN [w[v] EXCEPT !.val = "old"] ELSE w[v]]

SetChangedAndScope(w, r) ==
    [v \in DOMAIN w |-> [w[v] EXCEPT !.scope = ScopeNow(@, v, r)]]

-----------------------------------------------------------------------------
(* While a button of the loop dialog passes iterations the values are not  *)
(* brought up to date.                                                     *)
Behind == {"jump", "statistics"}

(* A caller's variable was shown when the call was the position.           *)
StackIsKnown ==
    \A v \in DOMAIN watch :
        v \in res'.frames \ res'.scope => watch[v].scope \in Shown

(* The next iteration of a loop changes again what the passed ones did.    *)
ChangesAgain ==
    \A v \in DOMAIN watch :
        watch[v].scope \in Shown /\ watch[v].val # "current" => v \in res'.changed

NothingEnters ==
    \A v \in DOMAIN watch : v \in res'.scope => watch[v].scope \in Shown

(* A step that wrote the variables S, all of which its answer names.       *)
Stepped(w, S) == SetChangedAndScope(Outdated(w, S), res')

Updated(w) ==
    /\ StackIsKnown
    /\ ui' \notin Behind
    /\ \E S \in SUBSET res'.changed, completed \in Completions :
         watch' = UpdateWatchListData(Stepped(w, S), res', completed)

WatchStep == ui \notin Behind /\ Updated(watch)

WatchStatistics == ui = "statistics" /\ ChangesAgain /\ Updated(watch)

WatchJump ==
    /\ ui = "jump"
    /\ \E completed \in Completions \ {"no"} :
         Updated(UpdateWatchListData(watch, res, completed))

WatchPass ==
    /\ StackIsKnown /\ ChangesAgain /\ NothingEnters
    /\ ui' \in Behind
    /\ \E S \in SUBSET res'.changed : watch' = Stepped(watch, S)

(* After a reset there is no caller.                                       *)
WatchReset ==
    /\ res'.frames \subseteq res'.scope
    /\ ui' \notin Behind
    /\ watch' = ResetWatchListData(SetChangedAndScope(watch, res'))

WatchInit == ui = "start" /\ \A v \in DOMAIN watch : watch[v] = Unseen

WatchNext == WatchStep \/ WatchStatistics \/ WatchJump \/ WatchPass \/ WatchReset

(* The watch list as the answers change it (ShaderStep): a step names what *)
(* it wrote and keeps the callers' variables in scope, iterations that are *)
(* passed write the same and bring nothing into scope, a reset leaves no   *)
(* caller, and every action of the user updates the list as it must.       *)
WatchSpec == WatchInit /\ [][WatchNext]_<<res, ui, watch>>

-----------------------------------------------------------------------------
(* A variable in scope, or in the scope of a caller, is shown with its     *)
(* value at the current position.                                          *)
WatchIsCurrent ==
    ui \notin Behind =>
        \A v \in DOMAIN watch : watch[v].scope \in Shown => watch[v].val = "current"

(* Its inductive invariant: while iterations are passed, a value that is   *)
(* not current is one that the last answer named.                          *)
WatchInv ==
    \A v \in DOMAIN watch :
        /\ watch[v] \in [scope : Shown \cup {"Left", "Out"},
                         val   : {"none", "current", "old"}]
        /\ watch[v].scope \in Shown =>
             watch[v].val = "current" \/ (ui \in Behind /\ v \in res.changed)
=============================================================================

-------------------------------- MODULE Ignite --------------------------------
(***************************************************************************)
(* The build tool (tools/ignite, pkg/ensure): the external components that    *)
(* the kernel image needs are sorted by their dependencies; then one target   *)
(* after the other is built, unless it is there and none of its dependencies  *)
(* is newer.  Sources are edited meanwhile, builds fail and leave targets.    *)
(*                                                                          *)
(* A file is its modification time and its version, which no code sees: what  *)
(* a target was made from is remembered by the versions.                     *)
(***************************************************************************)
EXTENDS ExternalSort

CONSTANTS
    Others,         \* the targets after the components, in order: [target, depends, listed]
    Sources,        \* files that are edited
    MaxTime, MaxEdits, MaxFailures      \* bounds

ASSUME BoundsNat == MaxTime \in Nat /\ MaxEdits \in Nat /\ MaxFailures \in Nat

(* main goes through its targets so that each comes after those it depends on.  *)
ASSUME OthersInOrder ==
    /\ Others \in Seq([target : Paths, depends : Seq(Paths), listed : BOOLEAN])
    /\ Sources \subseteq Paths
    /\ Others # <<>>
    /\ \A k \in DOMAIN Others : Others[k].target \notin Sources
    /\ \A j, k \in DOMAIN Others : j < k => Others[j].target # Others[k].target
    /\ \A j, k \in DOMAIN Others : k <= j => Others[j].target \notin ToSet(Others[k].depends)

(* Components, other targets and sources are different files. *)
ASSUME FilesApart ==
    \A ext \in Recipes :
        Provides(ext) \cap (Sources \cup {Others[k].target : k \in DOMAIN Others}) = {}

VARIABLES
    plan, at,       \* the targets of this run, and which one is next
    phase,          \* "idle", "sorting", "checking", "building", "failed" or "done"
    now,
    time,           \* each file's modification time, 0 when there is none
    version,
    madeOf,         \* the versions of each target's dependencies in its last build
    reading,        \* those of the build that goes on
    broken,         \* sources that do not parse
    edits, failures,
    edited,         \* history: a source was edited in this run
    excused,        \* history: targets left by a failed build or built from what was edited meanwhile
    quiet           \* history: nothing happened since a run that was done

sorting == <<externals, local>>
files == <<time, version, madeOf, broken, excused>>
vars == <<sorting, plan, at, phase, now, files, reading, edits, failures, edited, quiet>>

Component(i) ==
    [target |-> externals[i].provides, depends |-> externals[i].depends, listed |-> FALSE]
Components == [k \in DOMAIN result |-> Component(result[k])]

-----------------------------------------------------------------------------
Targets == Provides(externals) \cup {Others[k].target : k \in DOMAIN Others}

Init ==
    /\ SortInit
    /\ plan = <<>> /\ at = 1 /\ phase = "idle" /\ now = 1
    /\ time = [f \in Paths |-> IF f \in Sources THEN 1 ELSE 0]
    /\ version = [f \in Paths |-> 0]
    /\ madeOf = [f \in Paths |-> <<>>]
    /\ reading = <<>>
    /\ broken = {} /\ edits = MaxEdits /\ failures = MaxFailures
    /\ edited = FALSE /\ excused = {} /\ quiet = FALSE

(* main, which sorts the components first. *)
Start ==
    /\ phase \in {"idle", "failed", "done"}
    /\ now < MaxTime /\ now' = now + 1
    /\ Begin
    /\ phase' = "sorting"
    /\ edited' = FALSE
    /\ quiet' = (quiet /\ phase = "done")
    /\ UNCHANGED <<plan, at, files, reading, edits, failures>>

Sorting ==
    /\ Follow \/ Leave
    /\ UNCHANGED <<plan, at, phase, now, files, reading, edits, failures, edited, quiet>>

(* Sort returns: the tool ends, or goes through its targets. *)
Sorted ==
    /\ Return
    /\ \/ sort = "failed" /\ phase' = "failed" /\ UNCHANGED <<plan, at>>
       \/ sort = "sorted" /\ phase' = "checking" /\ plan' = Components \o Others /\ at' = 1
    /\ UNCHANGED <<now, files, reading, edits, failures, edited, quiet>>

(* prepareDirectories with -clean: no target is left. *)
Clean ==
    /\ phase \in {"idle", "failed", "done"}
    /\ \E t \in Targets : time[t] > 0
    /\ time' = [f \in Paths |-> IF f \in Targets THEN 0 ELSE time[f]]
    /\ phase' = "idle" /\ quiet' = FALSE
    /\ UNCHANGED <<sorting, plan, at, now, version, madeOf, broken, excused, reading, edits,
                   failures, edited>>

(* The dependencies that Target is called with.  Those of a Go package come     *)
(* from "go list", and are none if a file of it does not parse.              *)
Unlisted(step) == step.listed /\ ToSet(step.depends) \cap broken # {}
Depends(step) == IF Unlisted(step) THEN <<>> ELSE step.depends

(* Mutants of Decision: of the dependencies only the first one is looked at; a  *)
(* target is built when a dependency is as old as it is.                     *)
DecisionFirst(step) ==
    IF time[step.target] > 0 /\ \A j \in {1} \cap DOMAIN Depends(step) :
           time[Depends(step)[j]] <= time[step.target]
    THEN "fresh" ELSE "building"

DecisionEager(step) ==
    IF time[step.target] > 0 /\ \A j \in DOMAIN Depends(step) :
           time[Depends(step)[j]] < time[step.target]
    THEN "fresh" ELSE "building"

(* Target: the first dependency that is missing or newer decides. *)
Decision(step) ==
    LET depends == Depends(step)
        odd == {j \in DOMAIN depends :
                   time[depends[j]] = 0 \/ time[depends[j]] > time[step.target]}
    IN  IF time[step.target] = 0 THEN "building"
        ELSE IF odd = {} THEN "fresh"
        ELSE IF time[depends[Min(odd)]] = 0 THEN "failed" ELSE "building"

Advance ==
    /\ at' = at + 1
    /\ phase' = IF at = Len(plan) THEN "done" ELSE "checking"
    /\ quiet' = IF at = Len(plan) THEN ~edited ELSE quiet

Check ==
    /\ phase = "checking"
    /\ LET d == Decision(plan[at]) IN
       IF d = "fresh" THEN Advance /\ UNCHANGED reading
       ELSE /\ phase' = d
            /\ reading' = [f \in ToSet(plan[at].depends) |-> version[f]]
            /\ UNCHANGED <<at, quiet>>
    /\ UNCHANGED <<sorting, plan, now, files, edits, failures, edited>>

(* The target is written. *)
Written(t, tick) ==
    /\ time' = [time EXCEPT ![t] = now + tick]
    /\ version' = [version EXCEPT ![t] = @ + 1]
    /\ madeOf' = [madeOf EXCEPT ![t] = reading]
    /\ now' = now + tick
    /\ UNCHANGED broken

Unread(t) == \A f \in DOMAIN reading : reading[f] = version[f]

Build(tick) ==
    LET t == plan[at].target IN
    /\ phase = "building" /\ now + tick <= MaxTime
    /\ ~Unlisted(plan[at])
    /\ Written(t, tick)
    /\ excused' = IF Unread(t) THEN excused \ {t} ELSE excused \cup {t}
    /\ Advance
    /\ UNCHANGED <<sorting, plan, reading, edits, failures, edited>>

(* A step of the script fails, or the tool is stopped, before or after the      *)
(* target was written.                                                       *)
BuildFails ==
    LET t == plan[at].target IN
    /\ phase = "building"
    /\ \/ failures > 0 /\ failures' = failures - 1
       \/ Unlisted(plan[at]) /\ UNCHANGED failures
    /\ \/ ~plan[at].listed /\ Written(t, 0) /\ excused' = excused \cup {t}
       \/ UNCHANGED <<now, files>>
    /\ phase' = "failed" /\ quiet' = FALSE
    /\ UNCHANGED <<sorting, plan, at, reading, edits, edited>>

(* Somebody edits a source, for the better or the worse. *)
Edit(f) ==
    /\ edits > 0 /\ edits' = edits - 1
    /\ now < MaxTime /\ now' = now + 1
    /\ time' = [time EXCEPT ![f] = now + 1]
    /\ version' = [version EXCEPT ![f] = @ + 1]
    /\ broken' \in {broken \cup {f}, broken \ {f}}
    /\ edited' = TRUE /\ quiet' = FALSE
    /\ UNCHANGED <<sorting, plan, at, phase, madeOf, excused, reading, failures>>

Next ==
    \/ Start \/ Sorting \/ Sorted \/ Clean \/ Check \/ BuildFails
    \/ \E tick \in {0, 1} : Build(tick)
    \/ \E f \in Sources : Edit(f)

Spec == Init /\ [][Next]_vars

-----------------------------------------------------------------------------
(* After a run that ended well and saw no edit, every target of it was made of  *)
(* what its dependencies are now, whatever was edited, cleaned or stopped in   *)
(* earlier runs.  The exceptions: what a failed build left, and what was built *)
(* while its sources were edited, counts as made, since it is newer; and the   *)
(* binary of a package that does not parse is kept, since nothing is listed.  *)
NothingStale ==
    phase = "done" /\ ~edited =>
        \A k \in DOMAIN plan : LET t == plan[k].target IN
            \/ t \in excused
            \/ Unlisted(plan[k])
            \/ \A f \in ToSet(plan[k].depends) : madeOf[t][f] = version[f]

(* A run that follows a complete one, and no edit, builds nothing. *)
OnlyWhatChanged == [][quiet => phase' # "building"]_vars
=============================================================================

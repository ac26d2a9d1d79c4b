---------------------------- MODULE ServiceManager ----------------------------
(***************************************************************************)
(* The service manager (cmd/service): it starts the configured services in  *)
(* stages, one goroutine per service, holds a service back until its        *)
(* dependencies are up, and hands each daemon to a monitor goroutine that    *)
(* waits for its process and relaunches it.                                 *)
(*                                                                          *)
(* A step of this module is one read or write of what goroutines share: the *)
(* State and Process of a service, the two wait groups, the process table.  *)
(* The sleeps between retries, the journal and the credentials and terminal *)
(* of a process are left out.                                               *)
(***************************************************************************)
EXTENDS Integers, FiniteSets

CONSTANTS
    Services,       \* names of the loaded services, templates excluded
    Stages,         \* how many stages startup triggers
    Stage,          \* index of a service's stage, 0: a stage never triggered
    Kind,           \* "oneshot" or "daemon"
    Depends,        \* names a service depends on, loaded or not
    Restart,        \* the "restart" field
    Guarded,        \* whether the service has an "if-path-exists" condition
    Nil             \* a service that has no process yet

ASSUME ServicesFinite == IsFiniteSet(Services)
ASSUME StagesNat == Stages \in Nat
ASSUME StageType == Stage \in [Services -> 0..Stages]
ASSUME KindType == Kind \in [Services -> {"oneshot", "daemon"}]
ASSUME RestartType == Restart \in [Services -> BOOLEAN]
ASSUME GuardedType == Guarded \in [Services -> BOOLEAN]
ASSUME NilIsNoProcess == Nil \notin {"alive", "exited", "reaped"}

VARIABLES
    state,          \* Service.State
    proc,           \* Service.Process: Nil, or what became of the process
    pc,             \* where the goroutine that works for a service stands
    deps,           \* the deps still missing in waitForDepends
    exists,         \* guarded services whose path exists
    stage,          \* the stage startup is in, Stages + 1 after the last
    inStage,        \* services whose stage goroutine has not returned
    stageWaitGroup, \* the counter of triggerStage's wait group
    monitored,      \* services whose monitor goroutine has not returned
    waitGroup,      \* the counter of the package's wait group
    manager,        \* "up", "returned" from startup or "interrupted"
    badExit         \* services whose last process exited with a failure

shared == <<state, proc, pc, deps>>
groups == <<inStage, stageWaitGroup, monitored, waitGroup>>
outside == <<exists, manager, badExit>>
vars == <<state, proc, pc, deps, exists, stage, inStage, stageWaitGroup,
          monitored, waitGroup, manager, badExit>>

State == {"NotStarted", "Running", "Finished", "Failed"}
Process == {Nil, "alive", "exited", "reaped"}
PC == {"idle", "begin", "waiting", "starting", "launching", "started",
       "marked", "monitor", "done"}

Init ==
    /\ state = [s \in Services |-> "NotStarted"]
    /\ proc = [s \in Services |-> Nil]
    /\ pc = [s \in Services |-> "idle"]
    /\ deps = [s \in Services |-> {}]
    /\ exists \in SUBSET {s \in Services : Guarded[s]}
    /\ stage = 1
    /\ inStage = {}
    /\ stageWaitGroup = 0
    /\ monitored = {}
    /\ waitGroup = 0
    /\ manager = "up"
    /\ badExit = {}

(* isNeeded: the condition of a guarded service holds. *)
Needed(s) == Guarded[s] => s \in exists

(* isProcessRunning: signal 0 reaches a process until it is waited for, *)
(* so a zombie counts as running.                                       *)
ProcessRunning(s) == proc[s] \in {"alive", "exited"}

Goto(s, where) == pc' = [pc EXCEPT ![s] = where]
SetState(s, value) == state' = [state EXCEPT ![s] = value]
GiveUp(s) == SetState(s, "Failed") /\ Goto(s, "done")

-----------------------------------------------------------------------------
(* startup and triggerStage *)

(* Mutant of TriggerService: the test of the stage is missing. *)
TriggerAnyStage(s) ==
    /\ pc[s] = "idle"
    /\ Goto(s, "begin")
    /\ inStage' = inStage \cup {s}
    /\ stageWaitGroup' = stageWaitGroup + 1
    /\ UNCHANGED <<state, proc, deps, stage, monitored, waitGroup>>

(* The goroutine of one service of the stage is spawned. *)
TriggerService(s) ==
    /\ Stage[s] = stage
    /\ pc[s] = "idle"
    /\ Goto(s, "begin")
    /\ inStage' = inStage \cup {s}
    /\ stageWaitGroup' = stageWaitGroup + 1
    /\ UNCHANGED <<state, proc, deps, stage, monitored, waitGroup>>

(* Mutant of StageDone: startup does not wait for the stage. *)
StageNotWaitedFor ==
    /\ stage \in 1..Stages
    /\ \A s \in Services : Stage[s] = stage => pc[s] # "idle"
    /\ stage' = stage + 1
    /\ UNCHANGED <<shared, groups, outside>>

(* stageWaitGroup.Wait() returns and startup goes to the next stage. *)
StageDone ==
    /\ stage \in 1..Stages
    /\ \A s \in Services : Stage[s] = stage => pc[s] # "idle"
    /\ stageWaitGroup = 0
    /\ stage' = stage + 1
    /\ UNCHANGED <<shared, groups, outside>>

(* waitGroup.Wait() returns at the end of startup: the manager exits. *)
ManagerReturn ==
    /\ stage = Stages + 1
    /\ waitGroup = 0
    /\ manager' = "returned"
    /\ UNCHANGED <<shared, groups, stage, exists, badExit>>

(* SIGINT: the handler exits at once and stops no service. *)
Interrupt ==
    /\ manager' = "interrupted"
    /\ UNCHANGED <<shared, groups, stage, exists, badExit>>

(* The stage goroutine's deferred stageWaitGroup.Done(), once the service *)
(* was handed to its monitor or the goroutine is through with it.         *)
StageReturn(s) ==
    /\ s \in inStage
    /\ s \in monitored \/ pc[s] = "done"
    /\ inStage' = inStage \ {s}
    /\ stageWaitGroup' = stageWaitGroup - 1
    /\ UNCHANGED <<shared, stage, monitored, waitGroup, outside>>

-----------------------------------------------------------------------------
(* waitForDepends *)

BeginWait(s) ==
    /\ pc[s] = "begin"
    /\ deps' = [deps EXCEPT ![s] = Depends[s] \cap Services]
    /\ \/ /\ Depends[s] = {}
          /\ Goto(s, "starting")
          /\ UNCHANGED state
       \/ /\ Depends[s] # {}
          /\ Depends[s] \subseteq Services
          /\ Goto(s, "waiting")
          /\ UNCHANGED state
       \/ /\ ~ Depends[s] \subseteq Services    \* missing required dependency
          /\ GiveUp(s)
    /\ UNCHANGED proc

(* A tick finds a dependency up.  It is dropped and never looked at again, *)
(* so it may be down by the time the last one is found up.                  *)
Observe(s) == \E d \in deps[s] :
    /\ pc[s] = "waiting"
    /\ state[d] \in {"Running", "Finished"}
    /\ deps' = [deps EXCEPT ![s] = @ \ {d}]
    /\ Goto(s, IF deps[s] = {d} THEN "starting" ELSE "waiting")
    /\ UNCHANGED <<state, proc>>

(* Mutant of Timeout: the service is started although dependencies lack. *)
TimeoutIgnored(s) ==
    /\ pc[s] = "waiting"
    /\ Goto(s, "starting")
    /\ UNCHANGED <<state, proc, deps>>

(* The ten seconds are over before every dependency was seen up. *)
Timeout(s) ==
    /\ pc[s] = "waiting"
    /\ GiveUp(s)
    /\ UNCHANGED <<proc, deps>>

-----------------------------------------------------------------------------
(* Service.Start, called by the stage goroutine and by the monitor *)

(* Nothing to launch: Start returns nil without a new process. *)
SkipStart(s) ==
    /\ pc[s] = "starting"
    /\ ProcessRunning(s) \/ ~Needed(s)
    /\ state' = IF ProcessRunning(s) THEN state
                ELSE [state EXCEPT ![s] = "NotStarted"]
    /\ Goto(s, "started")
    /\ UNCHANGED <<proc, deps>>

BeginLaunch(s) ==
    /\ pc[s] = "starting"
    /\ ~ProcessRunning(s) /\ Needed(s)
    /\ SetState(s, "NotStarted")
    /\ Goto(s, "launching")
    /\ UNCHANGED <<proc, deps>>

Launched(s) ==
    /\ pc[s] = "launching"
    /\ SetState(s, "Running")
    /\ proc' = [proc EXCEPT ![s] = "alive"]
    /\ Goto(s, "started")
    /\ UNCHANGED deps

(* The user, the terminal or the command is not there.  The stage goroutine *)
(* tries again for ever if the service restarts; a monitor gives up.         *)
LaunchFailed(s) ==
    /\ pc[s] = "launching"
    /\ SetState(s, "Failed")
    /\ Goto(s, IF Restart[s] /\ s \notin monitored THEN "starting" ELSE "done")
    /\ UNCHANGED <<proc, deps>>

(* The caller of a Start that returned nil marks the service running, *)
(* whether or not Start launched anything.                            *)
MarkRunning(s) ==
    /\ pc[s] = "started"
    /\ SetState(s, "Running")
    /\ Goto(s, IF s \in monitored THEN "monitor" ELSE "marked")
    /\ UNCHANGED <<proc, deps>>

-----------------------------------------------------------------------------
(* runService: the rest of a oneshot, and handing over a daemon *)

(* Mutant of OneshotNoProcess: a restarting oneshot tries again. *)
OneshotRetried(s) ==
    /\ pc[s] = "marked" /\ Kind[s] = "oneshot"
    /\ proc[s] = Nil
    /\ SetState(s, "Failed")
    /\ Goto(s, IF Restart[s] THEN "starting" ELSE "done")
    /\ UNCHANGED <<proc, deps>>

OneshotNoProcess(s) ==
    /\ pc[s] = "marked" /\ Kind[s] = "oneshot"
    /\ proc[s] = Nil
    /\ GiveUp(s)
    /\ UNCHANGED <<proc, deps>>

(* Mutant of WaitProcess: a second wait does not err. *)
WaitNeverFails(s) ==
    /\ proc[s] \in {"exited", "reaped"}
    /\ SetState(s, "Finished")
    /\ proc' = [proc EXCEPT ![s] = "reaped"]

(* Process.Wait: it reaps a zombie, whatever its exit status, and errs only *)
(* on a process that was waited for before.                                 *)
WaitProcess(s) ==
    /\ proc[s] \in {"exited", "reaped"}
    /\ SetState(s, IF proc[s] = "exited" THEN "Finished" ELSE "Failed")
    /\ proc' = [proc EXCEPT ![s] = "reaped"]

WaitOneshot(s) ==
    /\ pc[s] = "marked" /\ Kind[s] = "oneshot"
    /\ WaitProcess(s)
    /\ Goto(s, "done")
    /\ UNCHANGED deps

(* Mutant of SpawnMonitor: waitGroup.Add(1) is forgotten. *)
SpawnUncounted(s) ==
    /\ pc[s] = "marked" /\ Kind[s] = "daemon"
    /\ monitored' = monitored \cup {s}
    /\ Goto(s, "monitor")
    /\ UNCHANGED <<state, proc, deps, stage, inStage, stageWaitGroup, waitGroup,
                   outside>>

SpawnMonitor(s) ==
    /\ pc[s] = "marked" /\ Kind[s] = "daemon"
    /\ waitGroup' = waitGroup + 1
    /\ monitored' = monitored \cup {s}
    /\ Goto(s, "monitor")
    /\ UNCHANGED <<state, proc, deps, stage, inStage, stageWaitGroup, outside>>

-----------------------------------------------------------------------------
(* monitorDaemonService *)

MonitorNoProcess(s) ==
    /\ pc[s] = "monitor"
    /\ proc[s] = Nil
    /\ GiveUp(s)
    /\ UNCHANGED <<proc, deps>>

(* isShuttingDown is never set, so only the restart field is left to test. *)
MonitorWait(s) ==
    /\ pc[s] = "monitor"
    /\ WaitProcess(s)
    /\ Goto(s, IF Restart[s] THEN "starting" ELSE "done")
    /\ UNCHANGED deps

MonitorReturn(s) ==
    /\ s \in monitored
    /\ pc[s] = "done"
    /\ monitored' = monitored \ {s}
    /\ waitGroup' = waitGroup - 1
    /\ UNCHANGED <<shared, stage, inStage, stageWaitGroup, outside>>

-----------------------------------------------------------------------------
(* The rest of the machine *)

(* A process ends, with or without a failure status. *)
ProcessExit(s) ==
    /\ proc[s] = "alive"
    /\ proc' = [proc EXCEPT ![s] = "exited"]
    /\ badExit' \in {badExit \cup {s}, badExit \ {s}}
    /\ UNCHANGED <<state, pc, deps, stage, groups, exists, manager>>

(* The path of a guarded service appears or goes away. *)
PathChange(s) ==
    /\ Guarded[s]
    /\ exists' \in {exists \cup {s}, exists \ {s}}
    /\ UNCHANGED <<shared, groups, stage, manager, badExit>>

-----------------------------------------------------------------------------
(* What a service's goroutine does between spawning and returning. *)
Work(s) ==
    \/ BeginWait(s) \/ Observe(s) \/ Timeout(s)
    \/ SkipStart(s) \/ BeginLaunch(s) \/ Launched(s) \/ LaunchFailed(s)
    \/ MarkRunning(s) \/ OneshotNoProcess(s) \/ WaitOneshot(s)
    \/ MonitorNoProcess(s) \/ MonitorWait(s)

(* Every goroutine stops with the manager's process. *)
Goroutine(s) ==
    /\ manager = "up"
    /\ \/ Work(s) /\ UNCHANGED <<stage, groups, outside>>
       \/ SpawnMonitor(s)

Trigger(s) == manager = "up" /\ TriggerService(s) /\ UNCHANGED outside
EndStageGoroutine(s) == manager = "up" /\ StageReturn(s)
EndMonitor(s) == manager = "up" /\ MonitorReturn(s)
Startup == manager = "up" /\ (StageDone \/ ManagerReturn)
Signalled == manager = "up" /\ Interrupt

Next ==
    \/ Startup
    \/ Signalled
    \/ \E s \in Services :
          \/ Trigger(s) \/ Goroutine(s) \/ EndStageGoroutine(s) \/ EndMonitor(s)
          \/ ProcessExit(s) \/ PathChange(s)

Spec == Init /\ [][Next]_vars

(* The Go scheduler runs every goroutine that can run, and a oneshot's      *)
(* program is assumed to end.  A daemon's need not, nor need a path change. *)
Fairness ==
    /\ WF_vars(Startup)
    /\ \A s \in Services :
          /\ WF_vars(Trigger(s)) /\ WF_vars(Goroutine(s))
          /\ WF_vars(EndStageGoroutine(s)) /\ WF_vars(EndMonitor(s))
          /\ Kind[s] = "oneshot" => WF_vars(ProcessExit(s))

FairSpec == Spec /\ Fairness

-----------------------------------------------------------------------------
(* The types of the variables, of which the counters are natural numbers: no   *)
(* wait group is brought below zero, which would be a panic.                   *)
TypeOK ==
    /\ state \in [Services -> State]
    /\ proc \in [Services -> Process]
    /\ pc \in [Services -> PC]
    /\ deps \in [Services -> SUBSET Services]
    /\ exists \subseteq {s \in Services : Guarded[s]}
    /\ stage \in Nat
    /\ inStage \subseteq Services
    /\ stageWaitGroup \in Nat
    /\ monitored \subseteq Services
    /\ waitGroup \in Nat
    /\ manager \in {"up", "returned", "interrupted"}
    /\ badExit \subseteq Services

(* A service has had a process only if each of its dependencies has had     *)
(* one: waitForDepends takes Running and Finished for "up".  The exception   *)
(* is a dependency with a condition: runService marks it Running for a       *)
(* moment even when Start skipped it, and a waiting service may see that.    *)
DependsLaunched == \A s \in Services : proc[s] # Nil =>
    \A d \in Depends[s] : d \in Services /\ (proc[d] # Nil \/ Guarded[d])

(* The barrier of triggerStage: when a service has been triggered, every     *)
(* service of an earlier stage has left its stage goroutine, and a oneshot   *)
(* of an earlier stage has been waited for.                                  *)
Settled(t) == pc[t] # "idle" /\ t \notin inStage
StageBarrier == \A s, t \in Services :
    pc[s] # "idle" /\ Stage[t] \in 1..(Stage[s] - 1) =>
        /\ Settled(t)
        /\ Kind[t] = "oneshot" => pc[t] = "done" /\ proc[t] \in {Nil, "reaped"}

(* The manager returns from startup only when no process it launched is left *)
(* running or unwaited-for.                                                  *)
NoOrphanOnReturn == manager = "returned" =>
    \A s \in Services : proc[s] \in {Nil, "reaped"}

(* The State other goroutines read is Running as long as the process was not *)
(* waited for: no late write of the stage goroutine or of the monitor hides  *)
(* a live process from a service that waits for it.                          *)
LiveIsRunning == \A s \in Services : ProcessRunning(s) => state[s] = "Running"

(* The boot gets through all stages, or the manager is interrupted, or a     *)
(* service with "restart" never launches: runService then retries for ever   *)
(* inside the stage, and the later stages never begin.                       *)
BootStallsOnlyOnFailingRestart ==
    \/ <>(stage = Stages + 1 \/ manager # "up")
    \/ \E s \in {t \in Services : Restart[t]} :
          <>[](pc[s] \in {"starting", "launching"} /\ s \notin monitored)

(* A daemon with "restart" whose process ended is launched again, or its     *)
(* relaunch fails and it is Failed.                                          *)
RestartRelaunches == \A s \in {t \in Services : Restart[t] /\ Kind[t] = "daemon"} :
    proc[s] = "exited" ~>
        (proc[s] = "alive" \/ state[s] = "Failed" \/ manager # "up")

(* The manager implements the staged boot. *)
Boot == INSTANCE StagedBoot WITH
    begun <- {s \in Services : pc[s] # "idle"},
    settled <- {s \in Services : Settled(s)}
ImplementsStagedBoot == Boot!Spec

(* manager.go:124 logs "oneshot service %s exited with error" and sets       *)
(* Failed, for a oneshot that exits with an error.                           *)
OneshotErrorIsFailed == \A s \in Services :
    Kind[s] = "oneshot" /\ pc[s] = "done" /\ s \in badExit
        => state[s] = "Failed"
=============================================================================

------------------------- MODULE ServiceManager_proofs -------------------------
(***************************************************************************)
(* Theorems about ServiceManager, for every set of services, every stage    *)
(* assignment and every dependency relation.                                *)
(***************************************************************************)
EXTENDS ServiceManager, FiniteSetTheorems, TLAPS

(* A service other services may take for up: launched once, or conditional. *)
Seen(s) == proc[s] # Nil \/ Guarded[s]

(* A wait group's counter counts the goroutines that have not returned. *)
Counters ==
    /\ stageWaitGroup = Cardinality(inStage)
    /\ waitGroup = Cardinality(monitored)

(* Who owns a service at each point of its goroutine, and what is known of  *)
(* its process there.                                                       *)
Owned(s) ==
    /\ pc[s] = "idle" => s \notin inStage /\ s \notin monitored /\ proc[s] = Nil
    /\ pc[s] \in {"begin", "waiting", "marked"} => s \notin monitored
    /\ pc[s] = "monitor" => s \in monitored
    /\ s \in monitored => Kind[s] = "daemon"
    /\ pc[s] \notin {"idle", "done"} => s \in inStage \/ s \in monitored

ProcessKnown(s) ==
    /\ ProcessRunning(s) =>
          pc[s] \in {"started", "marked", "monitor"} /\ state[s] = "Running"
    /\ pc[s] \in {"started", "marked", "monitor"} => Seen(s)
    /\ state[s] \in {"Running", "Finished"} => Seen(s)

(* Past waitForDepends every dependency was seen up; while waiting, every    *)
(* one that was crossed off.                                                *)
DependsSeen(s) ==
    /\ pc[s] = "waiting" => /\ Depends[s] \subseteq Services
                            /\ \A d \in Depends[s] \ deps[s] : Seen(d)
    /\ proc[s] # Nil \/ pc[s] \in {"starting", "launching", "started",
                                   "marked", "monitor"} =>
            \A d \in Depends[s] : d \in Services /\ Seen(d)

StagesInOrder(s) ==
    /\ pc[s] # "idle" => Stage[s] \in 1..stage
    /\ Stage[s] \in 1..(stage - 1) => Settled(s)

ReturnedLast == manager = "returned" => stage = Stages + 1 /\ monitored = {}

IInv ==
    /\ TypeOK
    /\ stage \in 1..(Stages + 1)
    /\ Counters
    /\ \A s \in Services : Owned(s)
    /\ \A s \in Services : ProcessKnown(s)
    /\ \A s \in Services : DependsSeen(s)
    /\ \A s \in Services : StagesInOrder(s)
    /\ ReturnedLast

-----------------------------------------------------------------------------
(* Taking one element out of a finite set, as a Done() does. *)
LEMMA RemoveOne ==
  ASSUME NEW S, IsFiniteSet(S), NEW x \in S
  PROVE  /\ Cardinality(S) - 1 \in Nat
         /\ Cardinality(S \ {x}) = Cardinality(S) - 1
<1>1. IsFiniteSet(S \ {x})
  BY FS_RemoveElement
<1>2. Cardinality(S \ {x}) = Cardinality(S) - 1
  BY FS_RemoveElement
<1> QED
  BY <1>1, <1>2, FS_CardinalityType

(* The initial states satisfy the inductive invariant. *)
LEMMA InitIInv == Init => IInv
<1> SUFFICES ASSUME Init PROVE IInv
  OBVIOUS
<1>1. TypeOK /\ stage \in 1..(Stages + 1)
  BY StagesNat DEF Init, TypeOK, State, Process, PC
<1>2. Counters
  BY FS_EmptySet DEF Init, Counters
<1>3. ASSUME NEW s \in Services
      PROVE  Owned(s) /\ ProcessKnown(s) /\ DependsSeen(s) /\ StagesInOrder(s)
  BY NilIsNoProcess
  DEF Init, Owned, ProcessKnown, ProcessRunning, DependsSeen, StagesInOrder
<1> QED
  BY <1>1, <1>2, <1>3 DEF Init, IInv, ReturnedLast

(* Every step keeps the types; a counter stays a natural number because it   *)
(* counts a set that the returning goroutine is still in.                    *)
LEMMA NextTypeOK == TypeOK /\ Counters /\ [Next]_vars => TypeOK'
<1> SUFFICES ASSUME TypeOK, Counters, [Next]_vars PROVE TypeOK'
  OBVIOUS
<1> USE DEF TypeOK, State, Process, PC
<1>1. CASE UNCHANGED vars
  BY <1>1 DEF vars
<1>2. CASE Startup
  BY <1>2, StagesNat DEF Startup, StageDone, ManagerReturn, shared, groups, outside
<1>3. CASE Signalled
  BY <1>3 DEF Signalled, Interrupt, shared, groups
<1>4. ASSUME NEW s \in Services, Trigger(s) PROVE TypeOK'
  BY <1>4 DEF Trigger, TriggerService, Goto, outside
<1>5. ASSUME NEW s \in Services, Goroutine(s) PROVE TypeOK'
  <2> USE DEF Goto, SetState, GiveUp, groups, outside
  <2>1. CASE SpawnMonitor(s)
    BY <2>1 DEF SpawnMonitor
  <2>2. CASE BeginWait(s) /\ UNCHANGED <<stage, groups, outside>>
    BY <2>2 DEF BeginWait
  <2>3. CASE Observe(s) /\ UNCHANGED <<stage, groups, outside>>
    BY <2>3 DEF Observe
  <2>4. CASE Timeout(s) /\ UNCHANGED <<stage, groups, outside>>
    BY <2>4 DEF Timeout
  <2>5. CASE SkipStart(s) /\ UNCHANGED <<stage, groups, outside>>
    BY <2>5 DEF SkipStart
  <2>6. CASE BeginLaunch(s) /\ UNCHANGED <<stage, groups, outside>>
    BY <2>6 DEF BeginLaunch
  <2>7. CASE Launched(s) /\ UNCHANGED <<stage, groups, outside>>
    BY <2>7 DEF Launched
  <2>8. CASE LaunchFailed(s) /\ UNCHANGED <<stage, groups, outside>>
    BY <2>8 DEF LaunchFailed
  <2>9. CASE MarkRunning(s) /\ UNCHANGED <<stage, groups, outside>>
    BY <2>9 DEF MarkRunning
  <2>10. CASE OneshotNoProcess(s) /\ UNCHANGED <<stage, groups, outside>>
    BY <2>10 DEF OneshotNoProcess
  <2>11. CASE WaitOneshot(s) /\ UNCHANGED <<stage, groups, outside>>
    BY <2>11 DEF WaitOneshot, WaitProcess
  <2>12. CASE MonitorNoProcess(s) /\ UNCHANGED <<stage, groups, outside>>
    BY <2>12 DEF MonitorNoProcess
  <2>13. CASE MonitorWait(s) /\ UNCHANGED <<stage, groups, outside>>
    BY <2>13 DEF MonitorWait, WaitProcess
  <2> QED
    BY <1>5, <2>1, <2>2, <2>3, <2>4, <2>5, <2>6, <2>7, <2>8, <2>9, <2>10,
       <2>11, <2>12, <2>13 DEF Goroutine, Work
<1>6. ASSUME NEW s \in Services, EndStageGoroutine(s) PROVE TypeOK'
  <2>1. stageWaitGroup - 1 \in Nat
    BY <1>6, ServicesFinite, FS_Subset, RemoveOne
    DEF EndStageGoroutine, StageReturn, Counters
  <2> QED
    BY <1>6, <2>1 DEF EndStageGoroutine, StageReturn, shared, outside
<1>7. ASSUME NEW s \in Services, EndMonitor(s) PROVE TypeOK'
  <2>1. waitGroup - 1 \in Nat
    BY <1>7, ServicesFinite, FS_Subset, RemoveOne
    DEF EndMonitor, MonitorReturn, Counters
  <2> QED
    BY <1>7, <2>1 DEF EndMonitor, MonitorReturn, shared, outside
<1>8. ASSUME NEW s \in Services, ProcessExit(s) PROVE TypeOK'
  BY <1>8 DEF ProcessExit, groups
<1>9. ASSUME NEW s \in Services, PathChange(s) PROVE TypeOK'
  BY <1>9 DEF PathChange, shared, groups
<1> QED
  BY <1>1, <1>2, <1>3, <1>4, <1>5, <1>6, <1>7, <1>8, <1>9 DEF Next

(* Every step keeps the counters equal to the goroutines they count. *)
LEMMA NextCounters == TypeOK /\ Counters /\ (\A s \in Services : Owned(s))
                        /\ [Next]_vars => Counters'
<1> SUFFICES ASSUME TypeOK, Counters, \A s \in Services : Owned(s), [Next]_vars
             PROVE  Counters'
  OBVIOUS
<1>1. IsFiniteSet(inStage) /\ IsFiniteSet(monitored)
  BY ServicesFinite, FS_Subset DEF TypeOK
<1>2. CASE UNCHANGED groups
  BY <1>2 DEF groups, Counters
<1>3. ASSUME NEW s \in Services, Trigger(s) PROVE Counters'
  <2>1. s \notin inStage
    BY <1>3 DEF Trigger, TriggerService, Owned
  <2> QED
    BY <1>1, <1>3, <2>1, FS_AddElement DEF Trigger, TriggerService, Counters
<1>4. ASSUME NEW s \in Services, SpawnMonitor(s) PROVE Counters'
  <2>1. s \notin monitored
    BY <1>4 DEF SpawnMonitor, Owned
  <2> QED
    BY <1>1, <1>4, <2>1, FS_AddElement DEF SpawnMonitor, Counters
<1>5. ASSUME NEW s \in Services, EndStageGoroutine(s) PROVE Counters'
  BY <1>1, <1>5, RemoveOne DEF EndStageGoroutine, StageReturn, Counters
<1>6. ASSUME NEW s \in Services, EndMonitor(s) PROVE Counters'
  BY <1>1, <1>6, RemoveOne DEF EndMonitor, MonitorReturn, Counters
<1> QED
  BY <1>2, <1>3, <1>4, <1>5, <1>6
  DEF Next, vars, groups, Startup, StageDone, ManagerReturn, Signalled, Interrupt,
      Goroutine, ProcessExit, PathChange

(* A service once seen up, in the sense of Seen, stays so: no step takes the *)
(* last process away from a service.                                        *)
LEMMA SeenStays ==
  ASSUME TypeOK, [Next]_vars, NEW d \in Services, Seen(d)
  PROVE  Seen(d)'
  BY NilIsNoProcess
  DEF TypeOK, Next, vars, Seen, Startup, StageDone, ManagerReturn, Signalled,
      Interrupt, Trigger, TriggerService, EndStageGoroutine, StageReturn,
      EndMonitor, MonitorReturn, ProcessExit, PathChange, Goroutine, Work,
      SpawnMonitor, BeginWait, Observe, Timeout, SkipStart, BeginLaunch, Launched,
      LaunchFailed, MarkRunning, OneshotNoProcess, WaitOneshot, WaitProcess,
      MonitorNoProcess, MonitorWait, shared, groups, outside

(* A step of a service's goroutine keeps what is known of every service. *)
LEMMA WorkKeepsLocal ==
  ASSUME TypeOK, \A s \in Services : Owned(s),
         \A s \in Services : ProcessKnown(s),
         NEW s \in Services, Work(s), UNCHANGED <<stage, groups, outside>>,
         NEW t \in Services
  PROVE  Owned(t)' /\ ProcessKnown(t)'
<1> USE NilIsNoProcess
    DEF TypeOK, Owned, ProcessKnown, ProcessRunning, Seen, groups, outside,
        State, Process, PC, Goto, SetState, GiveUp
<1>1. CASE BeginWait(s)
  BY <1>1 DEF BeginWait
<1>2. CASE Observe(s)
  BY <1>2 DEF Observe
<1>3. CASE Timeout(s)
  BY <1>3 DEF Timeout
<1>4. CASE SkipStart(s)
  BY <1>4 DEF SkipStart, Needed
<1>5. CASE BeginLaunch(s)
  BY <1>5 DEF BeginLaunch
<1>6. CASE Launched(s)
  BY <1>6 DEF Launched
<1>7. CASE LaunchFailed(s)
  BY <1>7 DEF LaunchFailed
<1>8. CASE MarkRunning(s)
  BY <1>8 DEF MarkRunning
<1>9. CASE OneshotNoProcess(s)
  BY <1>9 DEF OneshotNoProcess
<1>10. CASE WaitOneshot(s)
  BY <1>10 DEF WaitOneshot, WaitProcess
<1>11. CASE MonitorNoProcess(s)
  BY <1>11 DEF MonitorNoProcess
<1>12. CASE MonitorWait(s)
  BY <1>12 DEF MonitorWait, WaitProcess
<1> QED
  BY <1>1, <1>2, <1>3, <1>4, <1>5, <1>6, <1>7, <1>8, <1>9, <1>10, <1>11, <1>12 DEF Work

(* A step of a service's goroutine keeps what is known of dependencies. *)
LEMMA WorkKeepsDepends ==
  ASSUME TypeOK, [Next]_vars, \A s \in Services : ProcessKnown(s),
         \A s \in Services : DependsSeen(s),
         NEW s \in Services, Work(s), NEW t \in Services
  PROVE  DependsSeen(t)'
<1>1. \A d \in Services : Seen(d) => Seen(d)'
  BY SeenStays
<1> USE <1>1, NilIsNoProcess
    DEF TypeOK, ProcessKnown, ProcessRunning, DependsSeen,
        State, Process, PC, Goto, SetState, GiveUp
<1>2. CASE BeginWait(s)
  BY <1>2 DEF BeginWait
<1>3. CASE Observe(s)
  BY <1>3 DEF Observe
<1>4. CASE Timeout(s)
  BY <1>4 DEF Timeout
<1>5. CASE SkipStart(s)
  BY <1>5 DEF SkipStart, Needed
<1>6. CASE BeginLaunch(s)
  BY <1>6 DEF BeginLaunch
<1>7. CASE Launched(s)
  BY <1>7 DEF Launched
<1>8. CASE LaunchFailed(s)
  BY <1>8 DEF LaunchFailed
<1>9. CASE MarkRunning(s)
  BY <1>9 DEF MarkRunning
<1>10. CASE OneshotNoProcess(s)
  BY <1>10 DEF OneshotNoProcess
<1>11. CASE WaitOneshot(s)
  BY <1>11 DEF WaitOneshot, WaitProcess
<1>12. CASE MonitorNoProcess(s)
  BY <1>12 DEF MonitorNoProcess
<1>13. CASE MonitorWait(s)
  BY <1>13 DEF MonitorWait, WaitProcess
<1> QED
  BY <1>2, <1>3, <1>4, <1>5, <1>6, <1>7, <1>8, <1>9, <1>10, <1>11, <1>12, <1>13 DEF Work

(* The steps that are not a service goroutine's own keep both as well. *)
LEMMA NextKeepsLocal ==
  ASSUME TypeOK, [Next]_vars, \A s \in Services : Owned(s),
         \A s \in Services : ProcessKnown(s),
         \A s \in Services : DependsSeen(s), NEW t \in Services
  PROVE  Owned(t)' /\ ProcessKnown(t)' /\ DependsSeen(t)'
<1>0. \A d \in Services : Seen(d) => Seen(d)'
  BY SeenStays
<1> USE NilIsNoProcess DEF TypeOK, PC, Owned, ProcessKnown, ProcessRunning,
        Seen, DependsSeen
<1>1. CASE Startup \/ Signalled \/ UNCHANGED vars
  BY <1>1 DEF Startup, StageDone, ManagerReturn, Signalled, Interrupt, vars,
              shared, groups
<1>2. ASSUME NEW s \in Services, Trigger(s)
      PROVE  Owned(t)' /\ ProcessKnown(t)' /\ DependsSeen(t)'
  BY <1>2 DEF Trigger, TriggerService, Goto, outside
<1>3. ASSUME NEW s \in Services, SpawnMonitor(s)
      PROVE  Owned(t)' /\ ProcessKnown(t)' /\ DependsSeen(t)'
  BY <1>3, KindType DEF SpawnMonitor, Goto, outside
<1>4. ASSUME NEW s \in Services, Work(s), UNCHANGED <<stage, groups, outside>>
      PROVE  Owned(t)' /\ ProcessKnown(t)' /\ DependsSeen(t)'
  BY <1>4, WorkKeepsLocal, WorkKeepsDepends
<1>5. ASSUME NEW s \in Services, EndStageGoroutine(s)
      PROVE  Owned(t)' /\ ProcessKnown(t)' /\ DependsSeen(t)'
  BY <1>5 DEF EndStageGoroutine, StageReturn, shared, outside
<1>6. ASSUME NEW s \in Services, EndMonitor(s)
      PROVE  Owned(t)' /\ ProcessKnown(t)' /\ DependsSeen(t)'
  BY <1>6 DEF EndMonitor, MonitorReturn, shared, outside
<1>7. ASSUME NEW s \in Services, ProcessExit(s)
      PROVE  Owned(t)' /\ ProcessKnown(t)' /\ DependsSeen(t)'
  BY <1>0, <1>7 DEF ProcessExit, groups
<1>8. ASSUME NEW s \in Services, PathChange(s)
      PROVE  Owned(t)' /\ ProcessKnown(t)' /\ DependsSeen(t)'
  BY <1>8 DEF PathChange, shared, groups
<1> QED
  BY <1>1, <1>2, <1>3, <1>4, <1>5, <1>6, <1>7, <1>8 DEF Next, Goroutine

(* No step of a goroutine sends a triggered service back to idle. *)
LEMMA WorkNotIdle ==
  ASSUME TypeOK, NEW s \in Services, Work(s), NEW t \in Services
  PROVE  pc'[t] = "idle" <=> pc[t] = "idle"
  BY DEF TypeOK, PC, Work, BeginWait, Observe, Timeout, SkipStart, BeginLaunch,
         Launched, LaunchFailed, MarkRunning, OneshotNoProcess, WaitOneshot,
         MonitorNoProcess, MonitorWait, Goto, GiveUp

(* No goroutine of a stage is left when its wait group is at zero. *)
LEMMA StageDrained ==
  ASSUME TypeOK, Counters, stageWaitGroup = 0 PROVE inStage = {}
  BY ServicesFinite, FS_Subset, FS_EmptySet DEF TypeOK, Counters

LEMMA MonitorsDrained ==
  ASSUME TypeOK, Counters, waitGroup = 0 PROVE monitored = {}
  BY ServicesFinite, FS_Subset, FS_EmptySet DEF TypeOK, Counters

(* The stages keep their order: the wait group of a stage is at zero only    *)
(* when every goroutine it counts has returned.                              *)
LEMMA NextStages ==
  ASSUME TypeOK, Counters, stage \in 1..(Stages + 1), [Next]_vars,
         \A s \in Services : StagesInOrder(s)
  PROVE  /\ stage' \in 1..(Stages + 1)
         /\ \A t \in Services : StagesInOrder(t)'
<1> USE StagesNat, StageType DEF TypeOK, StagesInOrder, Settled
<1>1. CASE StageDone
  BY <1>1, StageDrained DEF StageDone, shared, groups, outside
<1>2. CASE ManagerReturn \/ Interrupt \/ UNCHANGED vars
  BY <1>2 DEF ManagerReturn, Interrupt, vars, shared, groups
<1>3. ASSUME NEW s \in Services, TriggerService(s)
      PROVE  /\ stage' \in 1..(Stages + 1)
             /\ \A t \in Services : StagesInOrder(t)'
  BY <1>3 DEF TriggerService, Goto
<1>4. ASSUME NEW s \in Services, Work(s), UNCHANGED <<stage, groups, outside>>
      PROVE  /\ stage' \in 1..(Stages + 1)
             /\ \A t \in Services : StagesInOrder(t)'
  BY <1>4, WorkNotIdle DEF groups
<1>5. ASSUME NEW s \in Services, SpawnMonitor(s)
      PROVE  /\ stage' \in 1..(Stages + 1)
             /\ \A t \in Services : StagesInOrder(t)'
  BY <1>5 DEF SpawnMonitor, Goto
<1>6. ASSUME NEW s \in Services,
             StageReturn(s) \/ MonitorReturn(s) \/ ProcessExit(s) \/ PathChange(s)
      PROVE  /\ stage' \in 1..(Stages + 1)
             /\ \A t \in Services : StagesInOrder(t)'
  BY <1>6 DEF StageReturn, MonitorReturn, ProcessExit, PathChange, shared, groups
<1> QED
  BY <1>1, <1>2, <1>3, <1>4, <1>5, <1>6
  DEF Next, Startup, Signalled, Trigger, Goroutine, EndStageGoroutine, EndMonitor

(* The manager returns with no monitor left, and nothing spawns one after. *)
LEMMA NextReturned ==
  ASSUME TypeOK, Counters, ReturnedLast, [Next]_vars PROVE ReturnedLast'
<1> USE DEF ReturnedLast
<1>1. CASE ManagerReturn
  BY <1>1, MonitorsDrained DEF ManagerReturn, groups
<1>2. CASE UNCHANGED <<stage, manager, monitored>>
  BY <1>2
<1>3. CASE manager = "up" /\ manager' = manager
  BY <1>3
<1>4. CASE Interrupt
  BY <1>4 DEF Interrupt
<1> QED
  BY <1>1, <1>2, <1>3, <1>4
  DEF Next, vars, Startup, StageDone, Signalled, Trigger, Goroutine, SpawnMonitor,
      EndStageGoroutine, StageReturn, EndMonitor, MonitorReturn, ProcessExit,
      PathChange, groups, outside

(* The invariant is inductive. *)
LEMMA NextIInv == IInv /\ [Next]_vars => IInv'
  BY NextTypeOK, NextCounters, NextKeepsLocal, NextStages, NextReturned DEF IInv

LEMMA Invariance == Spec => []IInv
  BY InitIInv, NextIInv, PTL DEF Spec

-----------------------------------------------------------------------------
(* The states of every service, process, goroutine and counter are those of *)
(* the types in service.go and of a sync.WaitGroup, never a negative count. *)
THEOREM TypeCorrect == Spec => []TypeOK
<1>1. IInv => TypeOK
  BY DEF IInv
<1> QED
  BY <1>1, Invariance, PTL

(* waitForDepends: whatever the dependency relation, cyclic or not, a        *)
(* service has a process only after each unconditional dependency had one.   *)
THEOREM DependsFirst == Spec => []DependsLaunched
<1>1. IInv => DependsLaunched
  BY DEF IInv, DependsSeen, DependsLaunched, Seen
<1> QED
  BY <1>1, Invariance, PTL

(* triggerStage: no service is triggered before the earlier stages settled   *)
(* and their oneshots were waited for.                                       *)
THEOREM StagesAreBarriers == Spec => []StageBarrier
<1>1. IInv => StageBarrier
  <2> SUFFICES ASSUME IInv, NEW s \in Services, NEW t \in Services,
                      pc[s] # "idle", Stage[t] \in 1..(Stage[s] - 1)
               PROVE  /\ Settled(t)
                      /\ Kind[t] = "oneshot" =>
                            pc[t] = "done" /\ proc[t] \in {Nil, "reaped"}
    BY DEF StageBarrier
  <2>1. Settled(t)
    BY StagesNat, StageType DEF IInv, TypeOK, StagesInOrder
  <2>2. Kind[t] = "oneshot" => pc[t] = "done"
    BY <2>1 DEF IInv, Owned, Settled
  <2> QED
    BY <2>1, <2>2 DEF IInv, TypeOK, Process, ProcessKnown, ProcessRunning
<1> QED
  BY <1>1, Invariance, PTL

(* startup returns only when every process it launched was waited for. *)
THEOREM ReturnLeavesNoProcess == Spec => []NoOrphanOnReturn
<1>1. IInv => NoOrphanOnReturn
  <2> SUFFICES ASSUME IInv, manager = "returned", NEW s \in Services
               PROVE  proc[s] \in {Nil, "reaped"}
    BY DEF NoOrphanOnReturn
  <2>1. CASE pc[s] = "idle"
    BY <2>1 DEF IInv, Owned
  <2>2. CASE pc[s] # "idle"
    <3>1. Settled(s) /\ s \notin monitored
      BY <2>2, StagesNat, StageType DEF IInv, ReturnedLast, StagesInOrder
    <3> QED
      BY <2>2, <3>1 DEF IInv, TypeOK, Process, Owned, Settled, ProcessKnown,
                        ProcessRunning
  <2> QED
    BY <2>1, <2>2
<1> QED
  BY <1>1, Invariance, PTL

(* Start, runService and the monitor never overwrite the Running of a process *)
(* that has not been waited for.                                             *)
THEOREM LiveStaysRunning == Spec => []LiveIsRunning
<1>1. IInv => LiveIsRunning
  BY DEF IInv, ProcessKnown, LiveIsRunning
<1> QED
  BY <1>1, Invariance, PTL

(* The manager, with its goroutines, wait groups and restarts, implements the *)
(* staged boot: each step is one of StagedBoot's or changes nothing there.   *)
THEOREM Refinement == Spec => ImplementsStagedBoot
<1>1. Init => Boot!Init
  BY DEF Init, Boot!Init, Settled
<1>2. ASSUME IInv, [Next]_vars PROVE [Boot!Next]_Boot!vars
  <2> USE <1>2 DEF IInv, TypeOK, Settled, Boot!vars
  <2>1. CASE StageDone
    BY <2>1, StageDrained
    DEF StageDone, shared, groups, Boot!Next, Boot!Advance
  <2>2. CASE ManagerReturn \/ Interrupt \/ UNCHANGED vars
    BY <2>2 DEF ManagerReturn, Interrupt, vars, shared, groups
  <2>3. ASSUME NEW s \in Services, TriggerService(s) PROVE Boot!Begin(s)
    <3>1. {t \in Services : pc'[t] # "idle"} =
            {t \in Services : pc[t] # "idle"} \cup {s}
      BY <2>3 DEF TriggerService, Goto
    <3>2. \A t \in Services : Settled(t)' <=> Settled(t)
      BY <2>3 DEF TriggerService, Goto
    <3> QED
      BY <2>3, <3>1, <3>2 DEF TriggerService, Boot!Begin
  <2>4. ASSUME NEW s \in Services, Work(s), UNCHANGED <<stage, groups, outside>>
        PROVE  UNCHANGED Boot!vars
    BY <2>4, WorkNotIdle DEF groups
  <2>5. ASSUME NEW s \in Services, SpawnMonitor(s) PROVE UNCHANGED Boot!vars
    BY <2>5 DEF SpawnMonitor, Goto
  <2>6. ASSUME NEW s \in Services, StageReturn(s) PROVE Boot!Settle(s)
    <3>1. s \in {t \in Services : pc[t] # "idle"}
      BY <2>6 DEF StageReturn, Owned
    <3> QED
      BY <2>6, <3>1 DEF StageReturn, shared, Boot!Settle
  <2>7. ASSUME NEW s \in Services,
               MonitorReturn(s) \/ ProcessExit(s) \/ PathChange(s)
        PROVE  UNCHANGED Boot!vars
    BY <2>7 DEF MonitorReturn, ProcessExit, PathChange, shared, groups
  <2> QED
    BY <2>1, <2>2, <2>3, <2>4, <2>5, <2>6, <2>7
    DEF Next, Startup, Signalled, Trigger, Goroutine, EndStageGoroutine,
        EndMonitor, Boot!Next
<1> QED
  BY <1>1, <1>2, Invariance, PTL DEF Spec, ImplementsStagedBoot, Boot!Spec
=============================================================================

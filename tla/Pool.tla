--------------------------------- MODULE Pool ---------------------------------
(***************************************************************************)
(* The worker pool (pkg/pool): workers take jobs from a bounded channel,    *)
(* any goroutine submits, a wait group counts the jobs that are not done.   *)
(* Each job is submitted by a goroutine of its own, as udevd does.          *)
(***************************************************************************)
EXTENDS Integers, Sequences, FiniteSets, Functions

CONSTANTS
    Jobs,           \* the jobs that are submitted
    Workers,        \* the worker goroutines, "workers" of them
    QueueSize,      \* capacity of jobQueue, 50 in the code
    NoJob           \* what an idle worker does

ASSUME JobsFinite == IsFiniteSet(Jobs)
ASSUME WorkersFinite == IsFiniteSet(Workers)
ASSUME QueueSizeNat == QueueSize \in Nat \ {0}
ASSUME NoJobIsNone == NoJob \notin Jobs

VARIABLES
    job,            \* "new", "added", "queued", "taken", "did" or "done"
    jobQueue,       \* the channel
    working,        \* the job each worker has, NoJob when it is in its select
    running,        \* workers that have not returned
    wg,             \* the counter of the wait group
    shutdown,       \* Shutdown: "no", "called", "waiting", "woken", "released" or
                    \* "closed"; "panic" once the wait group has ended the process
    owed            \* history: the jobs submitted when Shutdown was called

vars == <<job, jobQueue, working, running, wg, shutdown, owed>>

Init ==
    /\ job = [j \in Jobs |-> "new"]
    /\ jobQueue = <<>>
    /\ working = [w \in Workers |-> NoJob]
    /\ running = Workers
    /\ wg = 0
    /\ shutdown = "no"
    /\ owed = {}

Becomes(j, what) == job' = [job EXCEPT ![j] = what]
InState(what) == {j \in Jobs : job[j] = what}
Pending == {j \in Jobs : job[j] \in {"added", "queued", "taken", "did"}}
Alive == shutdown # "panic"

-----------------------------------------------------------------------------
(* Submit counts the job, then blocks while the channel is full.  It counts    *)
(* nothing between the end of the last job and the release of the goroutine   *)
(* that waits for it: there the wait group panics ("misuse: Add called        *)
(* concurrently with Wait").                                                  *)

(* Mutant of Add: the job is counted only when a worker has it. *)
AddLater(j) ==
    /\ job[j] = "new"
    /\ Becomes(j, "added")
    /\ UNCHANGED <<jobQueue, working, running, wg, shutdown, owed>>

Add(j) ==
    /\ job[j] = "new"
    /\ Becomes(j, "added")
    /\ wg' = wg + 1
    /\ shutdown' = IF shutdown = "waiting" /\ wg = 0 THEN "panic" ELSE shutdown
    /\ UNCHANGED <<jobQueue, working, running, owed>>

Enqueue(j) ==
    /\ job[j] = "added"
    /\ Len(jobQueue) < QueueSize
    /\ Becomes(j, "queued")
    /\ jobQueue' = Append(jobQueue, j)
    /\ UNCHANGED <<working, running, wg, shutdown, owed>>

-----------------------------------------------------------------------------
(* work: select takes a job or sees the pool stopped, either one if both can *)
(* be; the job is done, then counted as done.                                *)

(* Mutant of Take: the job is not taken off the channel. *)
TakePeek(w) ==
    /\ w \in running /\ working[w] = NoJob
    /\ jobQueue # <<>>
    /\ working' = [working EXCEPT ![w] = Head(jobQueue)]
    /\ Becomes(Head(jobQueue), "taken")
    /\ UNCHANGED <<jobQueue, running, wg, shutdown, owed>>

Take(w) ==
    /\ w \in running /\ working[w] = NoJob
    /\ jobQueue # <<>>
    /\ jobQueue' = Tail(jobQueue)
    /\ working' = [working EXCEPT ![w] = Head(jobQueue)]
    /\ Becomes(Head(jobQueue), "taken")
    /\ UNCHANGED <<running, wg, shutdown, owed>>

Do(w) ==
    /\ working[w] # NoJob /\ job[working[w]] = "taken"
    /\ Becomes(working[w], "did")
    /\ UNCHANGED <<jobQueue, working, running, wg, shutdown, owed>>

(* Mutant of Done: wg.Done() is left out. *)
DoneUncounted(w) ==
    /\ working[w] # NoJob /\ job[working[w]] = "did"
    /\ Becomes(working[w], "done")
    /\ working' = [working EXCEPT ![w] = NoJob]
    /\ UNCHANGED <<jobQueue, running, wg, shutdown, owed>>

(* Mutant of Done: the goroutine returns after its job. *)
DoneAndReturn(w) ==
    /\ working[w] # NoJob /\ job[working[w]] = "did"
    /\ Becomes(working[w], "done")
    /\ working' = [working EXCEPT ![w] = NoJob]
    /\ wg' = wg - 1
    /\ running' = running \ {w}
    /\ UNCHANGED <<jobQueue, shutdown, owed>>

Done(w) ==
    /\ working[w] # NoJob /\ job[working[w]] = "did"
    /\ Becomes(working[w], "done")
    /\ working' = [working EXCEPT ![w] = NoJob]
    /\ wg' = wg - 1
    /\ UNCHANGED <<jobQueue, running, shutdown, owed>>

Stop(w) ==
    /\ w \in running /\ working[w] = NoJob
    /\ shutdown = "closed"
    /\ running' = running \ {w}
    /\ UNCHANGED <<job, jobQueue, working, wg, shutdown, owed>>

-----------------------------------------------------------------------------
(* Shutdown, once: it waits for the counter to be zero, and closes the channel *)
(* a moment later.  The wait group tells the goroutine that waits, and that    *)
(* goroutine looks at the counter once more when it runs.                     *)

CallShutdown ==
    /\ shutdown = "no"
    /\ shutdown' = "called"
    /\ owed' = Jobs \ InState("new")
    /\ UNCHANGED <<job, jobQueue, working, running, wg>>

(* Mutant of Wait: Shutdown waits for the channel to be empty instead. *)
WaitForEmptyQueue ==
    /\ shutdown = "called"
    /\ shutdown' = IF jobQueue = <<>> THEN "released" ELSE "waiting"
    /\ UNCHANGED <<job, jobQueue, working, running, wg, owed>>

Wait ==
    /\ shutdown = "called"
    /\ shutdown' = IF wg = 0 THEN "released" ELSE "waiting"
    /\ UNCHANGED <<job, jobQueue, working, running, wg, owed>>

(* The last wg.Done() lets the goroutine go that waits. *)
Release ==
    /\ shutdown = "waiting"
    /\ wg = 0
    /\ shutdown' = "woken"
    /\ UNCHANGED <<job, jobQueue, working, running, wg, owed>>

(* It returns from wg.Wait(), which panics if a job has been counted since      *)
(* ("WaitGroup is reused before previous Wait has returned").                 *)
Return ==
    /\ shutdown = "woken"
    /\ shutdown' = IF wg = 0 THEN "released" ELSE "panic"
    /\ UNCHANGED <<job, jobQueue, working, running, wg, owed>>

CloseStop ==
    /\ shutdown = "released"
    /\ shutdown' = "closed"
    /\ UNCHANGED <<job, jobQueue, working, running, wg, owed>>

-----------------------------------------------------------------------------
Submitter(j) == Alive /\ (Add(j) \/ Enqueue(j))
Worker(w) == Alive /\ (Take(w) \/ Do(w) \/ Done(w) \/ Stop(w))

Next ==
    \/ CallShutdown \/ Wait \/ Release \/ Return \/ CloseStop
    \/ \E j \in Jobs : Submitter(j)
    \/ \E w \in Workers : Worker(w)

Spec == Init /\ [][Next]_vars

(* Goroutines that can run do, a job's Do returns, and a channel serves its   *)
(* blocked senders in turn: a send that can happen again and again happens.  *)
(* Nobody need submit a job or shut the pool down.                           *)
Fairness ==
    /\ WF_vars(Wait) /\ WF_vars(Release) /\ WF_vars(Return) /\ WF_vars(CloseStop)
    /\ \A j \in Jobs : SF_vars(Alive /\ Enqueue(j))
    /\ \A w \in Workers : WF_vars(Worker(w))

FairSpec == Spec /\ Fairness

-----------------------------------------------------------------------------
(* The types of the variables: the queue is never longer than the channel, and  *)
(* the wait group is not brought below zero.                                  *)
TypeOK ==
    /\ job \in [Jobs -> {"new", "added", "queued", "taken", "did", "done"}]
    /\ jobQueue \in Seq(Jobs) /\ Len(jobQueue) <= QueueSize
    /\ working \in [Workers -> Jobs \cup {NoJob}]
    /\ running \subseteq Workers
    /\ wg \in Nat
    /\ shutdown \in {"no", "called", "waiting", "woken", "released", "closed", "panic"}
    /\ owed \subseteq Jobs

(* The pool never loses or duplicates a job: a queued job is on the channel   *)
(* once, a taken one is with one worker, and nothing else is anywhere.       *)
JobsAccounted ==
    /\ IsInjective(jobQueue)
    /\ InState("queued") = {jobQueue[i] : i \in 1..Len(jobQueue)}
    /\ \A v, w \in Workers :
          working[v] = working[w] /\ working[v] # NoJob => v = w
    /\ InState("taken") \cup InState("did") =
          {working[w] : w \in Workers} \ {NoJob}

(* A job was submitted after Shutdown was called. *)
LateSubmit == \E j \in Jobs \ owed : job[j] # "new"

(* Shutdown, and so Wait, covers every job that was submitted before it, the *)
(* ones whose Submit still blocks on a full channel included: the workers    *)
(* are not stopped under them, nor does a panic of the wait group end the     *)
(* process under them, which takes a late Submit.                            *)
ShutdownOwesNothing ==
    /\ shutdown \in {"woken", "released", "closed", "panic"} =>
          \A j \in owed : job[j] = "done"
    /\ shutdown = "panic" => LateSubmit

(* Until the pool is shut down every job that was counted gets done, however  *)
(* many submitters block on the channel.                                     *)
SubmittedIsDone ==
    \A j \in Jobs :
        (job[j] = "added") ~> (job[j] = "done" \/ shutdown \in {"closed", "panic"})

(* Shutdown returns: the counter comes back to zero although submitters may   *)
(* still be blocked on the channel when it is called.  The exception is a job *)
(* that is submitted after the call: counted between the end of the last job  *)
(* and the return of wg.Wait(), it makes the wait group panic.                *)
ShutdownReturns ==
    (shutdown = "called") ~> \/ shutdown = "closed"
                             \/ shutdown = "panic" /\ LateSubmit

Tasks == INSTANCE TaskPool WITH
    Limit <- Cardinality(Workers),
    submitted <- Jobs \ InState("new"),
    active <- InState("taken"),
    finished <- InState("did") \cup InState("done"),
    promised <- owed,
    pool <- IF shutdown \in {"released", "closed"} THEN "down" ELSE "up"
ImplementsTaskPool == Tasks!Spec
=============================================================================

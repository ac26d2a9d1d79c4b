------------------------------ MODULE Pool_proofs ------------------------------
(* Theorems about Pool, for any number of jobs and workers and any capacity of *)
(* the channel.                                                               *)
EXTENDS Pool, FiniteSetTheorems, TLAPS

(* The channel holds the queued jobs, each once. *)
QueueExact ==
    /\ \A i \in 1..Len(jobQueue) : job[jobQueue[i]] = "queued"
    /\ \A i, k \in 1..Len(jobQueue) : jobQueue[i] = jobQueue[k] => i = k
    /\ \A j \in Jobs : job[j] = "queued" =>
          \E i \in 1..Len(jobQueue) : jobQueue[i] = j

(* The workers hold the taken jobs, each one its own. *)
WorkExact ==
    /\ \A w \in Workers : working[w] # NoJob => job[working[w]] \in {"taken", "did"}
    /\ \A v, w \in Workers :
          working[v] = working[w] /\ working[v] # NoJob => v = w
    /\ \A j \in Jobs : job[j] \in {"taken", "did"} =>
          \E w \in Workers : working[w] = j

(* The wait group counts the jobs that were submitted and are not done. *)
Counted == wg = Cardinality(Pending)

OwedInv ==
    /\ \A j \in owed : job[j] # "new"
    /\ ShutdownOwesNothing

IInv == TypeOK /\ QueueExact /\ WorkExact /\ Counted /\ OwedInv

-----------------------------------------------------------------------------
LEMMA PendingFinite == IsFiniteSet(Pending)
  BY JobsFinite, FS_Subset DEF Pending

LEMMA NothingPending ==
  ASSUME TypeOK, Counted, wg = 0, NEW j \in Jobs
  PROVE  job[j] \in {"new", "done"}
<1>1. Pending = {}
  BY PendingFinite, FS_EmptySet DEF Counted
<1>2. j \notin Pending
  BY <1>1
<1> QED
  BY <1>2 DEF Pending, TypeOK

LEMMA SomePending ==
  ASSUME TypeOK, Counted, wg # 0 PROVE \E j \in Jobs : job[j] \notin {"new", "done"}
<1>1. Pending # {}
  BY FS_EmptySet DEF Counted
<1> QED
  BY <1>1 DEF Pending

LEMMA InitIInv == Init => IInv
<1> SUFFICES ASSUME Init PROVE IInv
  OBVIOUS
<1>1. jobQueue \in Seq(Jobs) /\ Len(jobQueue) = 0
  BY DEF Init
<1>2. TypeOK
  BY <1>1, QueueSizeNat DEF Init, TypeOK
<1>3. QueueExact
  BY <1>1 DEF Init, QueueExact
<1>4. WorkExact
  BY DEF Init, WorkExact
<1>5. Counted
  <2>1. Pending = {}
    BY DEF Init, Pending
  <2> QED
    BY <2>1, FS_EmptySet DEF Init, Counted
<1> QED
  BY <1>2, <1>3, <1>4, <1>5 DEF Init, IInv, OwedInv, ShutdownOwesNothing

-----------------------------------------------------------------------------
(* One lemma per action that moves a job. *)

LEMMA AddStep == ASSUME IInv, NEW j \in Jobs, Add(j) PROVE IInv'
<1> USE DEF IInv, TypeOK, Add, Becomes
<1>1. TypeOK'
  OBVIOUS
<1>2. QueueExact' /\ WorkExact'
  BY DEF QueueExact, WorkExact
<1>3. Counted'
  <2>1. Pending' = Pending \cup {j} /\ j \notin Pending
    BY DEF Pending
  <2> QED
    BY <2>1, PendingFinite, FS_AddElement DEF Counted
<1>4. OwedInv'
  <2>1. owed' = owed /\ j \notin owed /\ \A x \in owed : job'[x] = job[x]
    BY DEF OwedInv
  <2>2. LateSubmit'
    BY <2>1 DEF LateSubmit
  <2>3. CASE shutdown = "waiting" /\ wg = 0
    <3>1. \A x \in owed : job[x] = "done"
      BY <2>3, NothingPending DEF OwedInv
    <3> QED
      BY <2>1, <2>2, <3>1 DEF OwedInv, ShutdownOwesNothing
  <2>4. CASE ~(shutdown = "waiting" /\ wg = 0)
    BY <2>1, <2>2, <2>4 DEF OwedInv, ShutdownOwesNothing
  <2> QED
    BY <2>3, <2>4
<1> QED
  BY <1>1, <1>2, <1>3, <1>4

LEMMA EnqueueStep == ASSUME IInv, NEW j \in Jobs, Enqueue(j) PROVE IInv'
<1> USE DEF IInv, TypeOK, Enqueue, Becomes
<1>1. /\ jobQueue' \in Seq(Jobs)
      /\ Len(jobQueue') = Len(jobQueue) + 1
      /\ \A i \in 1..Len(jobQueue') :
            jobQueue'[i] = IF i <= Len(jobQueue) THEN jobQueue[i] ELSE j
  OBVIOUS
<1>2. TypeOK'
  BY <1>1, QueueSizeNat
<1>3. QueueExact'
  <2>1. \A i \in 1..Len(jobQueue) : jobQueue[i] # j
    BY DEF QueueExact
  <2>2. \A i \in 1..Len(jobQueue') : job'[jobQueue'[i]] = "queued"
    BY <1>1, <2>1 DEF QueueExact
  <2>3. \A i, k \in 1..Len(jobQueue') : jobQueue'[i] = jobQueue'[k] => i = k
    BY <1>1, <2>1 DEF QueueExact
  <2>4. ASSUME NEW x \in Jobs, job'[x] = "queued"
        PROVE  \E i \in 1..Len(jobQueue') : jobQueue'[i] = x
    <3>1. CASE x = j
      <4>1. Len(jobQueue') \in 1..Len(jobQueue') /\ jobQueue'[Len(jobQueue')] = j
        BY <1>1
      <4> QED
        BY <3>1, <4>1
    <3>2. CASE x # j
      <4>1. PICK i \in 1..Len(jobQueue) : jobQueue[i] = x
        BY <2>4, <3>2 DEF QueueExact
      <4> QED
        BY <1>1, <4>1
    <3> QED
      BY <3>1, <3>2
  <2> QED
    BY <2>2, <2>3, <2>4 DEF QueueExact
<1>4. WorkExact'
  BY DEF WorkExact
<1>5. Counted'
  <2>1. Pending' = Pending
    BY DEF Pending
  <2> QED
    BY <2>1 DEF Counted
<1>6. OwedInv'
  BY DEF OwedInv, ShutdownOwesNothing, LateSubmit
<1> QED
  BY <1>2, <1>3, <1>4, <1>5, <1>6

LEMMA TakeStep == ASSUME IInv, NEW w \in Workers, Take(w) PROVE IInv'
<1> USE DEF IInv, TypeOK, Take, Becomes
<1> DEFINE j == Head(jobQueue)
<1>1. /\ j \in Jobs /\ j = jobQueue[1] /\ 1 \in 1..Len(jobQueue)
      /\ jobQueue' \in Seq(Jobs)
      /\ Len(jobQueue') = Len(jobQueue) - 1
      /\ \A i \in 1..Len(jobQueue') : jobQueue'[i] = jobQueue[i + 1]
  OBVIOUS
<1>2. job[j] = "queued" /\ job' = [job EXCEPT ![j] = "taken"]
  BY <1>1 DEF QueueExact
<1>3. working' = [working EXCEPT ![w] = j]
  OBVIOUS
<1> HIDE DEF j
<1>4. TypeOK'
  BY <1>1, <1>2, <1>3, QueueSizeNat
<1>5. QueueExact'
  <2>1. \A i \in 1..Len(jobQueue') : i + 1 \in 1..Len(jobQueue) /\ jobQueue'[i] # j
    BY <1>1 DEF QueueExact
  <2>2. \A i \in 1..Len(jobQueue') : job'[jobQueue'[i]] = "queued"
    BY <1>1, <1>2, <2>1 DEF QueueExact
  <2>3. ASSUME NEW i \in 1..Len(jobQueue'), NEW k \in 1..Len(jobQueue'),
               jobQueue'[i] = jobQueue'[k]
        PROVE  i = k
    <3>1. i + 1 = k + 1
      BY <1>1, <2>1, <2>3 DEF QueueExact
    <3> QED
      BY <3>1
  <2>4. ASSUME NEW x \in Jobs, job'[x] = "queued"
        PROVE  \E i \in 1..Len(jobQueue') : jobQueue'[i] = x
    <3>1. x # j /\ job[x] = "queued"
      BY <1>1, <1>2, <2>4
    <3>2. PICK i \in 1..Len(jobQueue) : jobQueue[i] = x
      BY <3>1 DEF QueueExact
    <3>3. i # 1
      BY <1>1, <3>1, <3>2
    <3>4. i - 1 \in 1..Len(jobQueue') /\ (i - 1) + 1 = i
      BY <1>1, <3>3
    <3> QED
      BY <1>1, <3>2, <3>4
  <2> QED
    BY <2>2, <2>3, <2>4 DEF QueueExact
<1>6. WorkExact'
  <2>1. \A v \in Workers : working[v] # j
    BY <1>1, <1>2, NoJobIsNone DEF WorkExact
  <2> QED
    BY <1>1, <1>2, <1>3, <2>1, NoJobIsNone DEF WorkExact
<1>7. Counted'
  <2>1. Pending' = Pending
    BY <1>1, <1>2 DEF Pending
  <2> QED
    BY <2>1 DEF Counted
<1>8. OwedInv'
  BY <1>1, <1>2 DEF OwedInv, ShutdownOwesNothing, LateSubmit
<1> QED
  BY <1>4, <1>5, <1>6, <1>7, <1>8

LEMMA DoStep == ASSUME IInv, NEW w \in Workers, Do(w) PROVE IInv'
<1> USE DEF IInv, TypeOK, Do, Becomes
<1>1. working[w] \in Jobs
  OBVIOUS
<1>2. TypeOK' /\ QueueExact' /\ WorkExact'
  BY <1>1 DEF QueueExact, WorkExact
<1>3. Pending' = Pending
  BY <1>1 DEF Pending
<1> QED
  BY <1>1, <1>2, <1>3 DEF Counted, OwedInv, ShutdownOwesNothing, LateSubmit

LEMMA DoneStep == ASSUME IInv, NEW w \in Workers, Done(w) PROVE IInv'
<1> USE DEF IInv, TypeOK, Done, Becomes
<1>1. working[w] \in Pending
  BY DEF Pending
<1>2. Pending' = Pending \ {working[w]}
  BY DEF Pending
<1>3. Counted' /\ wg' \in Nat
  <2>1. /\ IsFiniteSet(Pending')
        /\ Cardinality(Pending') = Cardinality(Pending) - 1
    <3> HIDE DEF Pending
    <3> QED
      BY <1>1, <1>2, PendingFinite, FS_RemoveElement
  <2>2. Cardinality(Pending') \in Nat
    BY <2>1, FS_CardinalityType
  <2> QED
    BY <2>1, <2>2 DEF Counted
<1>4. TypeOK'
  BY <1>3
<1>5. QueueExact' /\ WorkExact'
  BY NoJobIsNone DEF QueueExact, WorkExact
<1>6. OwedInv'
  BY DEF OwedInv, ShutdownOwesNothing, LateSubmit
<1> QED
  BY <1>3, <1>4, <1>5, <1>6

(* The steps that move no job. *)
LEMMA ShutdownStep ==
  ASSUME IInv,
         \/ CallShutdown \/ Wait \/ Release \/ Return \/ CloseStop \/ UNCHANGED vars
         \/ \E w \in Workers : Stop(w)
  PROVE  IInv'
<1> USE DEF IInv, TypeOK, OwedInv, ShutdownOwesNothing, LateSubmit, InState
<1>0. UNCHANGED <<job, jobQueue, working, wg>>
  BY DEF CallShutdown, Wait, Release, Return, CloseStop, Stop, vars
<1>1. QueueExact' /\ WorkExact' /\ Counted'
  BY <1>0 DEF QueueExact, WorkExact, Counted, Pending
<1>2. CASE CallShutdown
  BY <1>0, <1>1, <1>2 DEF CallShutdown
<1>3. CASE Wait \/ Release
  BY <1>0, <1>1, <1>3, NothingPending DEF Wait, Release
<1>4. CASE CloseStop
  BY <1>0, <1>1, <1>4 DEF CloseStop
<1>5. CASE UNCHANGED vars
  BY <1>1, <1>5 DEF vars
<1>6. ASSUME NEW w \in Workers, Stop(w) PROVE IInv'
  BY <1>0, <1>1, <1>6 DEF Stop
<1>7. CASE Return
  <2>1. wg # 0 => LateSubmit
    BY <1>7, SomePending DEF Return
  <2> QED
    BY <1>0, <1>1, <1>7, <2>1 DEF Return
<1> QED
  BY <1>2, <1>3, <1>4, <1>5, <1>6, <1>7

LEMMA Invariance == Spec => []IInv
<1>1. IInv /\ [Next]_vars => IInv'
  BY AddStep, EnqueueStep, TakeStep, DoStep, DoneStep, ShutdownStep
  DEF Next, Submitter, Worker
<1> QED
  BY InitIInv, <1>1, PTL DEF Spec

-----------------------------------------------------------------------------
(* The channel never holds more than its capacity and the counter of the wait *)
(* group never goes below zero.                                              *)
THEOREM TypeCorrect == Spec => []TypeOK
  BY Invariance, PTL DEF IInv

(* No interleaving of submitters, workers and Shutdown loses a job, puts one   *)
(* on the channel twice or gives it to two workers.                          *)
THEOREM JobsAreAccounted == Spec => []JobsAccounted
<1>1. IInv => JobsAccounted
  <2> SUFFICES ASSUME IInv PROVE JobsAccounted
    OBVIOUS
  <2> USE DEF IInv, TypeOK, QueueExact, WorkExact, InState
  <2>1. IsInjective(jobQueue)
    BY DEF IsInjective
  <2>2. InState("queued") = {jobQueue[i] : i \in 1..Len(jobQueue)}
    OBVIOUS
  <2>3. InState("taken") \cup InState("did") =
            {working[w] : w \in Workers} \ {NoJob}
    BY NoJobIsNone
  <2> QED
    BY <2>1, <2>2, <2>3 DEF JobsAccounted
<1> QED
  BY <1>1, Invariance, PTL

(* Shutdown stops the workers only when every job submitted before it was     *)
(* called is done, and the wait group panics only then, and only if another   *)
(* was submitted after that.                                                 *)
THEOREM ShutdownWaitsForAll == Spec => []ShutdownOwesNothing
<1>1. IInv => ShutdownOwesNothing
  BY DEF IInv, OwedInv
<1> QED
  BY <1>1, Invariance, PTL

-----------------------------------------------------------------------------
(* While a worker waits in its select, fewer jobs are being done than there   *)
(* are workers: each of those jobs has a worker of its own, another one.      *)
LEMMA IdleWorker ==
  ASSUME IInv, NEW w \in Workers, working[w] = NoJob
  PROVE  Cardinality(InState("taken")) < Cardinality(Workers)
<1> DEFINE A == InState("taken")
           f == [j \in A |-> CHOOSE v \in Workers : working[v] = j]
<1>1. \A j \in A : f[j] \in Workers \ {w} /\ working[f[j]] = j
  BY NoJobIsNone DEF IInv, TypeOK, WorkExact, InState
<1>2. f \in Injection(A, Workers \ {w})
  BY <1>1 DEF Injection, IsInjective
<1>3. /\ IsFiniteSet(Workers \ {w})
      /\ Cardinality(Workers \ {w}) = Cardinality(Workers) - 1
      /\ Cardinality(Workers) \in Nat
  BY WorkersFinite, FS_RemoveElement, FS_CardinalityType
<1> HIDE DEF f
<1>4. IsFiniteSet(A) /\ Cardinality(A) <= Cardinality(Workers \ {w})
  BY <1>2, <1>3, FS_Injection
<1>5. Cardinality(A) \in Nat
  BY <1>4, FS_CardinalityType
<1> QED
  BY <1>3, <1>4, <1>5

(* The pool, with its channel, its workers and its wait group, implements the  *)
(* abstract task pool.                                                        *)
THEOREM Refinement == Spec => ImplementsTaskPool
<1>1. Init => Tasks!Init
  BY DEF Init, Tasks!Init, InState
<1>2. ASSUME IInv, [Next]_vars PROVE [Tasks!Next]_Tasks!vars
  <2> USE <1>2 DEF IInv, TypeOK, InState, Becomes, Tasks!vars
  <2>1. ASSUME NEW j \in Jobs, Add(j) PROVE Tasks!Submit(j)
    BY <2>1 DEF Add, Tasks!Submit
  <2>2. ASSUME NEW j \in Jobs, Enqueue(j) PROVE UNCHANGED Tasks!vars
    BY <2>2 DEF Enqueue
  <2>3. ASSUME NEW w \in Workers, Take(w) PROVE \E j \in Jobs : Tasks!Start(j)
    <3> DEFINE j == Head(jobQueue)
    <3>1. /\ j \in Jobs /\ job[j] = "queued"
          /\ job' = [job EXCEPT ![j] = "taken"]
          /\ UNCHANGED <<shutdown, owed>>
      BY <2>3 DEF Take, QueueExact
    <3> HIDE DEF j
    <3>2. Cardinality(InState("taken")) < Cardinality(Workers)
      BY <2>3, IdleWorker DEF Take
    <3>3. /\ InState("new")' = InState("new")
          /\ InState("taken")' = InState("taken") \cup {j}
          /\ InState("did")' = InState("did")
          /\ InState("done")' = InState("done")
      BY <3>1
    <3>4. /\ j \notin InState("new") /\ j \notin InState("taken")
          /\ j \notin InState("did") /\ j \notin InState("done")
      BY <3>1
    <3> HIDE DEF InState
    <3>5. /\ j \in (Jobs \ InState("new"))
                    \ (InState("taken") \cup (InState("did") \cup InState("done")))
          /\ (Jobs \ InState("new"))' = Jobs \ InState("new")
      BY <3>1, <3>3, <3>4
    <3>6. Tasks!Cardinality(InState("taken")) = Cardinality(InState("taken"))
      BY Zenon DEF Tasks!Cardinality, Cardinality
    <3>7. Tasks!Start(j)
      BY <3>1, <3>2, <3>3, <3>5, <3>6 DEF Tasks!Start
    <3> QED
      BY <3>1, <3>7
  <2>4. ASSUME NEW w \in Workers, Do(w) PROVE Tasks!Finish(working[w])
    <3>1. /\ working[w] \in InState("taken")
          /\ InState("new")' = InState("new")
          /\ InState("taken")' = InState("taken") \ {working[w]}
          /\ InState("did")' = InState("did") \cup {working[w]}
          /\ InState("done")' = InState("done")
          /\ UNCHANGED <<shutdown, owed>>
      BY <2>4 DEF Do
    <3> HIDE DEF InState
    <3> QED
      BY <3>1 DEF Tasks!Finish
  <2>5. ASSUME NEW w \in Workers, Done(w) PROVE UNCHANGED Tasks!vars
    <3>1. /\ working[w] \in InState("did")
          /\ InState("new")' = InState("new")
          /\ InState("taken")' = InState("taken")
          /\ InState("did")' = InState("did") \ {working[w]}
          /\ InState("done")' = InState("done") \cup {working[w]}
          /\ UNCHANGED <<shutdown, owed>>
      BY <2>5 DEF Done
    <3> HIDE DEF InState
    <3> QED
      BY <3>1
  <2>6. ASSUME CallShutdown PROVE Tasks!Shutdown
    BY <2>6 DEF CallShutdown, Tasks!Shutdown
  <2>7. ASSUME Wait \/ Return PROVE Tasks!Close \/ UNCHANGED Tasks!vars
    <3>1. CASE wg = 0
      <4>1. \A j \in owed : job[j] \in {"new", "done"} /\ job[j] # "new"
        BY <3>1, NothingPending DEF OwedInv
      <4> QED
        BY <2>7, <3>1, <4>1 DEF Wait, Return, Tasks!Close
    <3>2. CASE wg # 0
      BY <2>7, <3>2 DEF Wait, Return
    <3> QED
      BY <3>1, <3>2
  <2>8. ASSUME Release \/ CloseStop \/ UNCHANGED vars PROVE UNCHANGED Tasks!vars
    BY <2>8 DEF Release, CloseStop, vars
  <2>9. ASSUME NEW w \in Workers, Stop(w) PROVE UNCHANGED Tasks!vars
    BY <2>9 DEF Stop
  <2>10. ASSUME NEW w \in Workers, Do(w) PROVE working[w] \in Jobs
    BY <2>10 DEF Do
  <2> HIDE DEF Tasks!vars, IInv, TypeOK, InState, Becomes
  <2> QED
    BY <2>1, <2>2, <2>3, <2>4, <2>5, <2>6, <2>7, <2>8, <2>9, <2>10
    DEF Next, Submitter, Worker, Tasks!Next
<1> QED
  BY <1>1, <1>2, Invariance, PTL DEF Spec, ImplementsTaskPool, Tasks!Spec
=============================================================================

----------------------------- MODULE Boot_proofs -----------------------------
(* Theorems about InitProcess, for every capacity of the channel and any      *)
(* number of orphans and requests; and about Boot, which adds the stages of   *)
(* the initramfs: what is proved of InitProcess holds of process 1 from its   *)
(* first call on.                                                            *)
EXTENDS Boot, SequenceTheorems, TLAPS

(* The manager is waited for before the context is done, and the context is   *)
(* done before reboot(2).                                                     *)
ManagerFirst ==
    /\ cancelled => manager \in {"none", "reaped"}
    /\ phase \in {"reboot", "down"} => cancelled

(* Every signal on its way to main is one that was sent, or SIGCHLD. *)
SignalsAreSent ==
    /\ pending \subseteq sent \cup {"CHLD"}
    /\ \A i \in 1..Len(channel) : channel[i] \in sent \cup {"CHLD"}

CommandSet == phase \in {"starting", "loop"} => rebootCommand = "none"

(* "dead" can also come before a command was chosen; no step leaves it. *)
IInv == TypeOK /\ ManagerFirst /\ SignalsAreSent /\ CommandSet /\ CommandIsAsked

-----------------------------------------------------------------------------
LEMMA InitIInv == Init => IInv
<1> SUFFICES ASSUME Init PROVE IInv
  OBVIOUS
<1>1. /\ channel \in Seq(Registered) /\ Len(channel) <= ChannelSize
      /\ \A i \in 1..Len(channel) : channel[i] \in sent \cup {"CHLD"}
  BY ChannelSizeNat DEF Init
<1>2. TypeOK
  BY <1>1, MaxOrphansNat, MaxRequestsNat DEF Init, TypeOK, Phases
<1> QED
  BY <1>1, <1>2
  DEF Init, IInv, ManagerFirst, SignalsAreSent, CommandSet, CommandIsAsked

(* Each step of main keeps the invariant. *)
LEMMA MainStep == IInv /\ Main => IInv'
<1> SUFFICES ASSUME IInv, Main PROVE IInv'
  OBVIOUS
<1> USE DEF IInv, TypeOK, Phases, Registered, Requests, Commands, ManagerFirst,
            SignalsAreSent, CommandSet, CommandIsAsked, signals, children
<1>1. CASE Notify
  BY <1>1 DEF Notify
<1>2. CASE ReceiveRequest
  <2>1. Head(channel) \in sent /\ Head(channel) \in Requests
    BY <1>2 DEF ReceiveRequest
  <2>2. /\ channel' \in Seq(Registered) /\ Len(channel') <= ChannelSize
        /\ \A i \in 1..Len(channel') : channel'[i] \in sent \cup {"CHLD"}
    BY <1>2, ChannelSizeNat DEF ReceiveRequest
  <2>3. /\ rebootCommand' \in Commands
        /\ rebootCommand' = "KEXEC" => "USR1" \in sent
        /\ rebootCommand' = "RESTART" => "INT" \in sent
        /\ rebootCommand' = "POWER_OFF" => "USR2" \in sent
    BY <1>2, <2>1 DEF ReceiveRequest, EndLoop, Command
  <2> QED
    BY <1>2, <2>2, <2>3 DEF ReceiveRequest, EndLoop
<1>3. CASE ReceiveChild
  <2>1. /\ channel' \in Seq(Registered) /\ Len(channel') <= ChannelSize
        /\ \A i \in 1..Len(channel') : channel'[i] \in sent \cup {"CHLD"}
    BY <1>3, ChannelSizeNat DEF ReceiveChild
  <2> QED
    BY <1>3, <2>1 DEF ReceiveChild, ReapAll
<1>4. CASE ContextDone
  BY <1>4 DEF ContextDone, EndLoop
<1>5. CASE StopManager
  BY <1>5 DEF StopManager
<1>6. CASE LastReap
  BY <1>6 DEF LastReap, ReapAll
<1>7. CASE AwaitManager
  BY <1>7 DEF AwaitManager
<1>8. CASE Reboot
  BY <1>8 DEF Reboot
<1> QED
  BY <1>1, <1>2, <1>3, <1>4, <1>5, <1>6, <1>7, <1>8 DEF Main

(* Each step of the children, the signals and the waiting goroutine does too. *)
LEMMA OtherStep ==
  ASSUME IInv,
         \/ WaitManager \/ ManagerExit \/ OrphanExit \/ SendTerm
         \/ \E sig \in Requests : SendRequest(sig)
         \/ \E sig \in Registered : Deliver(sig)
  PROVE  IInv'
<1> USE DEF IInv, TypeOK, Phases, Registered, Requests, Commands, ManagerFirst,
            SignalsAreSent, CommandSet, CommandIsAsked, signals, children, Alive,
            ManagerRuns
<1>1. CASE WaitManager
  BY <1>1 DEF WaitManager
<1>2. CASE ManagerExit
  BY <1>2 DEF ManagerExit, ChildSignal
<1>3. CASE OrphanExit
  BY <1>3 DEF OrphanExit, ChildSignal
<1>4. CASE SendTerm
  BY <1>4 DEF SendTerm
<1>5. ASSUME NEW sig \in Requests, SendRequest(sig) PROVE IInv'
  <2>1. budget' \in Nat
    BY <1>5 DEF SendRequest
  <2>2. CASE phase # "starting"
    BY <1>5, <2>1, <2>2 DEF SendRequest
  <2>3. CASE phase = "starting"
    BY <1>5, <2>1, <2>3 DEF SendRequest
  <2> QED
    BY <2>2, <2>3
<1>6. ASSUME NEW sig \in Registered, Deliver(sig) PROVE IInv'
  <2>1. CASE Len(channel) < ChannelSize
    <3>1. /\ channel' \in Seq(Registered) /\ Len(channel') <= ChannelSize
          /\ \A i \in 1..Len(channel') : channel'[i] \in sent \cup {"CHLD"}
      BY <1>6, <2>1, ChannelSizeNat DEF Deliver
    <3> QED
      BY <1>6, <2>1, <3>1 DEF Deliver
  <2>2. CASE ~(Len(channel) < ChannelSize)
    BY <1>6, <2>2 DEF Deliver
  <2> QED
    BY <2>1, <2>2
<1> QED
  BY <1>1, <1>2, <1>3, <1>4, <1>5, <1>6

LEMMA NextIInv == IInv /\ [Next]_vars => IInv'
<1>1. IInv /\ UNCHANGED vars => IInv'
  BY DEF IInv, TypeOK, ManagerFirst, SignalsAreSent, CommandSet, CommandIsAsked, vars
<1> QED
  BY <1>1, MainStep, OtherStep DEF Next

LEMMA Invariance == Spec => []IInv
  BY InitIInv, NextIInv, PTL DEF Spec

-----------------------------------------------------------------------------
(* The channel of signal.Notify never holds more than its capacity, and the  *)
(* states of process 1 and its children are those of the types.              *)
THEOREM TypeCorrect == Spec => []TypeOK
  BY Invariance, PTL DEF IInv

(* main reaches reboot(2) only after the manager's end: Wait returned or the  *)
(* reaper of orphans took it, in either order with the shutdown request.     *)
THEOREM ManagerGoneBeforeReboot == Spec => []RebootAfterManager
<1>1. IInv => RebootAfterManager
  BY DEF IInv, ManagerFirst, RebootAfterManager
<1> QED
  BY <1>1, Invariance, PTL

(* The reboot command is that of a signal that was sent, or the power-off of  *)
(* a system whose manager is gone.                                           *)
THEOREM CommandWasAsked == Spec => []CommandIsAsked
  BY Invariance, PTL DEF IInv

-----------------------------------------------------------------------------
(* Errors belong to the stage that is under way; what was called before it     *)
(* gave what it should.                                                      *)
StageInv ==
    /\ where \in {"initramfs", "real", "panic"}
    /\ step \in 1..(LastCall + 1)
    /\ where = "initramfs" => step <= LastCall
    /\ where = "real" => step = LastCall + 1 /\ errors = {}
    /\ errors \subseteq 1..(step - 1)
    /\ \A i \in 1..(step - 1) : i \notin errors => Calls[i].gives \in have
    /\ where = "initramfs" => \A bad \in errors : Stage(bad) = Stage(step)
    /\ where = "panic" => \A bad \in errors : Stage(bad) = Stage(step - 1)

(* The stages are in order. *)
LEMMA StageOrder ==
  /\ \A i \in 1..LastCall : Stage(i) \in StageEnds /\ i <= Stage(i)
  /\ \A i \in 1..LastCall : i \in StageEnds => Stage(i) = i
  /\ \A i \in 1..(LastCall - 1) : i \notin StageEnds => Stage(i + 1) = Stage(i)
  /\ \A i, j \in 1..LastCall : i <= j => Stage(i) <= Stage(j)
<1>1. \A i \in 1..LastCall :
         Stage(i) = IF i <= 11 THEN 11 ELSE IF i = 12 THEN 12 ELSE IF i = 13 THEN 13
                    ELSE IF i <= 20 THEN 20 ELSE IF i <= 30 THEN 30 ELSE 31
  BY DEF Stage, StageEnds, LastCall
<1> QED
  BY <1>1 DEF StageEnds, LastCall

LEMMA BInitStageInv == BInit => StageInv
  BY DEF BInit, StageInv, LastCall

(* A call, whatever becomes of it, and the look at the errors after it. *)
LEMMA CallStep ==
  ASSUME StageInv, where = "initramfs", errors' \in {errors, errors \cup {step}},
         Ensure(errors'), have \subseteq have',
         step \notin errors' => Calls[step].gives \in have'
  PROVE  StageInv'
<1>1. step \in 1..LastCall /\ step' = step + 1
  BY DEF StageInv, Ensure, LastCall
<1>2. errors' \subseteq 1..(step' - 1)
  BY <1>1 DEF StageInv, LastCall
<1>3. \A i \in 1..(step' - 1) : i \notin errors' => Calls[i].gives \in have'
  BY <1>1 DEF StageInv, LastCall
<1>4. \A bad \in errors' : Stage(bad) = Stage(step)
  BY DEF StageInv
<1>5. CASE step \in StageEnds /\ errors' # {}
  <2>1. where' = "panic" /\ step' - 1 = step /\ step' \in 1..(LastCall + 1)
    BY <1>1, <1>5 DEF Ensure, LastCall
  <2> QED
    BY <1>2, <1>3, <1>4, <2>1 DEF StageInv
<1>6. CASE step = LastCall /\ errors' = {}
  <2>1. where' = "real" /\ step' = LastCall + 1 /\ step' \in 1..(LastCall + 1)
    BY <1>1, <1>6 DEF Ensure, LastCall
  <2> QED
    BY <1>2, <1>3, <1>6, <2>1 DEF StageInv
<1>7. CASE step # LastCall /\ (step \notin StageEnds \/ errors' = {})
  <2>1. where' = "initramfs" /\ step \in 1..(LastCall - 1) /\ step' \in 1..LastCall
        /\ step' \in 1..(LastCall + 1) /\ step' <= LastCall
    BY <1>1, <1>7 DEF Ensure, LastCall
  <2>2. \A bad \in errors' : Stage(bad) = Stage(step')
    BY <1>1, <1>4, <1>7, <2>1, StageOrder
  <2> QED
    BY <1>2, <1>3, <2>1, <2>2 DEF StageInv
<1> QED
  BY <1>5, <1>6, <1>7 DEF StageEnds

LEMMA BNextStageInv == StageInv /\ [BNext]_bvars => StageInv'
<1> SUFFICES ASSUME StageInv, [BNext]_bvars PROVE StageInv'
  OBVIOUS
<1>1. CASE Succeed
  <2>1. errors' = errors /\ have' = have \cup {Calls[step].gives}
    BY <1>1 DEF Succeed
  <2> QED
    BY <1>1, <2>1, CallStep DEF Succeed
<1>2. CASE SafeCallFails
  <2>1. errors' = errors \cup {step} /\ have' = have
    BY <1>2 DEF SafeCallFails
  <2> QED
    BY <1>2, <2>1, CallStep DEF SafeCallFails
<1>3. CASE DeviceAppears
  BY <1>3 DEF DeviceAppears, StageInv
<1>4. CASE Real(Next) \/ UNCHANGED bvars
  BY <1>4 DEF Real, bvars, bootVars, StageInv
<1> QED
  BY <1>1, <1>2, <1>3, <1>4 DEF BNext, Initramfs

-----------------------------------------------------------------------------
(* No stage begins on the remains of one in which a call failed, whatever the  *)
(* image holds and whichever calls fail, and /cmd/init has a complete root.    *)
THEOREM RootIsComplete == BSpec => []StagesComplete
<1>1. StageInv => StagesComplete
  <2> SUFFICES ASSUME StageInv PROVE StagesComplete
    OBVIOUS
  <2>1. ASSUME NEW i \in 1..(step - 1), NEW bad \in errors
        PROVE  Stage(i) <= Stage(bad)
    <3>1. CASE where = "initramfs"
      <4>1. i \in 1..LastCall /\ step \in 1..LastCall /\ i <= step
        BY <3>1 DEF StageInv, LastCall
      <4> QED
        BY <3>1, <4>1, StageOrder DEF StageInv
    <3>2. CASE where = "panic"
      <4>1. i \in 1..LastCall /\ step - 1 \in 1..LastCall /\ i <= step - 1
        BY <3>2 DEF StageInv, LastCall
      <4> QED
        BY <3>2, <4>1, StageOrder DEF StageInv
    <3> QED
      BY <3>1, <3>2 DEF StageInv
  <2>2. where = "real" => errors = {} /\ \A i \in 1..LastCall : Calls[i].gives \in have
    BY DEF StageInv, LastCall
  <2> QED
    BY <2>1, <2>2 DEF StagesComplete
<1> QED
  BY <1>1, BInitStageInv, BNextStageInv, PTL DEF BSpec

(* Process 1 as a whole does what InitProcess says. *)
THEOREM BootRefines == BSpec => Spec
<1>1. BInit => Init
  BY DEF BInit
<1>2. [BNext]_bvars => [Next]_vars
  BY DEF BNext, bvars, Initramfs, Succeed, SafeCallFails, DeviceAppears, Real
<1> QED
  BY <1>1, <1>2, PTL DEF BSpec, Spec

(* So that reboot(2) still comes only after the manager's end, *)
THEOREM BootRebootsAfterManager == BSpec => []RebootAfterManager
  BY BootRefines, ManagerGoneBeforeReboot, PTL

(* and does what somebody asked for. *)
THEOREM BootCommandIsAsked == BSpec => []CommandIsAsked
  BY BootRefines, CommandWasAsked, PTL
=============================================================================

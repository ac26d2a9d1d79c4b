--------------------------------- MODULE Boot ---------------------------------
(***************************************************************************)
(* Process 1 from the initramfs on (cmd/init): /init mounts what the kernel  *)
(* offers, lays an overlay over the root device, moves into it and executes  *)
(* the /cmd/init that InitProcess models.  safeCall keeps an error and goes  *)
(* on; ensureStage, at the end of a stage, ends process 1 if there is one.   *)
(* Until the exec the variables of InitProcess are those it begins with.     *)
(***************************************************************************)
EXTENDS InitProcess

CONSTANTS
    Images,         \* what the initramfs image may have in it
    MaxErrors       \* bound: calls that fail although they have what they need

ASSUME MaxErrorsNat == MaxErrors \in Nat

VARIABLES
    where,          \* "initramfs", "real", or "panic" once process 1 ended
    step,           \* the call that is next
    have,           \* directories, mounts and what else is there
    errors,         \* the calls that failed
    luck            \* errors the environment may still make

bootVars == <<where, step, have, errors, luck>>
bvars == <<vars, bootVars>>

-----------------------------------------------------------------------------
(* A call gives something if it has what it needs; mkdir(2) refuses a        *)
(* directory that is there.                                                  *)
Call(gives, needs) == [gives |-> gives, needs |-> needs, new |-> FALSE]
Mkdir(gives, needs) == [gives |-> gives, needs |-> needs, new |-> TRUE]
Move(fs, dir) == <<Call(dir, {"/rootfs"}), Call("real " \o fs, {fs, dir})>>

Calls ==
    << Call("devtmpfs", {"/dev"}), Mkdir("/proc", {}), Call("proc", {"/proc"}),
       Mkdir("/sys", {}), Call("sysfs", {"/sys"}),
       Call("/cache/temp", {}), Call("tmpfs", {"/cache/temp"}),
       Mkdir("/dev/pts", {"/dev"}), Call("devpts", {"/dev/pts"}),
       Mkdir("/dev/shm", {"/dev"}), Call("shm", {"/dev/shm"}),
       Call("rootfs", {"proc", "flag"}),
       Call("stat", {"rootfs", "device"}),
       Mkdir("overlay", {"/cache/temp"}), Mkdir("ro", {"overlay"}),
       Mkdir("rw", {"overlay"}), Mkdir("work", {"overlay"}), Mkdir("/rootfs", {}),
       Call("squashfs", {"ro", "device"}),
       Call("overlayfs", {"ro", "rw", "work", "/rootfs"}) >>
    \o Move("proc", "/rootfs/proc") \o Move("sysfs", "/rootfs/sys")
    \o Move("devtmpfs", "/rootfs/dev") \o Move("tmpfs", "/rootfs/cache/temp")
    \o << Call("chdir", {"/rootfs"}), Call("chroot", {"/rootfs"}),
          Call("exec", {"squashfs", "overlayfs", "chroot"}) >>

(* The ends of the stages, and the two calls whose error is fatal at once: the *)
(* look at the root device and the exec.                                     *)
LastCall == 31
StageEnds == {11, 12, 13, 20, 30, LastCall}
Stage(i) == CHOOSE e \in StageEnds : i <= e /\ \A f \in StageEnds : i <= f => e <= f

-----------------------------------------------------------------------------
BInit ==
    /\ Init
    /\ where = "initramfs" /\ step = 1
    /\ have \in {image \cup arg \cup dev : image \in Images,
                     arg \in {{}, {"flag"}}, dev \in {{}, {"device"}}}
    /\ errors = {} /\ luck = MaxErrors

(* The kernel finds the root device at any time. *)
DeviceAppears ==
    /\ where = "initramfs"
    /\ "device" \notin have
    /\ have' = have \cup {"device"}
    /\ UNCHANGED <<vars, where, step, errors, luck>>

(* Mutant of Ensure: the stage looks at the error of its last call. *)
EnsureLast(bad) ==
    /\ step' = step + 1
    /\ where' = CASE step \in StageEnds /\ step \in bad -> "panic"
                  [] step = LastCall /\ step \notin bad -> "real"
                  [] OTHER -> where

Ensure(bad) ==
    /\ step' = step + 1
    /\ where' = CASE step \in StageEnds /\ bad # {} -> "panic"
                  [] step = LastCall /\ bad = {} -> "real"
                  [] OTHER -> where

Ready(call) == call.needs \subseteq have /\ (call.new => call.gives \notin have)

Succeed ==
    /\ where = "initramfs"
    /\ Ready(Calls[step])
    /\ have' = have \cup {Calls[step].gives}
    /\ Ensure(errors)
    /\ UNCHANGED <<vars, errors, luck>>

SafeCallFails ==
    /\ where = "initramfs"
    /\ IF Ready(Calls[step]) THEN luck > 0 /\ luck' = luck - 1 ELSE luck' = luck
    /\ errors' = errors \cup {step}
    /\ Ensure(errors')
    /\ UNCHANGED <<vars, have>>

Initramfs == Succeed \/ SafeCallFails

(* What InitProcess does, in the real root. *)
Real(action) == where = "real" /\ action /\ UNCHANGED bootVars

BNext == Initramfs \/ DeviceAppears \/ Real(Next)

BSpec == BInit /\ [][BNext]_bvars

BFairSpec ==
    /\ BSpec
    /\ WF_bvars(Initramfs)
    /\ WF_bvars(Real(Main)) /\ WF_bvars(Real(WaitManager))
    /\ WF_bvars(Real(manager = "stopping" /\ ManagerExit))
    /\ \A sig \in Registered : WF_bvars(Real(Deliver(sig)))

-----------------------------------------------------------------------------
(* A stage is begun only when the one before it is complete: nothing is       *)
(* mounted on the remains of a stage in which a call failed, and /cmd/init    *)
(* runs in a root that has all of it.                                        *)
StagesComplete ==
    /\ \A i \in 1..(step - 1) : \A bad \in errors : Stage(i) <= Stage(bad)
    /\ where = "real" => errors = {} /\ \A i \in 1..LastCall : Calls[i].gives \in have

(* The initramfs ends, in the real root or in a panic, and when the manager     *)
(* ends there, or never started, the machine does not stay up with process 1   *)
(* alone.                                                                     *)
NobodyLeftUp ==
    /\ (where = "initramfs") ~> (where # "initramfs")
    /\ (where = "real" /\ ~ManagerRuns) ~> Ended
=============================================================================

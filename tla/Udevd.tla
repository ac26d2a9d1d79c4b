-------------------------------- MODULE Udevd --------------------------------
(***************************************************************************)
(* The device daemon (service/udevd): the events of the kernel, read from a *)
(* socket of bounded size, are jobs of the worker pool, submitted by a      *)
(* goroutine each; a job loads the driver of its device.  The daemon asks   *)
(* for the events of the devices that are there already by a walk over      *)
(* /sys/devices, and the service manager starts it again when it ends.      *)
(*                                                                          *)
(* The loaders of ModuleLoad are the events: <<device, "plug">>,            *)
(* <<device, "unplug">> and <<device, w>> for the walk w of a run.          *)
(***************************************************************************)
EXTENDS ModuleLoad

CONSTANTS
    Cold,           \* devices that are there from the start, and stay
    Hot,            \* devices that come and go, once
    Driver,         \* the module a device's alias matches, NoModule for none
    Walks,          \* names of the walks, one for each run of udevd: its
                    \* length bounds how often udevd is started
    SocketSize,     \* events that the kernel keeps for the socket
    Workers, QueueSize, NoJob       \* of the pool, 10 and 50 in the code

Devices == Cold \cup Hot
Of(e) == e[1]

ASSUME NoJobIsNoEvent == NoJob \notin Loaders
ASSUME WalksAreNamed == Walks \in Seq(STRING)
ASSUME EventsAre ==
    /\ Loaders = (Devices \X Range(Walks)) \cup (Hot \X {"plug", "unplug"})
    /\ Wanted = [e \in Loaders |-> {Driver[Of(e)]} \ {NoModule}]

VARIABLES
    daemon,         \* "down", "bound" to its socket, or "walking"
    runs,           \* how often udevd was started
    present,        \* the devices that are there
    sent,           \* events that the kernel made
    socket,         \* events that udevd has not read
    received,       \* events whose goroutine calls Submit
    todo,           \* devices that the walk has not come to
    job, jobQueue, working, running, wg, shutdown, owed,    \* the pool of this run
    missed          \* history: devices that went without, see below

kernelVars == <<present, sent, socket, missed>>
poolVars == <<job, jobQueue, working, running, wg, shutdown, owed>>
uvars == <<vars, kernelVars, poolVars, daemon, runs, received, todo>>

P == INSTANCE Pool WITH Jobs <- Loaders

UInit ==
    /\ Init
    /\ daemon = "down" /\ runs = 0
    /\ present = Cold /\ sent = {} /\ socket = <<>>
    /\ received = {} /\ todo = {}
    /\ P!Init
    /\ missed = {}

-----------------------------------------------------------------------------
(* The kernel makes an event; nobody has it when the socket is not bound, or  *)
(* when it is full.                                                          *)
Emit(e) ==
    /\ e \notin sent
    /\ sent' = sent \cup {e}
    /\ IF daemon = "down" \/ Len(socket) < SocketSize
       THEN /\ socket' = IF daemon = "down" THEN socket ELSE Append(socket, e)
            /\ missed' = missed
       ELSE UNCHANGED socket /\ missed' = missed \cup {Of(e)}

(* A device comes; a walk that is under way may come to it or not. *)
Plug(d) ==
    /\ d \notin present
    /\ Emit(<<d, "plug">>)
    /\ present' = present \cup {d}
    /\ todo' \in IF daemon = "walking" THEN {todo, todo \cup {d}} ELSE {todo}
    /\ UNCHANGED <<vars, poolVars, daemon, runs, received>>

Unplug(d) ==
    /\ d \in present
    /\ Emit(<<d, "unplug">>)
    /\ present' = present \ {d}
    /\ UNCHANGED <<vars, poolVars, daemon, runs, received, todo>>

-----------------------------------------------------------------------------
(* main, started by the service manager: a new pool, the socket, the walk a    *)
(* moment after it.                                                          *)
Start ==
    /\ daemon = "down"
    /\ runs < Len(Walks)
    /\ daemon' = "bound" /\ runs' = runs + 1
    /\ UNCHANGED <<vars, kernelVars, poolVars, received, todo>>


(* Mutant of BeginWalk: a udevd that was started again does not walk. *)
BeginWalkOnce ==
    /\ daemon = "bound" /\ runs = 1
    /\ daemon' = "walking"
    /\ todo' = present
    /\ UNCHANGED <<vars, kernelVars, poolVars, runs, received>>

BeginWalk ==
    /\ daemon = "bound"
    /\ daemon' = "walking"
    /\ todo' = present
    /\ UNCHANGED <<vars, kernelVars, poolVars, runs, received>>

(* Writing "add" to the device's file makes an event. *)
Walk(d) ==
    /\ d \in todo \cap present
    /\ Emit(<<d, Walks[runs]>>)
    /\ todo' = todo \ {d}
    /\ UNCHANGED <<vars, present, poolVars, daemon, runs, received>>

(* What a device needs in the kernel. *)
Below(d) == IF Driver[d] \in Modules THEN Needs[Driver[d]] \cup {Driver[d]} ELSE {}

(* The end of udevd loses what it has read and what waits in its socket, and  *)
(* leaves loads half done.                                                   *)
End ==
    /\ runs < Len(Walks)
    /\ daemon' = "down"
    /\ socket' = <<>> /\ received' = {} /\ todo' = {}
    /\ job' = [e \in Loaders |-> "new"] /\ jobQueue' = <<>>
    /\ working' = [w \in Workers |-> NoJob] /\ wg' = 0
    /\ UNCHANGED <<running, shutdown, owed>>
    /\ Kill(sent)
    /\ missed' = missed \cup {d \in Devices : \E e \in sent : \E i \in 1..Len(stack[e]) :
                                 stack[e][i].mod \in Below(d)}
    /\ UNCHANGED <<present, sent, runs>>

Crash == daemon # "down" /\ End

(* A device that the walk saw is gone when it comes to it: unless it had not  *)
(* read the directory yet, it panics, as Walk gives it no FileInfo, or fails   *)
(* to write and does not go on.                                              *)
WalkMisses(d) ==
    /\ d \in todo \ present
    /\ \/ /\ todo' = todo \ {d}
          /\ UNCHANGED <<vars, kernelVars, poolVars, daemon, runs, received>>
       \/ End
       \/ /\ todo' = {}
          /\ missed' = missed \cup todo
          /\ UNCHANGED <<vars, present, sent, socket, poolVars, daemon, runs, received>>

-----------------------------------------------------------------------------
(* The main loop reads an event and starts a goroutine that submits it. *)
Receive ==
    /\ daemon # "down"
    /\ socket # <<>>
    /\ socket' = Tail(socket)
    /\ received' = received \cup {Head(socket)}
    /\ UNCHANGED <<vars, present, sent, missed, poolVars, daemon, runs, todo>>

Submit(e) ==
    /\ e \in received
    /\ P!Submitter(e)
    /\ UNCHANGED <<vars, kernelVars, daemon, runs, received, todo>>

(* Event.Do, whatever the event's action is: the driver is looked up and      *)
(* loaded, and the worker goes on when Load has returned.                    *)
Load(w) ==
    /\ working[w] # NoJob /\ job[working[w]] = "taken"
    /\ Loading(working[w])
    /\ UNCHANGED <<kernelVars, poolVars, daemon, runs, received, todo>>

Loaded(e) == wanted[e] = {} /\ stack[e] = <<>>

(* Mutant of Work: the load goes on in a goroutine of its own. *)
WorkAhead(w) ==
    /\ \/ P!Take(w) \/ P!Done(w)
       \/ P!Do(w) /\ wanted[working[w]] = {}
    /\ UNCHANGED <<vars, kernelVars, daemon, runs, received, todo>>

Work(w) ==
    /\ \/ P!Take(w) \/ P!Done(w)
       \/ P!Do(w) /\ Loaded(working[w])
    /\ UNCHANGED <<vars, kernelVars, daemon, runs, received, todo>>

UNext ==
    \/ Start \/ BeginWalk \/ Crash \/ Receive
    \/ \E d \in Hot : Plug(d) \/ Unplug(d)
    \/ \E d \in Devices : Walk(d) \/ WalkMisses(d)
    \/ \E e \in Loaders : Submit(e)
    \/ \E w \in Workers : Load(w) \/ Work(w)

USpec == UInit /\ [][UNext]_uvars

(* The service manager starts udevd again, goroutines that can run do, the walk *)
(* goes on, and the channel serves its blocked senders in turn.               *)
UFairSpec ==
    /\ USpec
    /\ WF_uvars(Start) /\ WF_uvars(BeginWalk) /\ WF_uvars(Receive)
    /\ \A d \in Devices : WF_uvars(Walk(d) \/ WalkMisses(d))
    /\ \A e \in Loaders : SF_uvars(Submit(e))
    /\ \A w \in Workers : WF_uvars(Load(w) \/ Work(w))

-----------------------------------------------------------------------------
(* Loads run on workers only, one on each: no load goes on after its worker    *)
(* has taken another event, and at most "parallel" modules are read at once.  *)
LoadsHaveWorkers ==
    \A e \in Loaders : stack[e] # <<>> => \E w \in Workers : working[w] = e

(* A device that stays gets its driver, whether it was there at the start,     *)
(* came before the socket, during the walk or after it, or while udevd was     *)
(* down; unless an event of it was dropped, or udevd ended in a load, or the   *)
(* walk met a device that had gone, or the driver of another device brought in *)
(* what its own needs.                                                       *)
Taken(m) == \E n \in Needs[m] \cap inserted : parent[n] \notin Needs[m] \cup {m}
StayingIsDriven ==
    \A d \in Devices :
        LET m == Driver[d]
        IN  m # NoModule /\ ~Tangled(m) /\ <>[](d \in present)
            => <>(m \in inserted \/ d \in missed \/ Taken(m))
=============================================================================

----------------------------- MODULE InitProcess -----------------------------
(***************************************************************************)
(* Process 1 (cmd/init): it starts the service manager, reaps the orphans   *)
(* the kernel hands it, and turns signals into a reboot of the machine once *)
(* the manager is gone.                                                     *)
(*                                                                          *)
(* Between a signal and the loop of main stand a set of pending signals (the *)
(* kernel's and the Go runtime's, where a second signal of a kind merges     *)
(* with the first) and a channel of four that signal.Notify never waits for: *)
(* a signal that finds it full is dropped.                                  *)
(***************************************************************************)
EXTENDS Integers, Sequences, FiniteSets

CONSTANTS
    ChannelSize,    \* capacity of signalChannel, 4 in the code
    MaxOrphans,     \* bound: orphans that may end
    MaxRequests     \* bound: shutdown requests that may be sent

ASSUME ChannelSizeNat == ChannelSize \in Nat \ {0}
ASSUME MaxOrphansNat == MaxOrphans \in Nat
ASSUME MaxRequestsNat == MaxRequests \in Nat

VARIABLES
    phase,          \* where main stands
    manager,        \* the manager's process, "stopping" once it got SIGINT
    cancelled,      \* ctxt is done
    pending,        \* signals on their way to the channel
    channel,        \* signalChannel
    rebootCommand,  \* "none" until the loop of main ends
    orphans,        \* adopted processes still running
    zombies,        \* adopted processes that ended and were not reaped
    sent,           \* shutdown requests sent since they were registered
    dropped,        \* those that found the channel full
    budget          \* requests the environment may still send

vars == <<phase, manager, cancelled, pending, channel, rebootCommand, orphans,
          zombies, sent, dropped, budget>>
signals == <<pending, channel, sent, dropped, budget>>
children == <<manager, orphans, zombies>>

Requests == {"USR1", "USR2", "INT"}
Registered == Requests \cup {"CHLD"}
Commands == {"KEXEC", "POWER_OFF", "RESTART"}
Phases == {"starting", "loop", "stop", "reap", "await", "reboot", "down", "dead"}

Init ==
    /\ phase = "starting"
    /\ manager \in {"none", "running"}      \* startServiceManager may fail
    /\ cancelled = FALSE
    /\ pending = {}
    /\ channel = <<>>
    /\ rebootCommand = "none"
    /\ orphans = MaxOrphans
    /\ zombies = 0
    /\ sent = {}
    /\ dropped = {}
    /\ budget = MaxRequests

ManagerRuns == manager \in {"running", "stopping"}
Alive == phase \notin {"down", "dead"}

-----------------------------------------------------------------------------
(* Children of process 1 *)

(* A child's end is announced by SIGCHLD, ignored before it is registered. *)
ChildSignal == pending' = IF phase = "starting" THEN pending
                          ELSE pending \cup {"CHLD"}

ManagerExit ==
    /\ Alive /\ ManagerRuns
    /\ manager' = "exited"
    /\ ChildSignal
    /\ UNCHANGED <<phase, cancelled, channel, rebootCommand, orphans, zombies,
                   sent, dropped, budget>>

OrphanExit ==
    /\ Alive /\ orphans > 0
    /\ orphans' = orphans - 1
    /\ zombies' = zombies + 1
    /\ ChildSignal
    /\ UNCHANGED <<phase, manager, cancelled, channel, rebootCommand, sent,
                   dropped, budget>>

(* Mutant of ReapAll: one wait per SIGCHLD. *)
ReapOne ==
    IF manager = "exited" THEN manager' = "reaped" /\ UNCHANGED <<orphans, zombies>>
    ELSE /\ zombies' = IF zombies > 0 THEN zombies - 1 ELSE 0
         /\ UNCHANGED <<manager, orphans>>

(* waitForChildProcesses reaps every zombie there is, the manager's too if *)
(* the goroutine that waits for the manager has not done it.               *)
ReapAll ==
    /\ zombies' = 0
    /\ manager' = IF manager = "exited" THEN "reaped" ELSE manager
    /\ UNCHANGED orphans

(* The goroutine that waits for the manager: Wait returns when it ended, or  *)
(* fails when it was reaped already; either way the context is cancelled,    *)
(* and at once if there is no manager.                                      *)
WaitManager ==
    /\ Alive /\ ~cancelled
    /\ ~ManagerRuns
    /\ manager' = IF manager = "exited" THEN "reaped" ELSE manager
    /\ cancelled' = TRUE
    /\ UNCHANGED <<phase, signals, rebootCommand, orphans, zombies>>

-----------------------------------------------------------------------------
(* Signals *)

(* shutdown (SIGUSR2, or SIGINT with -reboot), Ctrl-Alt-Del (SIGINT) or      *)
(* another process (SIGUSR1).                                               *)
SendRequest(sig) ==
    /\ Alive /\ budget > 0
    /\ budget' = budget - 1
    /\ IF phase # "starting"
       THEN /\ pending' = pending \cup {sig}
            /\ sent' = sent \cup {sig}
            /\ UNCHANGED phase
       ELSE /\ phase' = IF sig = "INT" THEN "dead" ELSE phase
            /\ UNCHANGED <<pending, sent>>
    /\ UNCHANGED <<children, cancelled, channel, rebootCommand, dropped>>

(* SIGTERM: the loop has a case for it and signal.Notify was not asked for   *)
(* it, so it does what the runtime does with it, it ends the process.        *)
SendTerm ==
    /\ Alive /\ budget > 0
    /\ budget' = budget - 1
    /\ phase' = "dead"
    /\ UNCHANGED <<children, cancelled, pending, channel, rebootCommand, sent,
                   dropped>>

(* The runtime's signal goroutine passes a signal on without waiting. *)
Deliver(sig) ==
    /\ Alive /\ sig \in pending
    /\ pending' = pending \ {sig}
    /\ IF Len(channel) < ChannelSize
       THEN channel' = Append(channel, sig) /\ UNCHANGED dropped
       ELSE dropped' = dropped \cup {sig} /\ UNCHANGED channel
    /\ UNCHANGED <<phase, children, cancelled, rebootCommand, sent, budget>>

-----------------------------------------------------------------------------
(* main *)

(* signal.Notify *)
Notify ==
    /\ phase = "starting"
    /\ phase' = "loop"
    /\ UNCHANGED <<children, cancelled, signals, rebootCommand>>

(* Mutant of Command: the commands of SIGUSR1 and SIGUSR2 are swapped. *)
CommandSwapped(sig) ==
    CASE sig = "USR2" -> "KEXEC" [] sig = "USR1" -> "POWER_OFF" [] sig = "INT" -> "RESTART"

Command(sig) ==
    CASE sig = "USR1" -> "KEXEC" [] sig = "USR2" -> "POWER_OFF" [] sig = "INT" -> "RESTART"

EndLoop(command) == rebootCommand' = command /\ phase' = "stop"

(* One turn of the loop: select takes a signal or sees the context done,     *)
(* either one when both are ready.                                          *)
ReceiveRequest ==
    /\ phase = "loop"
    /\ channel # <<>> /\ Head(channel) # "CHLD"
    /\ channel' = Tail(channel)
    /\ EndLoop(Command(Head(channel)))
    /\ UNCHANGED <<children, cancelled, pending, sent, dropped, budget>>

ReceiveChild ==
    /\ phase = "loop"
    /\ channel # <<>> /\ Head(channel) = "CHLD"
    /\ channel' = Tail(channel)
    /\ ReapAll
    /\ UNCHANGED <<phase, cancelled, pending, rebootCommand, sent, dropped, budget>>

(* Mutant of ContextDone: nothing watches the context. *)
ContextUnwatched == FALSE /\ UNCHANGED vars

ContextDone ==
    /\ phase = "loop"
    /\ cancelled
    /\ EndLoop("POWER_OFF")
    /\ UNCHANGED <<children, cancelled, signals>>

(* Mutant of StopManager: the manager is not told to stop. *)
LeaveManager ==
    /\ phase = "stop"
    /\ phase' = "reap"
    /\ UNCHANGED <<children, cancelled, signals, rebootCommand>>

(* SIGINT to the manager, whose handler exits when it gets to run. *)
StopManager ==
    /\ phase = "stop"
    /\ manager' = IF manager = "running" THEN "stopping" ELSE manager
    /\ phase' = "reap"
    /\ UNCHANGED <<cancelled, signals, rebootCommand, orphans, zombies>>

LastReap ==
    /\ phase = "reap"
    /\ ReapAll
    /\ phase' = "await"
    /\ UNCHANGED <<cancelled, signals, rebootCommand>>

(* Mutant of AwaitManager: main does not wait for the context. *)
AwaitNothing ==
    /\ phase = "await"
    /\ phase' = "reboot"
    /\ UNCHANGED <<children, cancelled, signals, rebootCommand>>

(* <-ctxt.Done(), then sync *)
AwaitManager ==
    /\ phase = "await"
    /\ cancelled
    /\ phase' = "reboot"
    /\ UNCHANGED <<children, cancelled, signals, rebootCommand>>

(* reboot(2) does not come back, but for a kexec with no kernel loaded: then *)
(* main ends, and the system with it.                                       *)
Reboot ==
    /\ phase = "reboot"
    /\ phase' \in {"down"} \cup (IF rebootCommand = "KEXEC" THEN {"dead"} ELSE {})
    /\ UNCHANGED <<children, cancelled, signals, rebootCommand>>

-----------------------------------------------------------------------------
Main == Notify \/ ReceiveRequest \/ ReceiveChild \/ ContextDone \/ StopManager
            \/ LastReap \/ AwaitManager \/ Reboot

Next ==
    \/ Main \/ WaitManager
    \/ ManagerExit \/ OrphanExit \/ SendTerm
    \/ \E sig \in Requests : SendRequest(sig)
    \/ \E sig \in Registered : Deliver(sig)

Spec == Init /\ [][Next]_vars

(* The goroutines of process 1 and the runtime's signal loop are scheduled,   *)
(* and a manager that got SIGINT exits; no other child need end and nobody   *)
(* need send a signal.                                                       *)
Fairness ==
    /\ WF_vars(Main)
    /\ WF_vars(manager = "stopping" /\ ManagerExit)
    /\ WF_vars(WaitManager)
    /\ \A sig \in Registered : WF_vars(Deliver(sig))

FairSpec == Spec /\ Fairness

-----------------------------------------------------------------------------
(* The types of the variables: the channel never holds more than it has room   *)
(* for.                                                                      *)
TypeOK ==
    /\ phase \in Phases
    /\ manager \in {"none", "running", "stopping", "exited", "reaped"}
    /\ cancelled \in BOOLEAN
    /\ pending \subseteq Registered
    /\ channel \in Seq(Registered) /\ Len(channel) <= ChannelSize
    /\ rebootCommand \in Commands \cup {"none"}
    /\ orphans \in Nat /\ zombies \in Nat
    /\ sent \subseteq Requests /\ dropped \subseteq Registered
    /\ budget \in Nat

(* Main reaches reboot(2) only when the manager is gone, or never was there. *)
RebootAfterManager ==
    phase \in {"reboot", "down"} => manager \in {"none", "reaped"}

(* The machine does what somebody asked for: the command is that of a signal *)
(* that was sent, or it is the power-off of a system whose manager ended.    *)
CommandIsAsked ==
    /\ rebootCommand = "KEXEC" => "USR1" \in sent
    /\ rebootCommand = "RESTART" => "INT" \in sent
    /\ rebootCommand = "POWER_OFF" =>
          "USR2" \in sent \/ manager \in {"none", "reaped"}

Ended == phase \in {"down", "dead"}

(* A request that was not dropped, whichever it is and whatever the manager  *)
(* and the orphans do, takes the machine down.                               *)
RequestHonoured ==
    \A sig \in Requests : (sig \in sent \ dropped) ~> (Ended \/ sig \in dropped)

(* Zombies do not pile up: although signals of a kind merge and SIGCHLD may   *)
(* be dropped, an orphan that ends once SIGCHLD is registered is reaped,     *)
(* unless main leaves the loop first.                                        *)
ZombiesReaped == (phase = "loop" /\ zombies > 0 /\ "CHLD" \in pending)
                    ~> (zombies = 0 \/ phase # "loop")

(* shutdown.go:29, "Reboot system": a request sent to process 1 is obeyed.    *)
RequestNeverLost == (sent # {}) ~> Ended
=============================================================================

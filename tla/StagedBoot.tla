------------------------------ MODULE StagedBoot ------------------------------
(***************************************************************************)
(* What the service manager promises of a boot: the services of a stage     *)
(* begin only once every service of every earlier stage has settled, that   *)
(* is, has either come up or been given up.  Dependencies, processes,       *)
(* restarts and wait groups are details of ServiceManager, which implements *)
(* this specification.                                                      *)
(***************************************************************************)
EXTENDS Integers

CONSTANTS
    Services,       \* the services of the configuration
    Stages,         \* how many stages a boot has
    Stage           \* the stage of each service, 0 for one no boot triggers

VARIABLES
    stage,          \* the stage being booted, Stages + 1 after the last one
    begun,          \* services that were triggered
    settled         \* triggered services that came up or were given up

vars == <<stage, begun, settled>>

Init ==
    /\ stage = 1
    /\ begun = {}
    /\ settled = {}

(* A service of the current stage is triggered. *)
Begin(s) ==
    /\ Stage[s] = stage
    /\ s \notin begun
    /\ begun' = begun \cup {s}
    /\ UNCHANGED <<stage, settled>>

(* A triggered service came up or was given up. *)
Settle(s) ==
    /\ s \in begun \ settled
    /\ settled' = settled \cup {s}
    /\ UNCHANGED <<stage, begun>>

(* The barrier: the boot leaves a stage when all its services settled. *)
Advance ==
    /\ stage \in 1..Stages
    /\ \A s \in Services : Stage[s] = stage => s \in settled
    /\ stage' = stage + 1
    /\ UNCHANGED <<begun, settled>>

Next == Advance \/ \E s \in Services : Begin(s) \/ Settle(s)

Spec == Init /\ [][Next]_vars
=============================================================================

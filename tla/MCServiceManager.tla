--------------------------- MODULE MCServiceManager ---------------------------
(* The services on which TLC checks ServiceManager.                       *)
EXTENDS ServiceManager, TLC

(* Every kind of service meets every kind of dependency, in two stages, with  *)
(* what the shipped files do not exercise: a conditional daemon that restarts  *)
(* and whose relaunch may be skipped ("gps"), a conditional oneshot ("fsck"),  *)
(* a daemon that is not relaunched and depends on a service that is not loaded *)
(* ("log"), a dependency on a later stage ("early"), and a service whose stage *)
(* does not exist ("typo").                                                   *)
AllServices == {"gps", "fsck", "log", "early", "net", "typo"}
AllStage == [s \in AllServices |-> CASE s = "typo" -> 0 [] s = "net" -> 2 [] OTHER -> 1]
AllKind == [s \in AllServices |-> IF s \in {"fsck", "early"} THEN "oneshot" ELSE "daemon"]
AllDepends ==
    "gps" :> {"fsck"} @@ "fsck" :> {} @@ "log" :> {"gps", "nosuch"}
        @@ "early" :> {"net"} @@ "net" :> {"fsck", "gps"} @@ "typo" :> {}
AllRestart == [s \in AllServices |-> s \in {"gps", "fsck"}]
AllGuarded == [s \in AllServices |-> s \in {"gps", "fsck"}]
=============================================================================

------------------------------- MODULE MCUdevd -------------------------------
(* Devices and drivers on which TLC checks Udevd: one that is there and one     *)
(* that comes and goes, whose drivers share a module (core), which is the last  *)
(* that one of them needs.                                                    *)
EXTENDS Udevd, TLC

MCModules == {"wifi", "mac", "core", "modem"}
MCDepends == "wifi" :> <<"mac", "core">> @@ "modem" :> <<"core">>
        @@ "mac" :> <<>> @@ "core" :> <<>>
MCCold == {"radio"}
MCHot == {"stick"}
MCDriver == "radio" :> "wifi" @@ "stick" :> "modem"
MCWalks == <<"walk1", "walk2">>
MCLoaders == ((MCCold \cup MCHot) \X Range(MCWalks)) \cup (MCHot \X {"plug", "unplug"})
MCWanted == [e \in MCLoaders |-> {MCDriver[e[1]]}]
=============================================================================

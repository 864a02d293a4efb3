------------------------------ MODULE Services ------------------------------
(***************************************************************************)
(* Five services of the application that share no state: the settlement    *)
(* mirror, the lifecycle of the local server, the extension bridge, the    *)
(* system log and the registry of providers. A behaviour follows one of    *)
(* them and leaves the others as they begin, which is enough for properties*)
(* that each look at one.                                                  *)
(***************************************************************************)
EXTENDS Settlement, LocalServer, WebBridge, LogPipeline, ProviderRegistry

VARIABLE active   \* the service a behaviour follows

serviceVars == <<active, settlementVars, localVars, bridgeVars, logVars, registryVars>>

Init ==
    /\ active \in {"settlement", "localServer", "webBridge", "systemLog", "registry"}
    /\ SettlementInit /\ LocalInit /\ BridgeInit /\ LogInit /\ RegistryInit
    /\ active = "registry" \/ offer = [v \in Revisions |-> CHOOSE o \in Offers : TRUE]

SettlementStep ==
    /\ active = "settlement" /\ SettlementNext
    /\ UNCHANGED <<active, localVars, bridgeVars, logVars, registryVars>>
LocalServerStep ==
    /\ active = "localServer" /\ LocalNext
    /\ UNCHANGED <<active, settlementVars, bridgeVars, logVars, registryVars>>
WebBridgeStep ==
    /\ active = "webBridge" /\ BridgeNext
    /\ UNCHANGED <<active, settlementVars, localVars, logVars, registryVars>>
LogStep ==
    /\ active = "systemLog" /\ LogNext
    /\ UNCHANGED <<active, settlementVars, localVars, bridgeVars, registryVars>>
RegistryStep ==
    /\ active = "registry" /\ RegistryNext
    /\ UNCHANGED <<active, settlementVars, localVars, bridgeVars, logVars>>

Next == SettlementStep \/ LocalServerStep \/ WebBridgeStep \/ LogStep \/ RegistryStep

Spec == Init /\ [][Next]_serviceVars
=============================================================================

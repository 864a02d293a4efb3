-------------------------- MODULE ProviderRegistry --------------------------
(***************************************************************************)
(* The snapshot of what cc-switch offers (ccswitch/provider_registry.rs),  *)
(* written by overlapping refreshes: refresh_providers of the panel, which *)
(* derives the diagnostics from it, and the refresh loop of the daemon,    *)
(* which announces its models. cc-switch is external; what it offers in    *)
(* each of its revisions is fixed at the beginning.                        *)
(***************************************************************************)
EXTENDS Naturals

CONSTANTS
    Models,
    Offers,       \* what cc-switch may be and have
    Refreshes,    \* refreshes that may overlap
    MaxRevision   \* bound: how often what cc-switch offers changes

VARIABLES
    offer,        \* what cc-switch is and has in each revision
    revision,     \* its revision
    snapshot,     \* DiscoverySnapshot: what was found
    refresh,      \* where each refresh stands
    found,        \* what build_snapshot has returned to it, later what it has read
    told,         \* what came out last: the warnings shown, or the models announced
    since         \* history: the revision when the refreshes under way began

registryVars == <<offer, revision, snapshot, refresh, found, told, since>>

ASSUME OffersAssumption ==
    /\ Offers \subseteq [status : {"unreachable", "stopped", "running"},
                        targets : SUBSET Models, configured : SUBSET Models]
    /\ MaxRevision \in Nat

Revisions == 0 .. MaxRevision
Nothing == [status |-> "unreachable", models |-> {}]

\* build_snapshot: the models of the active targets, or else of the providers that the
\* database of cc-switch has as current; nothing of an error.
SnapshotOf(o) ==
    IF o.status = "unreachable" THEN Nothing
    ELSE [status |-> o.status, models |-> IF o.targets # {} THEN o.targets ELSE o.configured]

RegistryInit ==
    /\ offer \in [Revisions -> Offers]
    /\ revision = 0
    /\ snapshot = Nothing
    /\ refresh = [r \in Refreshes |-> "idle"]
    /\ found = [r \in Refreshes |-> Nothing]
    /\ told = [warning |-> "unsaid", models |-> {}, since |-> 0]
    /\ since = 0

CcSwitchChanges ==
    /\ revision < MaxRevision
    /\ revision' = revision + 1
    /\ UNCHANGED <<offer, snapshot, refresh, found, told, since>>

----------------------------------------------------------------------------

RefreshBegins(r) ==
    /\ refresh[r] = "idle"
    /\ refresh' = [refresh EXCEPT ![r] = "asked"]
    /\ since' = IF \A s \in Refreshes : refresh[s] = "idle" THEN revision ELSE since
    /\ UNCHANGED <<offer, revision, snapshot, found, told>>

\* The status of cc-switch is there, or the request has failed.
StatusReturns(r) ==
    /\ refresh[r] = "asked"
    /\ refresh' = [refresh EXCEPT ![r] = "built"]
    /\ found' \in {[found EXCEPT ![r] = s] : s \in {SnapshotOf(offer[revision]), Nothing}}
    /\ UNCHANGED <<offer, revision, snapshot, told, since>>

\* What a refresh writes, and a faulty variant that keeps the old snapshot on an error.
WrittenUnlessDown(r) == IF found[r].status = "unreachable" THEN snapshot ELSE found[r]
Written(r) == found[r]

WriteSnapshot(r) ==
    /\ refresh[r] = "built"
    /\ refresh' = [refresh EXCEPT ![r] = "written"]
    /\ snapshot' = Written(r)
    /\ found' = [found EXCEPT ![r] = Nothing]
    /\ UNCHANGED <<offer, revision, told, since>>

\* The panel and the loop read the snapshot again after the write.
ReadSnapshot(r) ==
    /\ refresh[r] = "written"
    /\ refresh' \in {[refresh EXCEPT ![r] = next] : next \in {"panel", "loop"}}
    /\ found' = [found EXCEPT ![r] = snapshot]
    /\ UNCHANGED <<offer, revision, snapshot, told, since>>

RefreshEnds(r) ==
    /\ refresh' = [refresh EXCEPT ![r] = "idle"]
    /\ found' = [found EXCEPT ![r] = Nothing]
    /\ UNCHANGED <<offer, revision, snapshot, since>>

\* refresh_providers: the warning a snapshot gives rise to.
Diagnosis(s) ==
    IF s.status # "running" THEN s.status ELSE IF s.models = {} THEN "noProviders" ELSE "none"

ReplaceDiagnostics(r) ==
    /\ refresh[r] = "panel"
    /\ told' = [warning |-> Diagnosis(found[r]), models |-> {}, since |-> since]
    /\ RefreshEnds(r)

\* filter_models: those of the whitelist, or all when it is empty or leaves none.
FilterModels(discovered, whitelist) ==
    IF discovered \intersect whitelist = {} THEN discovered ELSE discovered \intersect whitelist

\* The refresh loop, with whatever whitelist there is: without models it announces nothing.
Announce(r) ==
    /\ refresh[r] = "loop" /\ found[r].models # {}
    /\ \E whitelist \in SUBSET Models :
            told' = [warning |-> "unsaid", since |-> since,
                     models |-> FilterModels(found[r].models, whitelist)]
    /\ RefreshEnds(r)

NothingToAnnounce(r) ==
    /\ refresh[r] = "loop" /\ found[r].models = {}
    /\ RefreshEnds(r)
    /\ UNCHANGED told

RegistryNext ==
    \/ CcSwitchChanges
    \/ \E r \in Refreshes :
        \/ RefreshBegins(r) \/ StatusReturns(r) \/ WriteSnapshot(r) \/ ReadSnapshot(r)
        \/ ReplaceDiagnostics(r) \/ Announce(r) \/ NothingToAnnounce(r)
=============================================================================

---------------------------- MODULE HostPlugins ----------------------------
(***************************************************************************)
(* The smaller plugins of the enterprise configuration, side by side in one*)
(* host: the AAR bridge, the sandbox runner, the hooks of gateway/request, *)
(* auth with permissions, policy and audit log, and the session feed.  The *)
(* five share no state, so that every behaviour of the host is five        *)
(* behaviours, each of one of them; a behaviour here is one of those:      *)
(* `scene` says whose.                                                     *)
(***************************************************************************)
EXTENDS AarBridge, SandboxRun, GatewayPlugins, Governance, SessionFeed

VARIABLE scene

Scenes == {"aar", "sandbox", "gateway", "governance", "feed"}

vars == <<scene, aarVars, sandboxVars, gatewayVars, governanceVars, feedVars>>

\* Where a scene does not play, its parameters are of no consequence.
Init ==
  /\ scene \in Scenes
  /\ AarInit /\ SandboxInit /\ GatewayInit /\ GovernanceInit /\ FeedInit
  /\ scene # "aar" => ~failOpen
  /\ scene # "sandbox" => emitter = "promise"
  /\ scene # "gateway" => \A k \in Keys : env0[k] = Absent
  /\ scene # "governance" => waterfall /\ owner = CHOOSE u \in Users : TRUE
  /\ scene # "feed" => config.migrates /\ config.realtime /\ config.files /\ config.streams /\ applied = {}

AarScene ==
  AarStep /\ UNCHANGED <<scene, sandboxVars, gatewayVars, governanceVars, feedVars>>
SandboxScene ==
  SandboxStep /\ UNCHANGED <<scene, aarVars, gatewayVars, governanceVars, feedVars>>
GatewayScene ==
  GatewayStep /\ UNCHANGED <<scene, aarVars, sandboxVars, governanceVars, feedVars>>
GovernanceScene ==
  GovernanceStep /\ UNCHANGED <<scene, aarVars, sandboxVars, gatewayVars, feedVars>>
FeedScene ==
  FeedStep /\ UNCHANGED <<scene, aarVars, sandboxVars, gatewayVars, governanceVars>>

Next ==
  \/ scene = "aar" /\ AarScene
  \/ scene = "sandbox" /\ SandboxScene
  \/ scene = "gateway" /\ GatewayScene
  \/ scene = "governance" /\ GovernanceScene
  \/ scene = "feed" /\ FeedScene

\* Timers fire: the one that aborts a request to the sidecar, and the one that looks
\* into a stream's queue.  Nothing is assumed of the sidecar, of fetch, of the
\* database or of those who call.
Timers ==
  /\ \A k \in Scorers :
       WF_vars(TimesOut(k) /\ UNCHANGED <<scene, sandboxVars, gatewayVars, governanceVars, feedVars>>)
  /\ WF_vars(Poll /\ UNCHANGED <<scene, aarVars, sandboxVars, gatewayVars, governanceVars>>)

Spec == Init /\ [][Next]_vars /\ Timers

TypeOK ==
  /\ scene \in Scenes
  /\ AarTypeOK /\ SandboxTypeOK /\ GatewayTypeOK /\ GovernanceTypeOK /\ FeedTypeOK
=============================================================================

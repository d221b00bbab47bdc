----------------------------- MODULE Governance -----------------------------
(***************************************************************************)
(* auth, dsh-permissions, dsh-policy-engine and dsh-audit-log.  A guarded  *)
(* tool call emits auth/permission-check, which the audit log mirrors and  *)
(* the permissions plugin judges before auth judges it itself; approvals   *)
(* and policy evaluations are waterfalls of their own.  Calls interleave   *)
(* at their awaits, and a resource may change hands between them.          *)
(***************************************************************************)
EXTENDS Integers, SequencesExt

CONSTANTS
  Asks,        \* concurrent calls: each a record of kind, user, roles, action, ev
  Users,
  MaxEntries   \* bound: entries of the log

\* A policy is evaluated, never approved.
ASSUME GovernanceAssumption ==
  MaxEntries \in Nat /\ \A a \in Asks : a.kind = "policy" => a.action # "approve"

VARIABLES
  waterfall,  \* ctx.waterfall exists; otherwise the check is emitted without one
  owner,      \* the owner of the resource, an object the log's payloads refer to
  ask,        \* ask[a]: the stage of call a and, while it waits, what was found
  entries,    \* AuditStore.entries
  granted,    \* history: approvals and checks that went through, with the owner then
  mirrored    \* history: events that were mirrored

governanceVars == <<waterfall, owner, ask, entries, granted, mirrored>>

Genesis == <<>>

GovernanceInit ==
  /\ waterfall \in BOOLEAN
  /\ owner \in Users
  /\ ask = [a \in Asks |-> [stage |-> "idle", allowed |-> FALSE]]
  /\ entries = <<>> /\ granted = {} /\ mirrored = 0

----------------------------------------------------------------------------
(* AuditStore.  A payload is stored by reference and hashed by value: the   *)
(* entry of a permission check refers to the resource.  Its hash stands for *)
(* everything the entry says, hash collisions are left out.                 *)

Refers(a) == a.kind # "policy"

\* What is hashed: position, call, previous hash, and the owner it then has.
Hash(seq, a, prevHash) == <<seq, a, prevHash, IF Refers(a) THEN owner ELSE "none">>

LastHash == IF entries = <<>> THEN Genesis ELSE Last(entries).hash

\* Mutant: an entry is chained to the genesis hash.
Unchained(a) ==
  /\ entries' = Append(entries, [payload |-> a, prevHash |-> Genesis,
                                 hash |-> Hash(Len(entries), a, Genesis)])
  /\ mirrored' = mirrored + 1

Mirror(a) ==
  /\ entries' = Append(entries, [payload |-> a, prevHash |-> LastHash,
                                 hash |-> Hash(Len(entries), a, LastHash)])
  /\ mirrored' = mirrored + 1

VerifyChain ==
  \A i \in DOMAIN entries :
    /\ entries[i].hash = Hash(i - 1, entries[i].payload, entries[i].prevHash)
    /\ entries[i].prevHash = IF i = 1 THEN Genesis ELSE entries[i - 1].hash

----------------------------------------------------------------------------
(* The two permission checks. *)

\* dsh-permissions.
Permitted(a) ==
  \/ a.roles \cap {"org:admin", "audit"} # {}
  \/ /\ a.action = "approve" => owner # a.user /\ "risk" \in a.roles
     /\ a.roles # {}

\* auth.
CheckPermission(a) ==
  \/ "org:admin" \in a.roles \/ "audit" \in a.roles
  \/ /\ ~(a.action = "approve" /\ owner = a.user)
     /\ ~(a.action = "approve" /\ "risk" \notin a.roles /\ "audit" \notin a.roles)
     /\ a.roles # {}

\* dsh-policy-engine: a region or a model that must not be left, or too small a phi.
EvaluatePolicy(ev) ==
  LET denied == /\ ev.egress = "deny"
                /\ \/ ev.region = "elsewhere"
                   \/ ev.model = "remote"
                   \/ ev.model = "none" /\ (ev.airgapped \/ ev.region # "none") /\ ev.attempt
  IN ~denied /\ ~ev.phiBelow

----------------------------------------------------------------------------
(* Calls. *)

Turns(a, stage) == ask' = [ask EXCEPT ![a].stage = stage]

\* The call's first event, up to its first await: it is mirrored, and judged by
\* the first plugin that does.  Without a waterfall the listeners are called
\* without a next, and what they throw reaches nobody.
Ask(a) ==
  /\ ask[a].stage = "idle"
  /\ ask' = [ask EXCEPT ![a] =
       [stage |-> "asked",
        allowed |-> IF a.kind = "policy" THEN EvaluatePolicy(a.ev)
                    ELSE IF a.kind = "guard" /\ ~waterfall THEN TRUE ELSE Permitted(a)]]
  /\ IF a.kind = "approval" THEN UNCHANGED <<entries, mirrored>>
     ELSE Len(entries) < MaxEntries /\ Mirror(a)
  /\ UNCHANGED <<waterfall, owner, granted>>

Refuse(a) ==
  /\ ask[a].stage = "asked" /\ ~ask[a].allowed
  /\ Turns(a, "refused")
  /\ UNCHANGED <<waterfall, owner, entries, granted, mirrored>>

Granted(a, ok) ==
  /\ ask[a].stage = "asked" /\ ask[a].allowed
  /\ Turns(a, IF ok THEN "granted" ELSE "refused")
  /\ granted' = IF ok THEN granted \cup {[ask |-> a, owner |-> owner]} ELSE granted
  /\ UNCHANGED <<waterfall, owner, entries, mirrored>>

\* Mutant: what the waterfall found is taken for good.
TrustWaterfall(a) == a.kind = "guard" /\ Granted(a, TRUE)

\* tools.guard goes on: auth checks again, on what the resource is now.
Guarded(a) == a.kind = "guard" /\ Granted(a, CheckPermission(a))

\* auth/approve goes on: whoever owns the resource may not approve it, not even
\* an admin.  (The test for a duplicate approver after that can never be met.)
Approved(a) == a.kind = "approval" /\ Granted(a, owner # a.user)

\* policy/evaluate goes on: enforceRegion is asked, but what it throws is ignored.
Evaluated(a) == a.kind = "policy" /\ Granted(a, TRUE)

\* The resource changes hands.
Transfer(u) ==
  /\ u # owner /\ owner' = u
  /\ UNCHANGED <<waterfall, ask, entries, granted, mirrored>>

GovernanceStep ==
  \/ \E a \in Asks : Ask(a) \/ Refuse(a) \/ Guarded(a) \/ Approved(a) \/ Evaluated(a)
  \/ \E u \in Users : Transfer(u)

----------------------------------------------------------------------------
GovernanceTypeOK ==
  /\ waterfall \in BOOLEAN /\ owner \in Users
  /\ \A a \in Asks : ask[a].stage \in {"idle", "asked", "refused", "granted"}
  /\ Len(entries) <= MaxEntries

\* Nobody gets past auth or 4-eyes on a permission the resource's owner at that
\* moment does not leave them, in either wiring and whatever changed since the
\* first check: no approval of what is one's own, through auth/approve by anybody.
OwnersDoNotApprove ==
  \A g \in granted :
    g.owner = g.ask.user /\ g.ask.action = "approve" =>
      g.ask.kind = "guard" /\ g.ask.roles \cap {"org:admin", "audit"} # {}

\* The log verifies exactly as long as every object it refers to is what it was
\* when it was mirrored, and it tells of every check and evaluation before it is
\* decided; of approvals, and of the watchtower's receipts, it tells nothing.
TrailIsTrue ==
  /\ VerifyChain <=> \A i \in DOMAIN entries :
                       Refers(entries[i].payload) => entries[i].hash[4] = owner
  /\ Len(entries) = mirrored
  /\ \A a \in Asks : (\E i \in DOMAIN entries : entries[i].payload = a)
                        <=> (a.kind # "approval" /\ ask[a].stage # "idle")
=============================================================================

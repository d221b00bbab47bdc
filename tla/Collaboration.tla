--------------------------- MODULE Collaboration ---------------------------
(***************************************************************************)
(* One shared session of the collaboration service                         *)
(* (packages/session/session-collaboration/src): the collaborator rows in  *)
(* PostgreSQL, the presence keys and the member set in Redis, and the      *)
(* cursor connection of the process.  A call of the service is a sequence  *)
(* of awaited statements against those three stores; nothing holds a lock  *)
(* or a transaction across them, so calls interleave between any two of    *)
(* their statements, each statement may be rejected, and the process may   *)
(* stop.  Watchers and the delivery of events are left out, and presence   *)
(* is live or not: what it says (idle, a cursor) is data.                  *)
(***************************************************************************)
EXTENDS Naturals

CONSTANTS Users,        \* the users that call the service
          Creator,      \* the user named by the session/created event
          Requests,     \* calls that may be in flight together
          JoinPerms,    \* the permission lists a join may ask for
          MaxCalls,     \* bound: calls started
          None          \* no row, no user, no call

ASSUME UsersAssumption == Creator \in Users /\ None \notin Users

Permissions == {"read", "write", "admin", "owner"}

Row == [perms : SUBSET Permissions, isOwner : BOOLEAN]

ASSUME CallsAssumption ==
  JoinPerms \subseteq SUBSET Permissions /\ None \notin Row /\ MaxCalls \in Nat

VARIABLES
  rows,       \* session_collaborators: user -> row, or None
  live,       \* users whose presence key has not expired
  members,    \* dsh:session:collaborators:{sessionId}
  localUser,  \* the user the cursor connection speaks for, or None
  call,       \* calls in flight: request -> what it does and its next statement
  started,    \* calls started so far
  created,    \* session/created has been emitted
  history     \* what happened to each user and to the ownership

vars == <<rows, live, members, localUser, call, started, created, history>>

stores == <<rows, live, members, localUser>>

-----------------------------------------------------------------------------
(* Calls.  at names the next awaited statement; a call that ends, by       *)
(* returning or by an exception, leaves call.                              *)

Call(kind, user, to, perms, at) ==
  [kind |-> kind, user |-> user, to |-> to, perms |-> perms, at |-> at]

Kinds == {"create", "join", "leave", "handoff", "presence"}

Points == {"find", "update", "upsert", "setex", "sadd", "cursor", "del",
           "srem", "disconnect", "delete", "findTo", "demote", "promote"}

Calls == [kind : Kinds, user : Users, to : Users \cup {None},
          perms : SUBSET Permissions, at : Points]

\* None stands for a call that is not there, and for no call yet of a kind.
ASSUME NoCallAssumption == None \notin Calls /\ None \notin Kinds

InFlight == {p \in Requests : call[p] # None}

Owners == {u \in Users : rows[u] # None /\ "owner" \in rows[u].perms}

OnUser(u) == {p \in InFlight : call[p].kind # "handoff" /\ call[p].user = u}

HandingOff == {p \in InFlight : call[p].kind = "handoff"}

(* Bookkeeping of the properties: the users two of whose calls overlapped  *)
(* or one of whose calls was cut short, the last call of each user that    *)
(* returned, and how the ownership may have gone astray.                   *)
Starting(c) ==
  [history EXCEPT
     !.untidy = IF c.kind # "handoff" /\ OnUser(c.user) # {}
                THEN @ \cup {c.user} ELSE @,
     !.last = IF c.kind = "handoff" THEN @ ELSE [@ EXCEPT ![c.user] = None],
     !.lapses = @ \cup
       {x \in {"rivals", "claim", "overlap", "ownerCalls"} :
          \/ x = "rivals" /\ c.kind = "handoff" /\ HandingOff # {}
          \/ x = "claim" /\ c.kind = "join" /\ "owner" \in c.perms
          \/ x = "overlap" /\ InFlight # {}
          \/ x = "ownerCalls" /\ c.kind \in {"join", "leave"}
                              /\ c.user \in Owners \cup {Creator}}]

Aborting(P) ==
  [history EXCEPT
     !.untidy = @ \cup {call[p].user : p \in {q \in P : call[q].kind # "handoff"}},
     !.lapses = @ \cup {x \in {"abort"} : P # {}}]

Returning(p) ==
  IF call[p].kind = "handoff" THEN history
  ELSE [history EXCEPT !.last[call[p].user] = call[p].kind]

Begin(c) ==
  \E p \in Requests :
    /\ call[p] = None
    /\ started < MaxCalls
    /\ started' = started + 1
    /\ call' = [call EXCEPT ![p] = c]
    /\ history' = Starting(c)
    /\ UNCHANGED stores

Proceed(p, at) ==
  /\ call' = [call EXCEPT ![p].at = at]
  /\ UNCHANGED <<started, created, history>>

Return(p) ==
  /\ call' = [call EXCEPT ![p] = None]
  /\ history' = Returning(p)
  /\ UNCHANGED <<started, created>>

At(p, at) == call[p] # None /\ call[p].at = at

-----------------------------------------------------------------------------
(* The statements on session_collaborators.                                *)

\* addCollaboratorToDb: INSERT ... ON CONFLICT DO UPDATE
AddCollaborator(u, perms, isOwner) ==
  rows' = [rows EXCEPT ![u] = [perms |-> perms, isOwner |-> isOwner]]

\* Mutant: SET permissions = $1, and is_owner left as it was.
UpdatePermissionsKeepsFlag(u, perms) ==
  rows' = IF rows[u] = None THEN rows
          ELSE [rows EXCEPT ![u] = [perms |-> perms, isOwner |-> rows[u].isOwner]]

\* updateCollaboratorPermissions: no row, no effect
UpdatePermissions(u, perms) ==
  rows' = IF rows[u] = None THEN rows
          ELSE [rows EXCEPT ![u] = [perms |-> perms, isOwner |-> "owner" \in perms]]

\* removeCollaboratorFromDb
RemoveCollaborator(u) == rows' = [rows EXCEPT ![u] = None]

(* The statements on Redis: setPresence is SETEX then SADD, removePresence *)
(* is DEL then SREM.  The PUBLISH that follows changes no state.           *)
Setex(u) == live' = live \cup {u}
Sadd(u)  == members' = members \cup {u}
Del(u)   == live' = live \ {u}

\* Mutant: removePresence deletes the key only.
SremSkipped(u) == UNCHANGED members

Srem(u) == members' = members \ {u}

\* initializeSession: the first user to join speaks for the process
InitializeSession(u) ==
  localUser' = IF localUser = None THEN u ELSE localUser

\* disconnectSession: whoever leaves, the connection of the session goes
DisconnectSession == localUser' = None

-----------------------------------------------------------------------------
(* session/created: the creator's row.                                     *)

HandleSessionCreated ==
  /\ ~created
  /\ created' = TRUE
  /\ Begin(Call("create", Creator, None, {"owner"}, "upsert"))

(* join: read the row, then update it, add it or leave it alone; then      *)
(* presence, then the cursors.                                             *)

Join ==
  /\ \E u \in Users, perms \in JoinPerms :
       Begin(Call("join", u, None, perms, "find"))
  /\ UNCHANGED created

JoinFind(p) ==
  /\ At(p, "find") /\ call[p].kind = "join"
  /\ LET row == rows[call[p].user] IN
       Proceed(p, IF row = None THEN "upsert"
                  ELSE IF row.perms # call[p].perms THEN "update" ELSE "setex")
  /\ UNCHANGED stores

JoinUpdate(p) ==
  /\ At(p, "update")
  /\ UpdatePermissions(call[p].user, call[p].perms)
  /\ Proceed(p, "setex")
  /\ UNCHANGED <<live, members, localUser>>

Upsert(p) ==
  /\ At(p, "upsert")
  /\ AddCollaborator(call[p].user, call[p].perms, call[p].kind = "create")
  /\ IF call[p].kind = "create" THEN Return(p) ELSE Proceed(p, "setex")
  /\ UNCHANGED <<live, members, localUser>>

SetexStep(p) ==
  /\ At(p, "setex")
  /\ Setex(call[p].user)
  /\ Proceed(p, "sadd")
  /\ UNCHANGED <<rows, members, localUser>>

SaddStep(p) ==
  /\ At(p, "sadd")
  /\ Sadd(call[p].user)
  /\ IF call[p].kind = "join" THEN Proceed(p, "cursor") ELSE Return(p)
  /\ UNCHANGED <<rows, live, localUser>>

JoinCursor(p) ==
  /\ At(p, "cursor")
  /\ InitializeSession(call[p].user)
  /\ Return(p)
  /\ UNCHANGED <<rows, live, members>>

(* setPresence asks nothing about membership.                              *)
SetPresence ==
  /\ \E u \in Users : Begin(Call("presence", u, None, {}, "setex"))
  /\ UNCHANGED created

(* leave: presence, cursors, then the row.                                 *)

Leave ==
  /\ \E u \in Users : Begin(Call("leave", u, None, {}, "del"))
  /\ UNCHANGED created

LeaveDel(p) ==
  /\ At(p, "del")
  /\ Del(call[p].user)
  /\ Proceed(p, "srem")
  /\ UNCHANGED <<rows, members, localUser>>

LeaveSrem(p) ==
  /\ At(p, "srem")
  /\ Srem(call[p].user)
  /\ Proceed(p, "disconnect")
  /\ UNCHANGED <<rows, live, localUser>>

LeaveDisconnect(p) ==
  /\ At(p, "disconnect")
  /\ DisconnectSession
  /\ Proceed(p, "delete")
  /\ UNCHANGED <<rows, live, members>>

LeaveDelete(p) ==
  /\ At(p, "delete")
  /\ RemoveCollaborator(call[p].user)
  /\ Return(p)
  /\ UNCHANGED <<live, members, localUser>>

(* handoff: two reads, then two updates, and no transaction around them.   *)

Handoff ==
  /\ \E from, to \in Users : Begin(Call("handoff", from, to, {}, "find"))
  /\ UNCHANGED created

\* Mutant: the caller's permission is not checked.
HandoffFindUnchecked(p) ==
  /\ At(p, "find") /\ call[p].kind = "handoff"
  /\ Proceed(p, "findTo")
  /\ UNCHANGED stores

HandoffFind(p) ==
  /\ At(p, "find") /\ call[p].kind = "handoff"
  /\ IF call[p].user \in Owners THEN Proceed(p, "findTo") ELSE Return(p)
  /\ UNCHANGED stores

\* Mutant: the target's row is not checked.
HandoffFindToUnchecked(p) ==
  /\ At(p, "findTo")
  /\ Proceed(p, "demote")
  /\ UNCHANGED stores

HandoffFindTo(p) ==
  /\ At(p, "findTo")
  /\ IF rows[call[p].to] # None THEN Proceed(p, "demote") ELSE Return(p)
  /\ UNCHANGED stores

\* Mutant: a permission the hierarchy does not know.
HandoffDemoteUnknown(p) ==
  /\ At(p, "demote")
  /\ UpdatePermissions(call[p].user, {"read", "write", "administer"})
  /\ Proceed(p, "promote")
  /\ UNCHANGED <<live, members, localUser>>

HandoffDemote(p) ==
  /\ At(p, "demote")
  /\ UpdatePermissions(call[p].user, {"read", "write", "admin"})
  /\ Proceed(p, "promote")
  /\ UNCHANGED <<live, members, localUser>>

HandoffPromote(p) ==
  /\ At(p, "promote")
  /\ UpdatePermissions(call[p].to, {"owner"})
  /\ Return(p)
  /\ UNCHANGED <<live, members, localUser>>

-----------------------------------------------------------------------------
(* The environment.                                                        *)

\* presenceTtl passes; the member set has no expiry
Expire ==
  /\ \E u \in live : live' = live \ {u}
  /\ UNCHANGED <<rows, members, localUser, call, started, created, history>>

\* a statement is rejected and the exception leaves the call
Rejected(p) ==
  /\ call[p] # None
  /\ call' = [call EXCEPT ![p] = None]
  /\ history' = Aborting({p})
  /\ UNCHANGED <<stores, started, created>>

\* the process stops: its calls and its cursor connection go
Crash ==
  /\ InFlight # {}
  /\ call' = [p \in Requests |-> None]
  /\ localUser' = None
  /\ history' = Aborting(InFlight)
  /\ UNCHANGED <<rows, live, members, started, created>>

Init ==
  /\ rows = [u \in Users |-> None]
  /\ live = {}
  /\ members = {}
  /\ localUser = None
  /\ call = [p \in Requests |-> None]
  /\ started = 0
  /\ created = FALSE
  /\ history = [untidy |-> {}, last |-> [u \in Users |-> None], lapses |-> {}]

Statement(p) ==
  \/ JoinFind(p) \/ JoinUpdate(p) \/ Upsert(p) \/ SetexStep(p) \/ SaddStep(p)
  \/ JoinCursor(p) \/ LeaveDel(p) \/ LeaveSrem(p) \/ LeaveDisconnect(p)
  \/ LeaveDelete(p) \/ HandoffFind(p) \/ HandoffFindTo(p) \/ HandoffDemote(p)
  \/ HandoffPromote(p)

Next ==
  \/ HandleSessionCreated \/ Join \/ SetPresence \/ Leave \/ Handoff
  \/ \E p \in Requests : Statement(p) \/ Rejected(p)
  \/ Expire \/ Crash

Spec == Init /\ [][Next]_vars
-----------------------------------------------------------------------------
(* Types: the values the statements above can leave in each store.         *)

TypeOK ==
  /\ rows \in [Users -> Row \cup {None}]
  /\ live \subseteq Users
  /\ members \subseteq Users
  /\ localUser \in Users \cup {None}
  /\ call \in [Requests -> Calls \cup {None}]
  /\ started \in 0..MaxCalls
  /\ created \in BOOLEAN
  /\ history \in [untidy : SUBSET Users,
                  last : [Users -> Kinds \cup {None}],
                  lapses : SUBSET {"rivals", "claim", "overlap", "ownerCalls", "abort"}]

(* The is_owner column never says more than the permission list: whatever  *)
(* the interleaving of upserts and updates, a row flagged as the owner's   *)
(* has the permission getSessionHeader and handoff look for.               *)
OwnerFlagBacked ==
  \A u \in Users : rows[u] # None /\ rows[u].isOwner => "owner" \in rows[u].perms

(* handoff moves the ownership and never multiplies it, as long as no two  *)
(* handoffs overlap and nobody joins with the owner permission: whatever   *)
(* joins, leaves, rejections and crashes fall between its statements, at   *)
(* most one collaborator is the owner.                                     *)
SerialHandoffsKeepOneOwner ==
  history.lapses \cap {"rivals", "claim"} = {} =>
    \A u, v \in Owners : u = v

(* Calls that never overlap, none of them cut short, lose no ownership     *)
(* either: unless the owner left or joined again, a session whose creation *)
(* was handled has exactly one owner whenever no call is in flight.        *)
SerialCallsKeepTheOwner ==
  created /\ InFlight = {} /\ history.lapses = {} => \E u \in Users : Owners = {u}

(* The four stores agree on a user whose calls neither overlapped nor      *)
(* were cut short, when none is in flight: after join there is a row and   *)
(* getAllPresences will ask for the user; after leave there is no row, no  *)
(* presence, no membership, and no cursor connection that speaks for the   *)
(* user; a live presence is always one that getAllPresences finds.         *)
TidyUsersAgree ==
  \A u \in Users \ history.untidy :
    OnUser(u) = {} =>
      /\ u \in live => u \in members
      /\ history.last[u] = "join" => rows[u] # None /\ u \in members
      /\ history.last[u] = "leave" =>
           rows[u] = None /\ u \notin live /\ u \notin members /\ localUser # u

(* What the service's header and its handoff check take for granted        *)
(* (SessionCollaborationHeader has one ownerId; "Verify fromUserId is      *)
(* current owner"): a session never has two owners.                        *)
AtMostOneOwner == \A u, v \in Owners : u = v
=============================================================================

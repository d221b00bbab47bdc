------------------------ MODULE CollaborationProofs ------------------------
(***************************************************************************)
(* Proofs about one shared session: the types, the two columns that name   *)
(* an owner, the one owner that handoffs which do not overlap keep, with   *)
(* the one that calls which do not overlap keep, and what the stores say   *)
(* of a user whose calls were neither overlapped nor cut short.            *)
(***************************************************************************)
EXTENDS Collaboration, TLAPS

-----------------------------------------------------------------------------
(* The inductive invariant.                                                *)

(* What a call is tells what its next statement can be.                    *)
Shape(c) ==
  \/ c.kind = "create" /\ c.at = "upsert" /\ "owner" \in c.perms
  \/ c.kind = "join" /\ c.at \in {"find", "update", "upsert", "setex", "sadd", "cursor"}
  \/ c.kind = "presence" /\ c.at \in {"setex", "sadd"}
  \/ c.kind = "leave" /\ c.at \in {"del", "srem", "disconnect", "delete"}
  \/ c.kind = "handoff" /\ c.at \in {"find", "findTo", "demote", "promote"} /\ c.to \in Users

CallShape == \A p \in InFlight : Shape(call[p])

Creations == {p \in InFlight : call[p].kind = "create"}

(* session/created is handled once.                                        *)
OneCreation ==
  /\ Creations # {} => created
  /\ \A p, q \in Creations : p = q

Serial == "rivals" \notin history.lapses /\ "claim" \notin history.lapses

OneHandoff == \A p, q \in HandingOff : p = q

NoClaim == \A p \in InFlight : call[p].kind = "join" => "owner" \notin call[p].perms

(* Until the creator's row is written nobody owns the session, so no       *)
(* handoff passes its first check.                                         *)
UnownedBefore ==
  (~created \/ Creations # {}) =>
    Owners = {} /\ \A p \in HandingOff : call[p].at = "find"

SingleOwner == \A u, v \in Owners : u = v

(* A handoff past its check holds the only ownership there is; between its *)
(* two updates there is none.                                              *)
Mover ==
  \A p \in HandingOff :
    /\ call[p].at \in {"findTo", "demote"} => Owners \subseteq {call[p].user}
    /\ call[p].at = "promote" => Owners = {}

SerialInv == Serial => OneHandoff /\ NoClaim /\ UnownedBefore /\ SingleOwner /\ Mover

IInv == TypeOK /\ CallShape /\ OneCreation /\ OwnerFlagBacked /\ SerialInv

-----------------------------------------------------------------------------
(* Every initial state satisfies the invariant.                            *)
THEOREM InitIInv == Init => IInv
<1> SUFFICES ASSUME Init PROVE IInv
  OBVIOUS
<1>1. TypeOK
  <2>1. created \in BOOLEAN
    BY Zenon DEF Init
  <2>2. history \in [untidy : SUBSET Users, last : [Users -> Kinds \cup {None}],
                     lapses : SUBSET {"rivals", "claim", "overlap", "ownerCalls", "abort"}]
    BY DEF Init
  <2> QED BY <2>1, <2>2, CallsAssumption DEF Init, TypeOK
<1>2. InFlight = {} /\ Owners = {} /\ ~created
  BY DEF Init, InFlight, Owners
<1>3. CallShape /\ OneCreation /\ SerialInv
  BY <1>2 DEF CallShape, OneCreation, Creations, SerialInv, OneHandoff, NoClaim,
              UnownedBefore, SingleOwner, Mover, HandingOff
<1>4. OwnerFlagBacked
  BY DEF Init, OwnerFlagBacked
<1> QED BY <1>1, <1>3, <1>4 DEF IInv

(* A call that starts has the first statement of its kind, and keeps every *)
(* store as it was.                                                        *)
LEMMA BeginKeeps ==
  ASSUME IInv, NEW c \in Calls, Shape(c), Begin(c),
         \/ c.kind = "create" /\ ~created /\ created'
         \/ c.kind # "create" /\ UNCHANGED created,
         c.at \notin {"findTo", "demote", "promote"}
  PROVE  IInv'
<1> USE DEF IInv, Begin, stores
<1>1. PICK p \in Requests :
        /\ call[p] = None
        /\ started < MaxCalls
        /\ started' = started + 1
        /\ call' = [call EXCEPT ![p] = c]
        /\ history' = Starting(c)
        /\ UNCHANGED stores
  OBVIOUS
<1>2. history' \in [untidy : SUBSET Users, last : [Users -> Kinds \cup {None}],
                    lapses : SUBSET {"rivals", "claim", "overlap", "ownerCalls", "abort"}]
  BY <1>1 DEF Starting, TypeOK, Calls
<1>3. TypeOK'
  <2>1. created' \in BOOLEAN
    BY Zenon DEF TypeOK
  <2>2. started' \in 0..MaxCalls
    BY <1>1, CallsAssumption DEF TypeOK
  <2>3. call' \in [Requests -> Calls \cup {None}]
    BY <1>1 DEF TypeOK
  <2> QED BY <1>1, <1>2, <2>1, <2>2, <2>3 DEF TypeOK
<1>4. /\ InFlight' \subseteq InFlight \cup {p}
      /\ p \notin InFlight
      /\ \A q \in InFlight : q \in Requests /\ q # p /\ call'[q] = call[q]
      /\ call'[p] = c
      /\ Owners' = Owners
  BY <1>1 DEF InFlight, Owners, TypeOK
<1>5. CallShape'
  BY <1>4 DEF CallShape
<1>6. OneCreation'
  BY <1>4 DEF OneCreation, Creations
<1>7. OwnerFlagBacked'
  BY <1>1 DEF OwnerFlagBacked
<1>8. SerialInv'
  <2> SUFFICES ASSUME Serial' PROVE (OneHandoff /\ NoClaim /\ UnownedBefore /\ SingleOwner /\ Mover)'
    BY DEF SerialInv
  <2>1. /\ Serial
        /\ c.kind = "handoff" => HandingOff = {}
        /\ c.kind = "join" => "owner" \notin c.perms
    BY <1>1 DEF Serial, Starting, TypeOK
  <2>2. OneHandoff /\ NoClaim /\ UnownedBefore /\ SingleOwner /\ Mover
    BY <2>1 DEF SerialInv
  <2>3. OneHandoff'
    BY <2>1, <2>2, <1>4 DEF OneHandoff, HandingOff
  <2>4. NoClaim'
    BY <2>1, <2>2, <1>4 DEF NoClaim
  <2>5. UnownedBefore'
    BY <2>2, <1>4 DEF UnownedBefore, HandingOff, Creations, Shape
  <2>6. SingleOwner'
    BY <2>2, <1>4 DEF SingleOwner
  <2>7. Mover'
    BY <2>2, <1>4 DEF Mover, HandingOff
  <2> QED BY <2>3, <2>4, <2>5, <2>6, <2>7
<1> QED BY <1>3, <1>5, <1>6, <1>7, <1>8

Histories == [untidy : SUBSET Users, last : [Users -> Kinds \cup {None}],
              lapses : SUBSET {"rivals", "claim", "overlap", "ownerCalls", "abort"}]

(* Call p ends, or goes on to another statement of its kind.               *)
Moves(p) ==
  \/ call' = [call EXCEPT ![p] = None]
  \/ \E at \in Points : /\ Shape([call[p] EXCEPT !.at = at])
                        /\ call' = [call EXCEPT ![p].at = at]

(* What the stores hold after a statement has their types.                 *)
TypedStores ==
  /\ rows' \in [Users -> Row \cup {None}]
  /\ live' \subseteq Users
  /\ members' \subseteq Users
  /\ localUser' \in Users \cup {None}

(* The history after a statement has its type, and only loses seriality.   *)
LEMMA HistoryKeeps ==
  ASSUME TypeOK, NEW p \in InFlight,
         history' \in {history, Returning(p), Aborting({p}), Aborting(InFlight)}
  PROVE  history' \in Histories /\ (Serial' => Serial)
<1>1. \A q \in InFlight : call[q] \in Calls
  BY DEF TypeOK, InFlight
<1>2. history \in Histories
  BY DEF TypeOK, Histories
<1>3. CASE history' = history
  BY <1>2, <1>3 DEF Serial
<1>4. CASE history' = Returning(p)
  BY <1>1, <1>2, <1>4 DEF Serial, Returning, Histories, Calls
<1>5. ASSUME NEW P \in SUBSET InFlight, history' = Aborting(P)
      PROVE  history' \in Histories /\ (Serial' => Serial)
  <2>1. {call[q].user : q \in {r \in P : call[r].kind # "handoff"}} \subseteq Users
    BY <1>1 DEF Calls
  <2>2. {x \in {"abort"} : P # {}} \subseteq {"abort"}
    OBVIOUS
  <2> QED BY <2>1, <2>2, <1>2, <1>5 DEF Serial, Aborting, Histories
<1>6. {p} \in SUBSET InFlight /\ InFlight \in SUBSET InFlight
  OBVIOUS
<1> QED BY <1>3, <1>4, <1>5, <1>6

(* What every statement of a call keeps, whatever it writes.               *)
LEMMA MoveKeeps ==
  ASSUME IInv, NEW p \in InFlight, Moves(p), TypedStores,
         UNCHANGED <<started, created>>, history' \in Histories
  PROVE  /\ TypeOK' /\ CallShape' /\ OneCreation'
         /\ InFlight' \subseteq InFlight
         /\ \A q \in InFlight' : /\ call'[q].kind = call[q].kind
                                 /\ call'[q].user = call[q].user
                                 /\ call'[q].perms = call[q].perms
                                 /\ q # p => call'[q] = call[q]
<1> USE DEF IInv
<1>1. p \in Requests /\ call \in [Requests -> Calls \cup {None}] /\ call[p] \in Calls
  BY DEF InFlight, TypeOK
<1>2. CASE call' = [call EXCEPT ![p] = None]
  <2>1. /\ call' \in [Requests -> Calls \cup {None}]
        /\ InFlight' \subseteq InFlight
        /\ \A q \in InFlight' : call'[q] = call[q]
    BY <1>1, <1>2 DEF InFlight
  <2> QED BY <2>1 DEF TypeOK, TypedStores, Histories, CallShape, OneCreation, Creations
<1>3. ASSUME NEW at \in Points, Shape([call[p] EXCEPT !.at = at]),
             call' = [call EXCEPT ![p].at = at]
      PROVE  /\ TypeOK' /\ CallShape' /\ OneCreation'
             /\ InFlight' \subseteq InFlight
             /\ \A q \in InFlight' : /\ call'[q].kind = call[q].kind
                                     /\ call'[q].user = call[q].user
                                     /\ call'[q].perms = call[q].perms
                                     /\ q # p => call'[q] = call[q]
  <2> DEFINE c == [call[p] EXCEPT !.at = at]
  <2>1. c \in Calls /\ c.kind = call[p].kind /\ c.user = call[p].user /\ c.perms = call[p].perms
    BY <1>1 DEF Calls
  <2>2. call' = [call EXCEPT ![p] = c]
    BY <1>1, <1>3
  <2>3. Shape(c)
    BY <1>3
  <2> HIDE DEF c
  <2>4. /\ call' \in [Requests -> Calls \cup {None}]
        /\ InFlight' \subseteq InFlight
        /\ \A q \in InFlight' : q # p => call'[q] = call[q]
        /\ call'[p] = c
    BY <1>1, <2>1, <2>2 DEF InFlight
  <2>5. \A q \in InFlight' : /\ call'[q].kind = call[q].kind
                             /\ call'[q].user = call[q].user
                             /\ call'[q].perms = call[q].perms
    BY <2>1, <2>4
  <2>6. CallShape'
    BY <2>3, <2>4 DEF CallShape
  <2>7. OneCreation'
    BY <2>4, <2>5 DEF OneCreation, Creations
  <2>8. TypeOK'
    BY <2>4 DEF TypeOK, TypedStores, Histories
  <2> QED BY <2>4, <2>5, <2>6, <2>7, <2>8
<1> QED BY <1>2, <1>3 DEF Moves

(* A statement outside handoff and creation never makes an owner, so the   *)
(* invariant survives it.                                                  *)
LEMMA ShrinkKeeps ==
  ASSUME IInv, NEW p \in InFlight, Moves(p), TypedStores,
         UNCHANGED <<started, created>>, history' \in Histories, Serial' => Serial,
         OwnerFlagBacked', Serial => Owners' \subseteq Owners,
         p \notin HandingOff \/ call' = [call EXCEPT ![p] = None]
  PROVE  IInv'
<1>1. /\ TypeOK' /\ CallShape' /\ OneCreation'
      /\ InFlight' \subseteq InFlight
      /\ \A q \in InFlight' : /\ call'[q].kind = call[q].kind
                              /\ call'[q].user = call[q].user
                              /\ call'[q].perms = call[q].perms
                              /\ q # p => call'[q] = call[q]
  BY MoveKeeps
<1>2. \A q \in HandingOff' : q \in HandingOff /\ call'[q] = call[q]
  BY <1>1 DEF HandingOff, InFlight, IInv, TypeOK
<1>3. SerialInv'
  <2> SUFFICES ASSUME Serial' PROVE (OneHandoff /\ NoClaim /\ UnownedBefore /\ SingleOwner /\ Mover)'
    BY DEF SerialInv
  <2>1. OneHandoff /\ NoClaim /\ UnownedBefore /\ SingleOwner /\ Mover
    BY DEF SerialInv, IInv
  <2>2. Owners' \subseteq Owners
    OBVIOUS
  <2>3. OneHandoff' /\ NoClaim'
    BY <2>1, <1>1, <1>2 DEF OneHandoff, NoClaim
  <2>4. UnownedBefore'
    BY <2>1, <2>2, <1>1, <1>2 DEF UnownedBefore, Creations
  <2>5. SingleOwner' /\ Mover'
    BY <2>1, <2>2, <1>2 DEF SingleOwner, Mover
  <2> QED BY <2>3, <2>4, <2>5
<1> QED BY <1>1, <1>3 DEF IInv

(* The row that an update writes is a row.                                 *)
LEMMA UpdatedRow ==
  ASSUME NEW perms \in SUBSET Permissions
  PROVE  LET updated == [perms |-> perms, isOwner |-> "owner" \in perms] IN
         updated \in Row /\ updated.perms = perms /\ (updated.isOwner <=> "owner" \in perms)
<1> DEFINE updated == [perms |-> perms, isOwner |-> "owner" \in perms]
<1>1. CASE "owner" \in perms
  <2>1. updated = [perms |-> perms, isOwner |-> TRUE]
    BY <1>1, Zenon
  <2> QED BY <2>1, <1>1 DEF Row
<1>2. CASE "owner" \notin perms
  <2>1. ("owner" \in perms) = FALSE
    BY <1>2, SMT
  <2>2. updated = [perms |-> perms, isOwner |-> FALSE]
    BY <2>1, Zenon
  <2> QED BY <2>2, <1>2 DEF Row
<1> QED BY <1>1, <1>2

(* What the two statements that write a row do to it.                      *)
LEMMA WriteKeeps ==
  ASSUME TypeOK, OwnerFlagBacked, NEW u \in Users, NEW perms \in SUBSET Permissions,
         NEW isOwner \in BOOLEAN, isOwner => "owner" \in perms,
         \/ AddCollaborator(u, perms, isOwner)
         \/ UpdatePermissions(u, perms)
         \/ RemoveCollaborator(u)
  PROVE  /\ rows' \in [Users -> Row \cup {None}]
         /\ OwnerFlagBacked'
         /\ Owners' \subseteq Owners \cup {u}
         /\ "owner" \notin perms => Owners' \subseteq Owners \ {u}
<1> DEFINE row == [perms |-> perms, isOwner |-> isOwner]
<1> DEFINE updated == [perms |-> perms, isOwner |-> "owner" \in perms]
<1>0. rows \in [Users -> Row \cup {None}]
  BY DEF TypeOK
<1>1. CASE AddCollaborator(u, perms, isOwner)
  <2>1. row \in Row /\ row.perms = perms /\ row.isOwner = isOwner
    BY DEF Row
  <2>2. rows' = [rows EXCEPT ![u] = row]
    BY <1>1 DEF AddCollaborator
  <2> HIDE DEF row
  <2>3. rows' \in [Users -> Row \cup {None}] /\ rows'[u] = row
        /\ \A v \in Users : v # u => rows'[v] = rows[v]
    BY <1>0, <2>1, <2>2
  <2> QED BY <2>1, <2>3 DEF OwnerFlagBacked, Owners
<1>2. CASE UpdatePermissions(u, perms)
  <2>1. CASE rows[u] = None
    BY <1>0, <1>2, <2>1 DEF UpdatePermissions, OwnerFlagBacked, Owners
  <2>2. CASE rows[u] # None
    <3>1. updated \in Row /\ updated.perms = perms /\ (updated.isOwner <=> "owner" \in perms)
      BY UpdatedRow
    <3>2. rows' = [rows EXCEPT ![u] = updated]
      BY <1>2, <2>2 DEF UpdatePermissions
    <3> HIDE DEF updated
    <3>3. rows' \in [Users -> Row \cup {None}] /\ rows'[u] = updated
          /\ \A v \in Users : v # u => rows'[v] = rows[v]
      BY <1>0, <3>1, <3>2
    <3> QED BY <3>1, <3>3 DEF OwnerFlagBacked, Owners
  <2> QED BY <2>1, <2>2
<1>3. CASE RemoveCollaborator(u)
  <2>1. rows' \in [Users -> Row \cup {None}] /\ rows'[u] = None
        /\ \A v \in Users : v # u => rows'[v] = rows[v]
    BY <1>0, <1>3 DEF RemoveCollaborator
  <2> QED BY <2>1 DEF OwnerFlagBacked, Owners
<1> QED BY <1>1, <1>2, <1>3

(* The statements of a join, a leave and a setPresence keep the invariant. *)
LEMMA PlainStatement ==
  ASSUME IInv, NEW p \in Requests,
         \/ JoinFind(p) \/ JoinUpdate(p) \/ SetexStep(p) \/ SaddStep(p) \/ JoinCursor(p)
         \/ LeaveDel(p) \/ LeaveSrem(p) \/ LeaveDisconnect(p) \/ LeaveDelete(p)
         \/ (Upsert(p) /\ call[p].kind = "join")
  PROVE  IInv'
<1>1. p \in InFlight /\ Shape(call[p]) /\ call[p] \in Calls /\ call[p].kind # "handoff"
      /\ TypeOK /\ OwnerFlagBacked /\ (Serial => NoClaim)
  <2>1. p \in InFlight
    BY DEF JoinFind, JoinUpdate, SetexStep, SaddStep, JoinCursor, LeaveDel, LeaveSrem,
           LeaveDisconnect, LeaveDelete, Upsert, At, InFlight
  <2>2. Shape(call[p]) /\ call[p] \in Calls /\ TypeOK /\ OwnerFlagBacked /\ (Serial => NoClaim)
    BY <2>1 DEF IInv, CallShape, TypeOK, InFlight, SerialInv
  <2>3. call[p].kind # "handoff"
    BY <2>2 DEF JoinFind, JoinUpdate, SetexStep, SaddStep, JoinCursor, LeaveDel, LeaveSrem,
           LeaveDisconnect, LeaveDelete, Upsert, At, Shape
  <2> QED BY <2>1, <2>2, <2>3
<1>2. Moves(p)
  <2> DEFINE c(at) == [call[p] EXCEPT !.at = at]
  <2>1. \A at \in Points : c(at).kind = call[p].kind /\ c(at).at = at
    BY <1>1 DEF Calls
  <2>2. CASE JoinFind(p)
    BY <1>1, <2>1, <2>2 DEF Moves, JoinFind, Proceed, Shape, Points, At
  <2>3. CASE JoinUpdate(p) \/ SetexStep(p) \/ SaddStep(p) \/ JoinCursor(p)
             \/ (Upsert(p) /\ call[p].kind = "join")
    BY <1>1, <2>1, <2>3
    DEF Moves, JoinUpdate, SetexStep, SaddStep, JoinCursor, Upsert, Proceed, Return,
        Shape, Points, At
  <2>4. CASE LeaveDel(p) \/ LeaveSrem(p) \/ LeaveDisconnect(p) \/ LeaveDelete(p)
    BY <1>1, <2>1, <2>4
    DEF Moves, LeaveDel, LeaveSrem, LeaveDisconnect, LeaveDelete, Proceed, Return,
        Shape, Points, At
  <2> QED BY <2>2, <2>3, <2>4
<1>3. history' \in {history, Returning(p)} /\ UNCHANGED <<started, created>>
  BY DEF JoinFind, JoinUpdate, SetexStep, SaddStep, JoinCursor, LeaveDel, LeaveSrem,
         LeaveDisconnect, LeaveDelete, Upsert, Proceed, Return
<1>4. history' \in Histories /\ (Serial' => Serial)
  BY <1>1, <1>3, HistoryKeeps
<1>5. /\ rows' \in [Users -> Row \cup {None}] /\ OwnerFlagBacked'
      /\ Serial => Owners' \subseteq Owners
  <2>1. CASE rows' = rows
    BY <1>1, <2>1 DEF TypeOK, OwnerFlagBacked, Owners
  <2>2. CASE JoinUpdate(p) \/ (Upsert(p) /\ call[p].kind = "join") \/ LeaveDelete(p)
    <3>1. call[p].user \in Users /\ call[p].perms \in SUBSET Permissions
      BY <1>1 DEF Calls
    <3>2. \/ AddCollaborator(call[p].user, call[p].perms, FALSE)
          \/ UpdatePermissions(call[p].user, call[p].perms)
          \/ RemoveCollaborator(call[p].user)
      BY <2>2 DEF JoinUpdate, Upsert, LeaveDelete, AddCollaborator
    <3>3. /\ rows' \in [Users -> Row \cup {None}] /\ OwnerFlagBacked'
          /\ "owner" \notin call[p].perms => Owners' \subseteq Owners
      BY <1>1, <3>1, <3>2, WriteKeeps
    <3>4. CASE LeaveDelete(p)
      BY <3>1, <3>3, <3>4, <1>1 DEF LeaveDelete, RemoveCollaborator, Owners, TypeOK
    <3>5. CASE ~LeaveDelete(p)
      BY <1>1, <2>2, <3>3, <3>5 DEF NoClaim, JoinUpdate, Shape, At
    <3> QED BY <3>3, <3>4, <3>5
  <2> QED BY <2>1, <2>2 DEF JoinFind, SetexStep, SaddStep, JoinCursor, LeaveDel, LeaveSrem,
             LeaveDisconnect, stores
<1>6. TypedStores
  BY <1>1, <1>5 DEF TypedStores, TypeOK, Calls, JoinFind, JoinUpdate, SetexStep, SaddStep,
     JoinCursor, LeaveDel, LeaveSrem, LeaveDisconnect, LeaveDelete, Upsert, stores,
     Setex, Sadd, Del, Srem, InitializeSession, DisconnectSession
<1>7. p \notin HandingOff
  BY <1>1 DEF HandingOff
<1> QED BY <1>1, <1>2, <1>3, <1>4, <1>5, <1>6, <1>7, ShrinkKeeps

(* The creator's row: before it nobody owns the session, and no handoff is *)
(* past its first check.                                                   *)
LEMMA CreationStatement ==
  ASSUME IInv, NEW p \in Requests, Upsert(p), call[p].kind = "create"
  PROVE  IInv'
<1>1. /\ p \in InFlight /\ p \in Creations /\ call[p] \in Calls
      /\ TypeOK /\ OwnerFlagBacked /\ OneCreation /\ SerialInv
  BY DEF IInv, Upsert, At, InFlight, Creations, TypeOK
<1>2. call[p].user \in Users /\ call[p].perms \in SUBSET Permissions
      /\ "owner" \in call[p].perms
  BY <1>1 DEF Calls, IInv, CallShape, Shape
<1>3. AddCollaborator(call[p].user, call[p].perms, TRUE) /\ Return(p)
      /\ UNCHANGED <<live, members, localUser>>
  BY DEF Upsert
<1>4. rows' \in [Users -> Row \cup {None}] /\ OwnerFlagBacked'
      /\ Owners' \subseteq Owners \cup {call[p].user}
  BY <1>1, <1>2, <1>3, WriteKeeps
<1>5. Moves(p) /\ TypedStores /\ history' \in Histories /\ (Serial' => Serial)
  BY <1>1, <1>3, <1>4, HistoryKeeps DEF Moves, TypedStores, TypeOK, Return
<1>6. UNCHANGED <<started, created>>
  BY <1>3 DEF Return
<1>7. TypeOK' /\ CallShape' /\ OneCreation'
  BY <1>1, <1>5, <1>6, MoveKeeps
<1>8. /\ InFlight' \subseteq InFlight \ {p}
      /\ \A q \in InFlight' : call'[q] = call[q]
  BY <1>1, <1>3 DEF Return, InFlight, TypeOK
<1>9. SerialInv'
  <2> SUFFICES ASSUME Serial' PROVE (OneHandoff /\ NoClaim /\ UnownedBefore /\ SingleOwner /\ Mover)'
    BY DEF SerialInv
  <2>1. OneHandoff /\ NoClaim /\ UnownedBefore /\ Mover
    BY <1>1, <1>5 DEF SerialInv
  <2>2. created /\ Owners = {} /\ \A q \in HandingOff : call[q].at = "find"
    BY <1>1, <2>1 DEF UnownedBefore, OneCreation
  <2>3. Creations' = {} /\ created'
    BY <1>1, <1>6, <1>8, <2>2 DEF OneCreation, Creations
  <2>4. \A q \in HandingOff' : q \in HandingOff /\ call'[q] = call[q]
    BY <1>8 DEF HandingOff
  <2>5. OneHandoff' /\ NoClaim' /\ UnownedBefore'
    BY <1>8, <2>1, <2>3, <2>4 DEF OneHandoff, NoClaim, UnownedBefore
  <2>6. SingleOwner' /\ Mover'
    BY <1>4, <2>2, <2>4 DEF SingleOwner, Mover
  <2> QED BY <2>5, <2>6
<1> QED BY <1>4, <1>7, <1>9 DEF IInv

(* A handoff that goes on, with the ownership where Mover says it is.      *)
LEMMA HandoffStatement ==
  ASSUME IInv, NEW p \in Requests,
         HandoffFind(p) \/ HandoffFindTo(p) \/ HandoffDemote(p) \/ HandoffPromote(p)
  PROVE  IInv'
<1>1. /\ p \in InFlight /\ p \in HandingOff /\ call[p] \in Calls /\ Shape(call[p])
      /\ TypeOK /\ OwnerFlagBacked /\ SerialInv /\ call[p].kind = "handoff"
      /\ call[p].user \in Users /\ call[p].to \in Users
  <2>1. p \in InFlight
    BY DEF HandoffFind, HandoffFindTo, HandoffDemote, HandoffPromote, At, InFlight
  <2>2. Shape(call[p]) /\ call[p] \in Calls /\ TypeOK /\ OwnerFlagBacked /\ SerialInv
    BY <2>1 DEF IInv, CallShape, TypeOK, InFlight
  <2>3. call[p].kind = "handoff"
    BY <2>2 DEF HandoffFind, HandoffFindTo, HandoffDemote, HandoffPromote, At, Shape
  <2> QED BY <2>1, <2>2, <2>3 DEF HandingOff, Calls, Shape
<1>2. Moves(p)
  <2> DEFINE c(at) == [call[p] EXCEPT !.at = at]
  <2>1. \A at \in Points : /\ c(at).kind = call[p].kind /\ c(at).at = at
                           /\ c(at).to = call[p].to
    BY <1>1 DEF Calls
  <2> QED
    BY <1>1, <2>1 DEF Moves, HandoffFind, HandoffFindTo, HandoffDemote, HandoffPromote,
       Proceed, Return, Shape, Points, At
<1>3. history' \in Histories /\ (Serial' => Serial) /\ UNCHANGED <<started, created>>
  <2>1. history' \in {history, Returning(p)} /\ UNCHANGED <<started, created>>
    BY DEF HandoffFind, HandoffFindTo, HandoffDemote, HandoffPromote, Proceed, Return
  <2> QED BY <1>1, <2>1, HistoryKeeps
<1>4. /\ rows' \in [Users -> Row \cup {None}] /\ OwnerFlagBacked'
      /\ HandoffFind(p) \/ HandoffFindTo(p) => Owners' = Owners
      /\ HandoffDemote(p) => Owners' \subseteq Owners \ {call[p].user}
      /\ HandoffPromote(p) => Owners' \subseteq Owners \cup {call[p].to}
  <2>1. CASE HandoffFind(p) \/ HandoffFindTo(p)
    <3>1. rows' = rows
      BY <2>1 DEF HandoffFind, HandoffFindTo, stores
    <3>2. ~HandoffDemote(p) /\ ~HandoffPromote(p)
      BY <2>1 DEF HandoffFind, HandoffFindTo, HandoffDemote, HandoffPromote, At
    <3> QED BY <1>1, <3>1, <3>2 DEF TypeOK, OwnerFlagBacked, Owners
  <2>2. CASE HandoffDemote(p)
    <3>1. ~HandoffFind(p) /\ ~HandoffFindTo(p) /\ ~HandoffPromote(p)
      BY <2>2 DEF HandoffFind, HandoffFindTo, HandoffDemote, HandoffPromote, At
    <3>2. {"read", "write", "admin"} \in SUBSET Permissions
          /\ "owner" \notin {"read", "write", "admin"}
      BY DEF Permissions
    <3>3. UpdatePermissions(call[p].user, {"read", "write", "admin"})
      BY <2>2 DEF HandoffDemote
    <3>4. /\ rows' \in [Users -> Row \cup {None}] /\ OwnerFlagBacked'
          /\ Owners' \subseteq Owners \ {call[p].user}
      BY <1>1, <3>2, <3>3, WriteKeeps
    <3> QED BY <3>1, <3>4
  <2>3. CASE HandoffPromote(p)
    <3>1. ~HandoffFind(p) /\ ~HandoffFindTo(p) /\ ~HandoffDemote(p)
      BY <2>3 DEF HandoffFind, HandoffFindTo, HandoffDemote, HandoffPromote, At
    <3>2. {"owner"} \in SUBSET Permissions
      BY DEF Permissions
    <3>3. UpdatePermissions(call[p].to, {"owner"})
      BY <2>3 DEF HandoffPromote
    <3>4. /\ rows' \in [Users -> Row \cup {None}] /\ OwnerFlagBacked'
          /\ Owners' \subseteq Owners \cup {call[p].to}
      BY <1>1, <3>2, <3>3, WriteKeeps
    <3> QED BY <3>1, <3>4
  <2> QED BY <2>1, <2>2, <2>3
<1>5. TypedStores
  BY <1>1, <1>4 DEF TypedStores, TypeOK, HandoffFind, HandoffFindTo, HandoffDemote,
     HandoffPromote, stores
<1>6. /\ TypeOK' /\ CallShape' /\ OneCreation'
      /\ InFlight' \subseteq InFlight
      /\ \A q \in InFlight' : /\ call'[q].kind = call[q].kind
                              /\ call'[q].user = call[q].user
                              /\ call'[q].perms = call[q].perms
                              /\ q # p => call'[q] = call[q]
  BY <1>1, <1>2, <1>3, <1>5, MoveKeeps
<1>7. SerialInv'
  <2> SUFFICES ASSUME Serial' PROVE (OneHandoff /\ NoClaim /\ UnownedBefore /\ SingleOwner /\ Mover)'
    BY DEF SerialInv
  <2>1. OneHandoff /\ NoClaim /\ UnownedBefore /\ SingleOwner /\ Mover
    BY <1>1, <1>3 DEF SerialInv
  <2>2. HandingOff = {p} /\ HandingOff' \subseteq {p}
    BY <1>1, <1>6, <2>1 DEF OneHandoff, HandingOff
  <2>3. OneHandoff' /\ NoClaim'
    BY <1>6, <2>1, <2>2 DEF OneHandoff, NoClaim
  <2>4. p \in HandingOff' =>
          \/ HandoffFind(p) /\ call'[p].at = "findTo" /\ call[p].user \in Owners
          \/ HandoffFindTo(p) /\ call'[p].at = "demote" /\ call[p].at = "findTo"
          \/ HandoffDemote(p) /\ call'[p].at = "promote" /\ call[p].at = "demote"
    BY <1>1 DEF HandoffFind, HandoffFindTo, HandoffDemote, HandoffPromote, Proceed,
       Return, At, HandingOff, InFlight, TypeOK, Calls
  <2>5. HandoffFind(p) \/ HandoffFindTo(p) \/ HandoffDemote(p) => Owners' \subseteq Owners
    BY <1>4
  <2>6. HandoffPromote(p) => Owners = {} /\ call[p].at = "promote"
    BY <1>1, <2>1 DEF Mover, HandoffPromote, At
  <2>7. SingleOwner'
    BY <1>4, <2>1, <2>5, <2>6 DEF SingleOwner
  <2>8. Mover'
    <3> SUFFICES ASSUME p \in HandingOff'
                 PROVE  /\ call'[p].at \in {"findTo", "demote"} => Owners' \subseteq {call'[p].user}
                        /\ call'[p].at = "promote" => Owners' = {}
      BY <2>2 DEF Mover
    <3>1. call'[p].user = call[p].user
      BY <1>6 DEF HandingOff
    <3>2. CASE HandoffFind(p) /\ call'[p].at = "findTo" /\ call[p].user \in Owners
      BY <3>1, <3>2, <2>1, <2>5 DEF SingleOwner
    <3>3. CASE HandoffFindTo(p) /\ call'[p].at = "demote" /\ call[p].at = "findTo"
      BY <3>1, <3>3, <1>1, <2>1, <2>5 DEF Mover
    <3>4. CASE HandoffDemote(p) /\ call'[p].at = "promote" /\ call[p].at = "demote"
      BY <3>4, <1>1, <1>4, <2>1 DEF Mover
    <3> QED BY <2>4, <3>2, <3>3, <3>4
  <2>9. UnownedBefore'
    <3> SUFFICES ASSUME ~created \/ Creations # {}
                 PROVE  Owners' = {} /\ \A q \in HandingOff' : call'[q].at = "find"
      BY <1>3, <1>6 DEF UnownedBefore, Creations
    <3>1. Owners = {} /\ call[p].at = "find"
      BY <1>1, <2>1 DEF UnownedBefore
    <3>2. HandoffFind(p)
      BY <3>1 DEF HandoffFindTo, HandoffDemote, HandoffPromote, At
    <3>3. p \notin HandingOff'
      BY <2>4, <3>1
    <3> QED BY <1>4, <2>2, <3>1, <3>2, <3>3
  <2> QED BY <2>3, <2>7, <2>8, <2>9
<1> QED BY <1>4, <1>6, <1>7 DEF IInv

(* The environment: presence expires, a statement is rejected, the process *)
(* stops.                                                                  *)
LEMMA EnvironmentStep ==
  ASSUME IInv, Expire \/ Crash \/ \E p \in Requests : Rejected(p)
  PROVE  IInv'
<1>1. CASE Expire
  <2>1. live' \subseteq Users /\ UNCHANGED <<rows, members, localUser, call, started, created, history>>
    BY <1>1 DEF Expire, IInv, TypeOK
  <2>2. InFlight' = InFlight /\ Owners' = Owners /\ HandingOff' = HandingOff
        /\ Creations' = Creations /\ (Serial' <=> Serial)
    BY <2>1 DEF InFlight, Owners, HandingOff, Creations, Serial
  <2>3. TypeOK'
    <3>1. created' \in BOOLEAN
      BY <2>1, Zenon DEF IInv, TypeOK
    <3> QED BY <2>1, <3>1 DEF IInv, TypeOK
  <2>4. CallShape' /\ OneCreation' /\ OwnerFlagBacked'
    BY <2>1, <2>2 DEF IInv, CallShape, OneCreation, OwnerFlagBacked
  <2>5. SerialInv'
    BY <2>1, <2>2 DEF IInv, SerialInv, OneHandoff, NoClaim, UnownedBefore, SingleOwner, Mover
  <2> QED BY <2>3, <2>4, <2>5 DEF IInv
<1>2. ASSUME NEW p \in Requests, Rejected(p) PROVE IInv'
  <2>1. p \in InFlight /\ Moves(p) /\ UNCHANGED <<stores, started, created>>
        /\ call' = [call EXCEPT ![p] = None] /\ history' = Aborting({p})
    BY <1>2 DEF Rejected, InFlight, Moves
  <2>2. history' \in Histories /\ (Serial' => Serial)
    BY <2>1, HistoryKeeps DEF IInv
  <2>3. TypedStores /\ OwnerFlagBacked' /\ Owners' = Owners
    BY <2>1 DEF stores, TypedStores, IInv, TypeOK, OwnerFlagBacked, Owners
  <2> QED BY <2>1, <2>2, <2>3, ShrinkKeeps
<1>3. CASE Crash
  <2>1. /\ InFlight' = {} /\ Owners' = Owners /\ UNCHANGED <<rows, live, members, started, created>>
        /\ localUser' = None /\ call' = [q \in Requests |-> None] /\ history' = Aborting(InFlight)
    BY <1>3 DEF Crash, InFlight, Owners
  <2>2. history' \in Histories /\ (Serial' => Serial)
    <3>1. PICK p \in InFlight : TRUE
      BY <1>3 DEF Crash
    <3> QED BY <2>1, <3>1, HistoryKeeps DEF IInv
  <2>3. TypeOK'
    <3>1. created' \in BOOLEAN
      BY <2>1, Zenon DEF IInv, TypeOK
    <3> QED BY <2>1, <2>2, <3>1 DEF IInv, TypeOK, Histories
  <2>4. CallShape' /\ OneCreation' /\ OwnerFlagBacked'
    BY <2>1 DEF IInv, CallShape, OneCreation, Creations, OwnerFlagBacked
  <2>5. SerialInv'
    BY <2>1, <2>2 DEF IInv, SerialInv, OneHandoff, NoClaim, UnownedBefore, SingleOwner,
       Mover, HandingOff, Creations
  <2> QED BY <2>3, <2>4, <2>5 DEF IInv
<1> QED BY <1>1, <1>2, <1>3

(* Every step of the service keeps the invariant.                          *)
THEOREM StepIInv == IInv /\ [Next]_vars => IInv'
<1> SUFFICES ASSUME IInv, [Next]_vars PROVE IInv'
  OBVIOUS
<1>1. CASE HandleSessionCreated
  <2> DEFINE c == Call("create", Creator, None, {"owner"}, "upsert")
  <2>1. c \in Calls /\ Shape(c) /\ c.kind = "create" /\ c.at = "upsert"
    BY UsersAssumption DEF Call, Calls, Shape, Kinds, Points, Permissions
  <2>2. Begin(c) /\ ~created /\ created'
    BY <1>1 DEF HandleSessionCreated
  <2> HIDE DEF c
  <2> QED BY <2>1, <2>2, BeginKeeps
<1>2. CASE Join
  <2>1. PICK u \in Users, perms \in JoinPerms : Begin(Call("join", u, None, perms, "find"))
    BY <1>2 DEF Join
  <2> DEFINE c == Call("join", u, None, perms, "find")
  <2>2. c \in Calls /\ Shape(c) /\ c.kind = "join" /\ c.at = "find"
    BY CallsAssumption DEF Call, Calls, Shape, Kinds, Points
  <2> HIDE DEF c
  <2> QED BY <1>2, <2>1, <2>2, BeginKeeps DEF Join, c
<1>3. CASE SetPresence
  <2>1. PICK u \in Users : Begin(Call("presence", u, None, {}, "setex"))
    BY <1>3 DEF SetPresence
  <2> DEFINE c == Call("presence", u, None, {}, "setex")
  <2>2. c \in Calls /\ Shape(c) /\ c.kind = "presence" /\ c.at = "setex"
    BY DEF Call, Calls, Shape, Kinds, Points
  <2> HIDE DEF c
  <2> QED BY <1>3, <2>1, <2>2, BeginKeeps DEF SetPresence, c
<1>4. CASE Leave
  <2>1. PICK u \in Users : Begin(Call("leave", u, None, {}, "del"))
    BY <1>4 DEF Leave
  <2> DEFINE c == Call("leave", u, None, {}, "del")
  <2>2. c \in Calls /\ Shape(c) /\ c.kind = "leave" /\ c.at = "del"
    BY DEF Call, Calls, Shape, Kinds, Points
  <2> HIDE DEF c
  <2> QED BY <1>4, <2>1, <2>2, BeginKeeps DEF Leave, c
<1>5. CASE Handoff
  <2>1. PICK from \in Users, to \in Users : Begin(Call("handoff", from, to, {}, "find"))
    BY <1>5 DEF Handoff
  <2> DEFINE c == Call("handoff", from, to, {}, "find")
  <2>2. c \in Calls /\ Shape(c) /\ c.kind = "handoff" /\ c.at = "find"
    BY DEF Call, Calls, Shape, Kinds, Points
  <2> HIDE DEF c
  <2> QED BY <1>5, <2>1, <2>2, BeginKeeps DEF Handoff, c
<1>6. ASSUME NEW p \in Requests, Statement(p) PROVE IInv'
  <2>1. Upsert(p) => call[p].kind = "join" \/ call[p].kind = "create"
    BY DEF Upsert, At, IInv, CallShape, InFlight, Shape
  <2> QED
    BY <1>6, <2>1, PlainStatement, CreationStatement, HandoffStatement DEF Statement
<1>7. CASE (\E p \in Requests : Rejected(p)) \/ Expire \/ Crash
  BY <1>7, EnvironmentStep
<1>8. CASE UNCHANGED vars
  <2>1. InFlight' = InFlight /\ Owners' = Owners /\ HandingOff' = HandingOff
        /\ Creations' = Creations /\ (Serial' <=> Serial)
    BY <1>8 DEF vars, InFlight, Owners, HandingOff, Creations, Serial
  <2>2. TypeOK'
    <3>1. created' \in BOOLEAN
      BY <1>8, Zenon DEF IInv, TypeOK, vars
    <3> QED BY <1>8, <3>1 DEF IInv, TypeOK, vars
  <2>3. CallShape' /\ OneCreation' /\ OwnerFlagBacked'
    BY <1>8, <2>1 DEF vars, IInv, CallShape, OneCreation, OwnerFlagBacked
  <2>4. SerialInv'
    BY <1>8, <2>1 DEF vars, IInv, SerialInv, OneHandoff, NoClaim, UnownedBefore, SingleOwner, Mover
  <2> QED BY <2>2, <2>3, <2>4 DEF IInv
<1> QED BY <1>1, <1>2, <1>3, <1>4, <1>5, <1>6, <1>7, <1>8 DEF Next

-----------------------------------------------------------------------------
(* The invariant holds in every reachable state of the service.            *)
THEOREM Inductive == Spec => []IInv
  BY InitIInv, StepIInv, PTL DEF Spec

(* Every store and call keeps its type.                                    *)
THEOREM TypeOKHolds == Spec => []TypeOK
<1>1. IInv => TypeOK
  BY DEF IInv
<1> QED BY <1>1, Inductive, PTL

(* No interleaving of upserts and updates leaves a row that is_owner marks *)
(* as the owner's without the owner permission.                            *)
THEOREM OwnerFlagBackedHolds == Spec => []OwnerFlagBacked
<1>1. IInv => OwnerFlagBacked
  BY DEF IInv
<1> QED BY <1>1, Inductive, PTL

(* Handoffs that do not overlap leave a session at most one owner, for any *)
(* number of users and of calls in flight, and wherever calls are cut      *)
(* short.                                                                  *)
THEOREM SerialHandoffsKeepOneOwnerHolds == Spec => []SerialHandoffsKeepOneOwner
<1>1. IInv => SerialHandoffsKeepOneOwner
  BY DEF IInv, SerialInv, SingleOwner, SerialHandoffsKeepOneOwner, Serial
<1> QED BY <1>1, Inductive, PTL
-----------------------------------------------------------------------------
(* How a call goes on and how it returns.                                  *)

LEMMA ProceedCalls ==
  ASSUME IInv, NEW p \in InFlight, NEW at \in Points, Proceed(p, at)
  PROVE  /\ InFlight' = InFlight /\ history' = history /\ created' = created
         /\ call'[p].at = at /\ call'[p].kind = call[p].kind /\ call'[p].user = call[p].user
         /\ call'[p].to = call[p].to /\ call'[p].perms = call[p].perms
         /\ \A q \in InFlight : q # p => call'[q] = call[q]
<1> DEFINE c == [call[p] EXCEPT !.at = at]
<1>1. p \in Requests /\ call \in [Requests -> Calls \cup {None}] /\ call[p] \in Calls
  BY DEF IInv, InFlight, TypeOK
<1>2. /\ c \in Calls /\ c.at = at /\ c.kind = call[p].kind /\ c.user = call[p].user
      /\ c.to = call[p].to /\ c.perms = call[p].perms
  BY <1>1 DEF Calls
<1>3. call' = [call EXCEPT ![p] = c] /\ history' = history /\ created' = created
  BY <1>1 DEF Proceed
<1> HIDE DEF c
<1>4. c # None BY <1>2, NoCallAssumption
<1> QED BY <1>1, <1>2, <1>3, <1>4 DEF InFlight

LEMMA ReturnCalls ==
  ASSUME IInv, NEW p \in InFlight, Return(p)
  PROVE  /\ InFlight' = InFlight \ {p} /\ created' = created
         /\ \A q \in InFlight' : call'[q] = call[q]
         /\ history'.lapses = history.lapses /\ history'.untidy = history.untidy
         /\ \A u \in Users : history'.last[u] =
              IF call[p].kind # "handoff" /\ u = call[p].user THEN call[p].kind ELSE history.last[u]
<1>1. p \in Requests /\ call \in [Requests -> Calls \cup {None}] /\ call[p].user \in Users
      /\ history \in Histories
  BY DEF IInv, InFlight, TypeOK, Histories, Calls
<1>2. call' = [call EXCEPT ![p] = None] /\ history' = Returning(p) /\ created' = created
  BY DEF Return
<1>3. InFlight' = InFlight \ {p} /\ \A q \in InFlight' : call'[q] = call[q]
  BY <1>1, <1>2 DEF InFlight
<1>4. /\ history'.lapses = history.lapses /\ history'.untidy = history.untidy
      /\ \A u \in Users : history'.last[u] =
           IF call[p].kind # "handoff" /\ u = call[p].user THEN call[p].kind ELSE history.last[u]
  BY <1>1, <1>2 DEF Returning, Histories
<1> QED BY <1>2, <1>3, <1>4

(* What the statements that write rows leave in them.                      *)
LEMMA RowWrites ==
  ASSUME TypeOK, NEW u \in Users, NEW perms \in SUBSET Permissions, NEW isOwner \in BOOLEAN
  PROVE  /\ AddCollaborator(u, perms, isOwner) =>
              /\ rows'[u] # None /\ rows'[u].perms = perms
              /\ \A v \in Users : v # u => rows'[v] = rows[v]
         /\ UpdatePermissions(u, perms) =>
              /\ rows'[u] = None <=> rows[u] = None
              /\ rows'[u] # None => rows'[u].perms = perms
              /\ \A v \in Users : v # u => rows'[v] = rows[v]
         /\ RemoveCollaborator(u) =>
              /\ rows'[u] = None
              /\ \A v \in Users : v # u => rows'[v] = rows[v]
<1>0. rows \in [Users -> Row \cup {None}]
  BY DEF TypeOK
<1>1. ASSUME AddCollaborator(u, perms, isOwner)
      PROVE  /\ rows'[u] # None /\ rows'[u].perms = perms
             /\ \A v \in Users : v # u => rows'[v] = rows[v]
  <2> DEFINE row == [perms |-> perms, isOwner |-> isOwner]
  <2>1. row \in Row /\ row.perms = perms
    BY DEF Row
  <2>2. rows' = [rows EXCEPT ![u] = row]
    BY <1>1 DEF AddCollaborator
  <2> HIDE DEF row
  <2> QED BY <1>0, <2>1, <2>2, CallsAssumption
<1>2. ASSUME UpdatePermissions(u, perms)
      PROVE  /\ rows'[u] = None <=> rows[u] = None
             /\ rows'[u] # None => rows'[u].perms = perms
             /\ \A v \in Users : v # u => rows'[v] = rows[v]
  <2>1. CASE rows[u] = None
    BY <1>2, <2>1 DEF UpdatePermissions
  <2>2. CASE rows[u] # None
    <3> DEFINE row == [perms |-> perms, isOwner |-> "owner" \in perms]
    <3>1. row \in Row /\ row.perms = perms
      BY UpdatedRow
    <3>2. rows' = [rows EXCEPT ![u] = row]
      BY <1>2, <2>2 DEF UpdatePermissions
    <3> HIDE DEF row
    <3> QED BY <1>0, <2>2, <3>1, <3>2, CallsAssumption
  <2> QED BY <2>1, <2>2
<1>3. ASSUME RemoveCollaborator(u)
      PROVE  /\ rows'[u] = None
             /\ \A v \in Users : v # u => rows'[v] = rows[v]
  BY <1>0, <1>3 DEF RemoveCollaborator
<1> QED BY <1>1, <1>2, <1>3

-----------------------------------------------------------------------------
(* Calls that never overlap keep the owner: a second invariant.            *)

Calm == history.lapses = {}

OneCall == \A p, q \in InFlight : p = q

(* Whoever joins or leaves does not own the session and did not create it. *)
Outsiders ==
  \A p \in InFlight :
    call[p].kind \in {"join", "leave"} => call[p].user \notin Owners \cup {Creator}

(* A handoff past its checks has a target with a row, and only between its *)
(* two updates is there no owner.                                          *)
Ownership ==
  /\ \A p \in HandingOff : call[p].at \in {"demote", "promote"} => rows[call[p].to] # None
  /\ created /\ Creations = {} /\ (\A p \in HandingOff : call[p].at # "promote") =>
       \E u \in Users : Owners = {u}

CalmInv == Calm => OneCall /\ Outsiders /\ Ownership

(* The first call there is since the last one ended.                       *)
LEMMA CalmBegin ==
  ASSUME IInv, CalmInv, NEW c \in Calls, Shape(c), Begin(c),
         \/ c.kind = "create" /\ ~created /\ created'
         \/ c.kind # "create" /\ UNCHANGED created,
         c.at \notin {"findTo", "demote", "promote"}
  PROVE  CalmInv'
<1> SUFFICES ASSUME Calm' PROVE (OneCall /\ Outsiders /\ Ownership)'
  BY DEF CalmInv
<1>1. PICK p \in Requests :
        /\ call[p] = None
        /\ call' = [call EXCEPT ![p] = c]
        /\ history' = Starting(c)
        /\ UNCHANGED stores
  BY DEF Begin
<1>2. history \in Histories /\ call \in [Requests -> Calls \cup {None}]
  BY DEF IInv, TypeOK, Histories
<1>3. /\ history'.lapses = {} /\ history.lapses = {} /\ InFlight = {}
      /\ c.kind \in {"join", "leave"} => c.user \notin Owners \cup {Creator}
  <2>1. history'.lapses = history.lapses \cup
       {x \in {"rivals", "claim", "overlap", "ownerCalls"} :
          \/ x = "rivals" /\ c.kind = "handoff" /\ HandingOff # {}
          \/ x = "claim" /\ c.kind = "join" /\ "owner" \in c.perms
          \/ x = "overlap" /\ InFlight # {}
          \/ x = "ownerCalls" /\ c.kind \in {"join", "leave"}
                              /\ c.user \in Owners \cup {Creator}}
    BY <1>1, <1>2 DEF Starting, Histories
  <2>2. history'.lapses = {}
    BY DEF Calm
  <2> QED BY <2>1, <2>2
<1>4. /\ InFlight' \subseteq {p} /\ call'[p] = c
      /\ rows' = rows /\ Owners' = Owners
  BY <1>1, <1>2, <1>3 DEF InFlight, Owners, stores
<1>5. OneCall' /\ Outsiders'
  BY <1>3, <1>4 DEF OneCall, Outsiders
<1>6. \A q \in HandingOff' : call'[q].at \notin {"demote", "promote"}
  BY <1>4 DEF HandingOff
<1>7. created' /\ Creations' = {} => \E u \in Users : Owners = {u}
  <2>1. c # None
    BY NoCallAssumption
  <2>2. p \in InFlight'
    BY <1>4, <2>1 DEF InFlight
  <2>3. HandingOff = {} /\ Creations = {} /\ Ownership
    BY <1>3 DEF HandingOff, Creations, CalmInv, Calm
  <2> QED BY <1>4, <2>2, <2>3 DEF Creations, Ownership
<1>8. Ownership'
  BY <1>4, <1>6, <1>7 DEF Ownership
<1> QED BY <1>5, <1>8

(* An outsider's call leaves the owners as they are.                       *)
LEMMA CalmPlain ==
  ASSUME IInv, CalmInv, NEW p \in Requests,
         \/ JoinFind(p) \/ JoinUpdate(p) \/ SetexStep(p) \/ SaddStep(p) \/ JoinCursor(p)
         \/ LeaveDel(p) \/ LeaveSrem(p) \/ LeaveDisconnect(p) \/ LeaveDelete(p)
         \/ (Upsert(p) /\ call[p].kind = "join")
  PROVE  CalmInv'
<1> SUFFICES ASSUME Calm' PROVE (OneCall /\ Outsiders /\ Ownership)'
  BY DEF CalmInv
<1>1. /\ p \in InFlight /\ Shape(call[p]) /\ call[p] \in Calls /\ TypeOK
      /\ call[p].kind \notin {"handoff", "create"}
      /\ call[p].user \in Users /\ call[p].perms \in SUBSET Permissions
  <2>1. p \in InFlight
    BY DEF JoinFind, JoinUpdate, SetexStep, SaddStep, JoinCursor, LeaveDel, LeaveSrem,
           LeaveDisconnect, LeaveDelete, Upsert, At, InFlight
  <2>2. Shape(call[p]) /\ call[p] \in Calls /\ TypeOK
    BY <2>1 DEF IInv, CallShape, TypeOK, InFlight
  <2>3. call[p].kind \notin {"handoff", "create"}
    BY <2>2 DEF JoinFind, JoinUpdate, SetexStep, SaddStep, JoinCursor, LeaveDel, LeaveSrem,
           LeaveDisconnect, LeaveDelete, Upsert, At, Shape
  <2> QED BY <2>1, <2>2, <2>3 DEF Calls
<1>2. Return(p) \/ \E at \in Points : Proceed(p, at)
  BY <1>1 DEF JoinFind, JoinUpdate, SetexStep, SaddStep, JoinCursor, LeaveDel, LeaveSrem,
     LeaveDisconnect, LeaveDelete, Upsert, Points
<1>3. /\ InFlight' \subseteq InFlight /\ history'.lapses = history.lapses /\ created' = created
      /\ \A q \in InFlight' : call'[q].kind = call[q].kind /\ call'[q].user = call[q].user
  <2>1. CASE Return(p)
    BY <1>1, <2>1, ReturnCalls
  <2>2. CASE \E at \in Points : Proceed(p, at)
    BY <1>1, <2>2, ProceedCalls
  <2> QED BY <1>2, <2>1, <2>2
<1>4. OneCall /\ Outsiders /\ Ownership /\ InFlight = {p} /\ HandingOff = {} /\ Creations = {}
  BY <1>1, <1>3 DEF CalmInv, Calm, OneCall, HandingOff, Creations
<1>5. Owners' = Owners
  <2>1. CASE rows' = rows
    BY <2>1 DEF Owners
  <2>2. CASE JoinUpdate(p) \/ (Upsert(p) /\ call[p].kind = "join") \/ LeaveDelete(p)
    <3> DEFINE w == call[p].user
    <3>1. w \notin Owners
      BY <1>1, <1>4, <2>2 DEF Outsiders, JoinUpdate, Upsert, LeaveDelete, At, Shape
    <3>2. CASE JoinUpdate(p) \/ (Upsert(p) /\ call[p].kind = "join")
      <4>1. "owner" \notin call[p].perms
        <5>1. NoClaim
          BY <1>3 DEF Calm, Serial, IInv, SerialInv
        <5>2. call[p].kind = "join"
          BY <1>1, <3>2 DEF JoinUpdate, At, Shape
        <5> QED BY <5>1, <5>2, <1>1 DEF NoClaim
      <4>2. \/ AddCollaborator(w, call[p].perms, FALSE)
            \/ UpdatePermissions(w, call[p].perms)
        BY <3>2 DEF JoinUpdate, Upsert, AddCollaborator
      <4>3. /\ \A v \in Users : v # w => rows'[v] = rows[v]
            /\ rows'[w] # None => rows'[w].perms = call[p].perms
        BY <1>1, <4>2, RowWrites
      <4> QED BY <3>1, <4>1, <4>3 DEF Owners
    <3>3. CASE LeaveDelete(p)
      <4>1. rows'[w] = None /\ \A v \in Users : v # w => rows'[v] = rows[v]
        BY <1>1, <3>3, RowWrites DEF LeaveDelete
      <4> QED BY <3>1, <4>1 DEF Owners
    <3> QED BY <2>2, <3>2, <3>3
  <2> QED BY <2>1, <2>2 DEF JoinFind, SetexStep, SaddStep, JoinCursor, LeaveDel, LeaveSrem,
             LeaveDisconnect, stores
<1>6. HandingOff' = {} /\ Creations' = {}
  BY <1>3, <1>4 DEF HandingOff, Creations
<1>7. OneCall' /\ Outsiders'
  BY <1>3, <1>4, <1>5 DEF OneCall, Outsiders
<1>8. Ownership'
  BY <1>3, <1>4, <1>5, <1>6 DEF Ownership
<1> QED BY <1>7, <1>8

(* The creator becomes the one owner.                                      *)
LEMMA CalmCreation ==
  ASSUME IInv, CalmInv, NEW p \in Requests, Upsert(p), call[p].kind = "create"
  PROVE  CalmInv'
<1> SUFFICES ASSUME Calm' PROVE (OneCall /\ Outsiders /\ Ownership)'
  BY DEF CalmInv
<1>1. /\ p \in InFlight /\ p \in Creations /\ call[p] \in Calls /\ TypeOK
      /\ call[p].user \in Users /\ call[p].perms \in SUBSET Permissions
      /\ "owner" \in call[p].perms
  BY DEF IInv, CallShape, Shape, Upsert, At, InFlight, Creations, TypeOK, Calls
<1>2. AddCollaborator(call[p].user, call[p].perms, TRUE) /\ Return(p)
  BY DEF Upsert
<1>3. InFlight' = InFlight \ {p} /\ history'.lapses = history.lapses
  BY <1>1, <1>2, ReturnCalls
<1>4. InFlight' = {} /\ Owners = {}
  BY <1>1, <1>3 DEF CalmInv, Calm, OneCall, IInv, SerialInv, Serial, UnownedBefore
<1>5. Owners' = {call[p].user}
  <2>1. /\ rows'[call[p].user] # None /\ rows'[call[p].user].perms = call[p].perms
        /\ \A v \in Users : v # call[p].user => rows'[v] = rows[v]
    BY <1>1, <1>2, RowWrites
  <2> QED BY <1>1, <1>4, <2>1 DEF Owners
<1> QED BY <1>1, <1>4, <1>5 DEF OneCall, Outsiders, Ownership, HandingOff

(* The one handoff in flight moves the ownership to a row there is.        *)
LEMMA CalmHandoff ==
  ASSUME IInv, CalmInv, NEW p \in Requests,
         HandoffFind(p) \/ HandoffFindTo(p) \/ HandoffDemote(p) \/ HandoffPromote(p)
  PROVE  CalmInv'
<1> SUFFICES ASSUME Calm' PROVE (OneCall /\ Outsiders /\ Ownership)'
  BY DEF CalmInv
<1>1. /\ p \in InFlight /\ p \in HandingOff /\ call[p] \in Calls /\ TypeOK
      /\ call[p].kind = "handoff" /\ call[p].user \in Users /\ call[p].to \in Users
  <2>1. p \in InFlight
    BY DEF HandoffFind, HandoffFindTo, HandoffDemote, HandoffPromote, At, InFlight
  <2>2. Shape(call[p]) /\ call[p] \in Calls /\ TypeOK
    BY <2>1 DEF IInv, CallShape, TypeOK, InFlight
  <2>3. call[p].kind = "handoff"
    BY <2>2 DEF HandoffFind, HandoffFindTo, HandoffDemote, HandoffPromote, At, Shape
  <2> QED BY <2>1, <2>2, <2>3 DEF HandingOff, Calls, Shape
<1>2. Return(p) \/ \E at \in {"findTo", "demote", "promote"} : Proceed(p, at)
  BY DEF HandoffFind, HandoffFindTo, HandoffDemote, HandoffPromote
<1>3. {"findTo", "demote", "promote"} \subseteq Points
  BY DEF Points
<1>4. /\ history'.lapses = history.lapses /\ created' = created
      /\ Return(p) => InFlight' = InFlight \ {p}
      /\ \A at \in {"findTo", "demote", "promote"} : Proceed(p, at) =>
           /\ InFlight' = InFlight
           /\ call'[p].at = at /\ call'[p].kind = "handoff" /\ call'[p].to = call[p].to
  BY <1>1, <1>2, <1>3, ReturnCalls, ProceedCalls
<1>5. OneCall /\ Ownership /\ InFlight = {p} /\ HandingOff = {p} /\ Creations = {}
  BY <1>1, <1>4 DEF CalmInv, Calm, OneCall, HandingOff, Creations
<1>6. OneCall' /\ Outsiders' /\ Creations' = {}
  <2>1. InFlight' \subseteq {p} /\ \A q \in InFlight' : call'[q].kind = "handoff"
    BY <1>2, <1>4, <1>5
  <2> QED BY <2>1 DEF OneCall, Outsiders, Creations
<1>7. CASE HandoffFind(p)
  <2>1. rows' = rows /\ Owners' = Owners /\ call[p].at = "find"
    BY <1>7 DEF HandoffFind, stores, Owners, At
  <2>2. Return(p) \/ Proceed(p, "findTo")
    BY <1>7 DEF HandoffFind
  <2>3. \A q \in HandingOff' : call'[q].at = "findTo"
    BY <1>4, <1>5, <2>2 DEF HandingOff
  <2>4. created /\ Creations = {} => \E u \in Users : Owners = {u}
    BY <1>5, <2>1 DEF Ownership
  <2> QED BY <1>4, <1>5, <1>6, <2>1, <2>3, <2>4 DEF Ownership
<1>8. CASE HandoffFindTo(p)
  <2>1. rows' = rows /\ Owners' = Owners /\ call[p].at = "findTo"
    BY <1>8 DEF HandoffFindTo, stores, Owners, At
  <2>2. Return(p) \/ (Proceed(p, "demote") /\ rows[call[p].to] # None)
    BY <1>8 DEF HandoffFindTo
  <2>3. \A q \in HandingOff' : call'[q].at = "demote" /\ rows[call'[q].to] # None
    BY <1>4, <1>5, <2>2 DEF HandingOff
  <2>4. created /\ Creations = {} => \E u \in Users : Owners = {u}
    BY <1>5, <2>1 DEF Ownership
  <2> QED BY <1>4, <1>5, <1>6, <2>1, <2>3, <2>4 DEF Ownership
<1>9. CASE HandoffDemote(p)
  <2>1. /\ call[p].at = "demote" /\ Proceed(p, "promote")
        /\ UpdatePermissions(call[p].user, {"read", "write", "admin"})
    BY <1>9 DEF HandoffDemote, At
  <2>2. rows[call[p].to] # None
    BY <1>5, <2>1 DEF Ownership
  <2>3. {"read", "write", "admin"} \in SUBSET Permissions /\ FALSE \in BOOLEAN
    BY DEF Permissions
  <2>4. rows'[call[p].to] # None
    BY <1>1, <2>1, <2>2, <2>3, RowWrites
  <2>5. HandingOff' = {p} /\ call'[p].at = "promote" /\ rows'[call'[p].to] # None
    BY <1>4, <1>5, <2>1, <2>4 DEF HandingOff
  <2> QED BY <1>6, <2>5 DEF Ownership
<1>10. CASE HandoffPromote(p)
  <2>1. /\ call[p].at = "promote" /\ Return(p)
        /\ UpdatePermissions(call[p].to, {"owner"})
    BY <1>10 DEF HandoffPromote, At
  <2>2. rows[call[p].to] # None /\ Owners = {}
    BY <1>4, <1>5, <2>1 DEF Ownership, Calm, IInv, SerialInv, Serial, Mover
  <2>3. {"owner"} \in SUBSET Permissions /\ FALSE \in BOOLEAN
    BY DEF Permissions
  <2>4. /\ rows'[call[p].to] # None /\ rows'[call[p].to].perms = {"owner"}
        /\ \A v \in Users : v # call[p].to => rows'[v] = rows[v]
    BY <1>1, <2>1, <2>2, <2>3, RowWrites
  <2>5. Owners' = {call[p].to}
    BY <1>1, <2>2, <2>4 DEF Owners
  <2>6. HandingOff' = {}
    BY <1>4, <1>5, <2>1 DEF HandingOff
  <2> QED BY <1>1, <1>6, <2>5, <2>6 DEF Ownership
<1> QED BY <1>6, <1>7, <1>8, <1>9, <1>10

-----------------------------------------------------------------------------
(* Calls of one user that never overlap leave the stores in agreement: a   *)
(* third invariant.                                                        *)

(* What a call has made true of its user's stores before its next          *)
(* statement.                                                              *)
OnPath(c) ==
  /\ c.at # "sadd" => (c.user \in live => c.user \in members)
  /\ c.kind = "join" /\ c.at \in {"update", "setex", "sadd", "cursor"} => rows[c.user] # None
  /\ c.at = "cursor" => c.user \in members
  /\ c.at \in {"srem", "disconnect", "delete"} => c.user \notin live
  /\ c.at \in {"disconnect", "delete"} => c.user \notin members
  /\ c.at = "delete" => localUser # c.user

Settled(u) ==
  /\ u \in live => u \in members
  /\ history.last[u] = "join" => rows[u] # None /\ u \in members
  /\ history.last[u] = "leave" =>
       rows[u] = None /\ u \notin live /\ u \notin members /\ localUser # u

Tidy(u) ==
  /\ \A p, q \in OnUser(u) : p = q
  /\ \A p \in OnUser(u) : OnPath(call[p])
  /\ OnUser(u) = {} => Settled(u)

TidyInv == \A u \in Users \ history.untidy : Tidy(u)

(* What a step that is not of user u may do to u's stores.                 *)
SparesStores(u) ==
  /\ u \in live' => u \in live
  /\ u \in members' <=> u \in members
  /\ rows'[u] = None <=> rows[u] = None
  /\ localUser' = u => localUser = u

LEMMA SparedStaysTidy ==
  ASSUME NEW u \in Users, Tidy(u), SparesStores(u), OnUser(u)' = OnUser(u),
         \A p \in OnUser(u) : /\ call'[p].at = call[p].at /\ call'[p].kind = call[p].kind
                              /\ call'[p].user = u /\ call[p].user = u,
         history'.last[u] = history.last[u]
  PROVE  Tidy(u)'
<1>1. \A p \in OnUser(u) : OnPath(call[p])'
  <2> SUFFICES ASSUME NEW p \in OnUser(u) PROVE OnPath(call[p])'
    OBVIOUS
  <2>1. OnPath(call[p])
    BY DEF Tidy
  <2> QED BY <2>1 DEF OnPath, SparesStores
<1>2. OnUser(u) = {} => Settled(u)'
  BY DEF Tidy, Settled, SparesStores
<1> QED BY <1>1, <1>2 DEF Tidy

(* A call that begins finds its tidy user settled.                         *)
LEMMA TidyBegin ==
  ASSUME IInv, TidyInv, NEW c \in Calls, Shape(c), Begin(c),
         c.at \in {"find", "upsert", "setex", "del"}, c.at = "setex" => c.kind = "presence"
  PROVE  TidyInv'
<1>1. PICK p \in Requests :
        /\ call[p] = None
        /\ call' = [call EXCEPT ![p] = c]
        /\ history' = Starting(c)
        /\ UNCHANGED stores
  BY DEF Begin
<1>2. history \in Histories /\ call \in [Requests -> Calls \cup {None}] /\ c # None
  BY NoCallAssumption DEF IInv, TypeOK, Histories
<1>3. /\ InFlight' = InFlight \cup {p} /\ p \notin InFlight /\ call'[p] = c
      /\ \A q \in InFlight : call'[q] = call[q]
  BY <1>1, <1>2 DEF InFlight
<1>4. /\ history'.untidy = IF c.kind # "handoff" /\ OnUser(c.user) # {}
                           THEN history.untidy \cup {c.user} ELSE history.untidy
      /\ \A u \in Users : history'.last[u] =
           IF c.kind # "handoff" /\ u = c.user THEN None ELSE history.last[u]
  BY <1>1, <1>2 DEF Starting, Histories, Calls
<1>5. UNCHANGED <<rows, live, members, localUser>>
  BY <1>1 DEF stores
<1> SUFFICES ASSUME NEW u \in Users, u \notin history'.untidy PROVE Tidy(u)'
  BY DEF TidyInv
<1>6. Tidy(u)
  BY <1>4 DEF TidyInv
<1>7. CASE c.kind # "handoff" /\ u = c.user
  <2>1. OnUser(u) = {} /\ OnUser(u)' = {p}
    BY <1>3, <1>4, <1>7 DEF OnUser
  <2>2. Settled(u)
    BY <1>6, <2>1 DEF Tidy
  <2>3. OnPath(c)'
    BY <1>5, <1>7, <2>2 DEF OnPath, Settled, Shape
  <2> QED BY <1>3, <2>1, <2>3 DEF Tidy
<1>8. CASE ~(c.kind # "handoff" /\ u = c.user)
  <2>1. OnUser(u)' = OnUser(u)
    BY <1>3, <1>8 DEF OnUser
  <2>2. \A q \in OnUser(u) : call'[q] = call[q] /\ call[q].user = u
    BY <1>3 DEF OnUser
  <2>3. SparesStores(u)
    BY <1>5 DEF SparesStores
  <2> QED BY <1>4, <1>6, <1>8, <2>1, <2>2, <2>3, SparedStaysTidy
<1> QED BY <1>7, <1>8

(* A statement of a call of user w spares the other users; of w it has to  *)
(* establish what the rest of the call relies on.                          *)
LEMMA TidyStatement ==
  ASSUME IInv, TidyInv, NEW p \in InFlight, call[p].kind # "handoff",
         NEW w \in Users, w = call[p].user,
         \A u \in Users : u # w => SparesStores(u),
         \/ /\ Return(p)
            /\ OnPath(call[p]) /\ history'.last[w] = call[p].kind => Settled(w)'
         \/ \E at \in Points : /\ Proceed(p, at)
                               /\ OnPath(call[p]) => OnPath(call[p])'
  PROVE  TidyInv'
<1>1. p \in Requests /\ call[p] \in Calls
  BY DEF IInv, TypeOK, InFlight
<1>2. CASE Return(p)
  <2>0. OnPath(call[p]) /\ history'.last[w] = call[p].kind => Settled(w)'
    <3>1. ASSUME NEW at \in Points, Proceed(p, at) PROVE FALSE
      BY <1>2, <3>1, ProceedCalls, ReturnCalls
    <3> QED BY <3>1
  <2>1. /\ InFlight' = InFlight \ {p} /\ \A q \in InFlight' : call'[q] = call[q]
        /\ history'.untidy = history.untidy
        /\ \A u \in Users : history'.last[u] = IF u = w THEN call[p].kind ELSE history.last[u]
    BY <1>2, ReturnCalls
  <2> SUFFICES ASSUME NEW u \in Users, u \notin history.untidy PROVE Tidy(u)'
    BY <2>1 DEF TidyInv
  <2>2. Tidy(u)
    BY DEF TidyInv
  <2>3. CASE u = w
    <3>1. OnUser(u) = {p} /\ OnUser(u)' = {}
      BY <2>1, <2>2, <2>3 DEF Tidy, OnUser
    <3>2. OnPath(call[p])
      BY <2>2, <3>1 DEF Tidy
    <3> QED BY <2>0, <2>1, <2>3, <3>1, <3>2 DEF Tidy
  <2>4. CASE u # w
    <3>1. OnUser(u)' = OnUser(u)
      BY <2>1, <2>4 DEF OnUser
    <3>2. \A q \in OnUser(u) : call'[q] = call[q] /\ call[q].user = u
      BY <2>1, <2>4 DEF OnUser
    <3> QED BY <2>1, <2>2, <2>4, <3>1, <3>2, SparedStaysTidy
  <2> QED BY <2>3, <2>4
<1>3. ASSUME NEW at \in Points, Proceed(p, at),
             OnPath(call[p]) => OnPath(call[p])'
      PROVE  TidyInv'
  <2>1. /\ InFlight' = InFlight /\ history' = history
        /\ call'[p].at = at /\ call'[p].kind = call[p].kind /\ call'[p].user = call[p].user
        /\ \A q \in InFlight : q # p => call'[q] = call[q]
    BY <1>3, ProceedCalls
  <2> SUFFICES ASSUME NEW u \in Users, u \notin history.untidy PROVE Tidy(u)'
    BY <2>1 DEF TidyInv
  <2>2. Tidy(u)
    BY DEF TidyInv
  <2>3. OnUser(u)' = OnUser(u)
    BY <2>1 DEF OnUser
  <2>4. CASE u = w
    <3>1. OnUser(u) = {p}
      BY <2>2, <2>4 DEF Tidy, OnUser
    <3>2. OnPath(call[p])
      BY <2>2, <3>1 DEF Tidy
    <3> QED BY <1>3, <2>3, <3>1, <3>2 DEF Tidy
  <2>5. CASE u # w
    <3>1. \A q \in OnUser(u) : call'[q] = call[q] /\ call[q].user = u
      BY <2>1, <2>5 DEF OnUser
    <3> QED BY <2>1, <2>2, <2>3, <2>5, <3>1, SparedStaysTidy
  <2> QED BY <2>4, <2>5
<1> QED BY <1>2, <1>3

(* The statements of a join, a creation, a leave and a setPresence, one    *)
(* after the other.                                                        *)
LEMMA TidyPlain ==
  ASSUME IInv, TidyInv, NEW p \in Requests,
         \/ JoinFind(p) \/ JoinUpdate(p) \/ SetexStep(p) \/ SaddStep(p) \/ JoinCursor(p)
         \/ LeaveDel(p) \/ LeaveSrem(p) \/ LeaveDisconnect(p) \/ LeaveDelete(p) \/ Upsert(p)
  PROVE  TidyInv'
<1>1. /\ p \in InFlight /\ Shape(call[p]) /\ call[p] \in Calls /\ TypeOK
      /\ call[p].kind # "handoff"
  <2>1. p \in InFlight
    BY DEF JoinFind, JoinUpdate, SetexStep, SaddStep, JoinCursor, LeaveDel, LeaveSrem,
           LeaveDisconnect, LeaveDelete, Upsert, At, InFlight
  <2>2. Shape(call[p]) /\ call[p] \in Calls /\ TypeOK
    BY <2>1 DEF IInv, CallShape, TypeOK, InFlight
  <2>3. call[p].kind # "handoff"
    BY <2>2 DEF JoinFind, JoinUpdate, SetexStep, SaddStep, JoinCursor, LeaveDel, LeaveSrem,
           LeaveDisconnect, LeaveDelete, Upsert, At, Shape
  <2> QED BY <2>1, <2>2, <2>3
<1> DEFINE w == call[p].user
<1>2. w \in Users /\ call[p].perms \in SUBSET Permissions
  BY <1>1 DEF Calls
<1>3. \A at \in Points : Proceed(p, at) =>
        call'[p].at = at /\ call'[p].kind = call[p].kind /\ call'[p].user = w
  BY <1>1, ProceedCalls
<1>4. {"update", "upsert", "setex", "sadd", "cursor", "srem", "disconnect", "delete"} \subseteq Points
  BY DEF Points
<1>w. PICK v \in Users : v = w
  BY <1>2
<1> HIDE DEF w
<1>d. v = call[p].user
  BY <1>w DEF w
<1>5. CASE JoinFind(p)
  <2>1. PICK at \in {"update", "upsert", "setex"} :
          /\ Proceed(p, at) /\ UNCHANGED <<rows, live, members, localUser>>
          /\ call[p].at = "find" /\ call[p].kind = "join"
          /\ at # "upsert" => rows[v] # None
    BY <1>5, <1>d DEF JoinFind, stores, At
  <2>2. OnPath(call[p]) => OnPath(call[p])'
    BY <1>3, <1>4, <1>d, <1>w, <2>1 DEF OnPath
  <2>3. \A u \in Users : SparesStores(u)
    BY <2>1 DEF SparesStores
  <2> QED BY <1>1, <1>4, <1>d, <2>1, <2>2, <2>3, TidyStatement
<1>6. CASE JoinUpdate(p)
  <2>1. /\ UpdatePermissions(v, call[p].perms) /\ Proceed(p, "setex") /\ call[p].at = "update"
        /\ UNCHANGED <<live, members, localUser>>
    BY <1>6, <1>d DEF JoinUpdate, At
  <2>2. \A u \in Users : rows'[u] = None <=> rows[u] = None
    BY <1>1, <1>2, <2>1, RowWrites
  <2>3. OnPath(call[p]) => OnPath(call[p])'
    BY <1>1, <1>3, <1>4, <1>d, <1>w, <2>1, <2>2 DEF OnPath, Shape
  <2>4. \A u \in Users : SparesStores(u)
    BY <2>1, <2>2 DEF SparesStores
  <2> QED BY <1>1, <1>4, <1>d, <2>1, <2>3, <2>4, TidyStatement
<1>7. CASE Upsert(p)
  <2>1. /\ AddCollaborator(v, call[p].perms, call[p].kind = "create") /\ call[p].at = "upsert"
        /\ IF call[p].kind = "create" THEN Return(p) ELSE Proceed(p, "setex")
        /\ UNCHANGED <<live, members, localUser>>
    BY <1>7, <1>d DEF Upsert, At
  <2>2. rows'[v] # None /\ \A u \in Users : u # v => rows'[u] = rows[u]
    <3>1. CASE call[p].kind = "create"
      <4>1. AddCollaborator(v, call[p].perms, TRUE)
        BY <2>1, <3>1
      <4> QED BY <1>1, <1>2, <4>1, RowWrites
    <3>2. CASE call[p].kind # "create"
      <4>1. AddCollaborator(v, call[p].perms, FALSE)
        BY <2>1, <3>2 DEF AddCollaborator
      <4> QED BY <1>1, <1>2, <4>1, RowWrites
    <3> QED BY <3>1, <3>2
  <2>3. \A u \in Users : u # v => SparesStores(u)
    BY <2>1, <2>2 DEF SparesStores
  <2>4. CASE call[p].kind = "create"
    <3>1. OnPath(call[p]) /\ history'.last[v] = call[p].kind => Settled(v)'
      BY <1>d, <2>1, <2>4 DEF OnPath, Settled
    <3> QED BY <1>1, <1>d, <2>1, <2>3, <2>4, <3>1, TidyStatement
  <2>5. CASE call[p].kind # "create"
    <3>1. Proceed(p, "setex")
      BY <2>1, <2>5
    <3>2. OnPath(call[p]) => OnPath(call[p])'
      BY <1>3, <1>4, <1>d, <1>w, <2>1, <2>2, <3>1 DEF OnPath
    <3> QED BY <1>1, <1>4, <1>d, <2>3, <3>1, <3>2, TidyStatement
  <2> QED BY <2>4, <2>5
<1>8. CASE SetexStep(p)
  <2>1. /\ live' = live \cup {v} /\ Proceed(p, "sadd") /\ call[p].at = "setex"
        /\ UNCHANGED <<rows, members, localUser>>
    BY <1>8, <1>d DEF SetexStep, Setex, At
  <2>2. OnPath(call[p]) => OnPath(call[p])'
    BY <1>3, <1>4, <1>d, <1>w, <2>1 DEF OnPath
  <2>3. \A u \in Users : u # v => SparesStores(u)
    BY <2>1 DEF SparesStores
  <2> QED BY <1>1, <1>4, <1>d, <2>1, <2>2, <2>3, TidyStatement
<1>9. CASE SaddStep(p)
  <2>1. /\ members' = members \cup {v} /\ call[p].at = "sadd"
        /\ IF call[p].kind = "join" THEN Proceed(p, "cursor") ELSE Return(p)
        /\ UNCHANGED <<rows, live, localUser>>
    BY <1>9, <1>d DEF SaddStep, Sadd, At
  <2>2. \A u \in Users : u # v => SparesStores(u)
    BY <2>1 DEF SparesStores
  <2>3. CASE call[p].kind = "join"
    <3>1. Proceed(p, "cursor")
      BY <2>1, <2>3
    <3>2. OnPath(call[p]) => OnPath(call[p])'
      BY <1>3, <1>4, <1>d, <1>w, <2>1, <3>1 DEF OnPath
    <3> QED BY <1>1, <1>4, <1>d, <2>2, <3>1, <3>2, TidyStatement
  <2>4. CASE call[p].kind # "join"
    <3>1. OnPath(call[p]) /\ history'.last[v] = call[p].kind => Settled(v)'
      BY <1>1, <1>d, <2>1, <2>4 DEF Settled, Shape
    <3> QED BY <1>1, <1>d, <2>1, <2>2, <2>4, <3>1, TidyStatement
  <2> QED BY <2>3, <2>4
<1>10. CASE JoinCursor(p)
  <2>1. /\ localUser' = IF localUser = None THEN v ELSE localUser
        /\ Return(p) /\ call[p].at = "cursor" /\ UNCHANGED <<rows, live, members>>
    BY <1>10, <1>d DEF JoinCursor, InitializeSession, At
  <2>2. call[p].kind = "join"
    BY <1>1, <2>1 DEF Shape
  <2>3. OnPath(call[p]) /\ history'.last[v] = call[p].kind => Settled(v)'
    BY <1>d, <2>1, <2>2 DEF OnPath, Settled
  <2>4. \A u \in Users : u # v => SparesStores(u)
    BY <2>1 DEF SparesStores
  <2> QED BY <1>1, <1>d, <2>1, <2>3, <2>4, TidyStatement
<1>11. CASE LeaveDel(p)
  <2>1. /\ live' = live \ {v} /\ Proceed(p, "srem") /\ call[p].at = "del"
        /\ UNCHANGED <<rows, members, localUser>>
    BY <1>11, <1>d DEF LeaveDel, Del, At
  <2>2. OnPath(call[p]) => OnPath(call[p])'
    BY <1>3, <1>4, <1>d, <1>w, <2>1 DEF OnPath
  <2>3. \A u \in Users : u # v => SparesStores(u)
    BY <2>1 DEF SparesStores
  <2> QED BY <1>1, <1>4, <1>d, <2>1, <2>2, <2>3, TidyStatement
<1>12. CASE LeaveSrem(p)
  <2>1. /\ members' = members \ {v} /\ Proceed(p, "disconnect") /\ call[p].at = "srem"
        /\ UNCHANGED <<rows, live, localUser>>
    BY <1>12, <1>d DEF LeaveSrem, Srem, At
  <2>2. OnPath(call[p]) => OnPath(call[p])'
    BY <1>3, <1>4, <1>d, <1>w, <2>1 DEF OnPath
  <2>3. \A u \in Users : u # v => SparesStores(u)
    BY <2>1 DEF SparesStores
  <2> QED BY <1>1, <1>4, <1>d, <2>1, <2>2, <2>3, TidyStatement
<1>13. CASE LeaveDisconnect(p)
  <2>1. /\ localUser' = None /\ Proceed(p, "delete") /\ call[p].at = "disconnect"
        /\ UNCHANGED <<rows, live, members>>
    BY <1>13 DEF LeaveDisconnect, DisconnectSession, At
  <2>2. \A u \in Users : localUser' # u
    BY <2>1, UsersAssumption
  <2>3. OnPath(call[p]) => OnPath(call[p])'
    BY <1>3, <1>4, <1>d, <1>w, <2>1, <2>2 DEF OnPath
  <2>4. \A u \in Users : u # v => SparesStores(u)
    BY <2>1, <2>2 DEF SparesStores
  <2> QED BY <1>1, <1>4, <1>d, <2>1, <2>3, <2>4, TidyStatement
<1>14. CASE LeaveDelete(p)
  <2>1. /\ RemoveCollaborator(v) /\ Return(p) /\ call[p].at = "delete"
        /\ UNCHANGED <<live, members, localUser>>
    BY <1>14, <1>d DEF LeaveDelete, At
  <2>2. rows'[v] = None /\ \A u \in Users : u # v => rows'[u] = rows[u]
    BY <1>1, <1>2, <2>1, RowWrites
  <2>3. call[p].kind = "leave"
    BY <1>1, <2>1 DEF Shape
  <2>4. OnPath(call[p]) /\ history'.last[v] = call[p].kind => Settled(v)'
    BY <1>d, <2>1, <2>2, <2>3 DEF OnPath, Settled
  <2>5. \A u \in Users : u # v => SparesStores(u)
    BY <2>1, <2>2 DEF SparesStores
  <2> QED BY <1>1, <1>d, <2>1, <2>4, <2>5, TidyStatement
<1> QED
  BY <1>5, <1>6, <1>7, <1>8, <1>9, <1>10, <1>11, <1>12, <1>13, <1>14

(* A handoff, an expiry and the end of a call that is cut short spare      *)
(* every user that stays tidy.                                             *)
LEMMA TidySpared ==
  ASSUME TidyInv, \A u \in Users : SparesStores(u),
         history.untidy \subseteq history'.untidy,
         \A u \in Users \ history'.untidy :
           /\ OnUser(u)' = OnUser(u) /\ history'.last[u] = history.last[u]
           /\ \A p \in OnUser(u) : /\ call'[p].at = call[p].at /\ call'[p].kind = call[p].kind
                                   /\ call'[p].user = call[p].user
  PROVE  TidyInv'
<1> SUFFICES ASSUME NEW u \in Users, u \notin history'.untidy PROVE Tidy(u)'
  BY DEF TidyInv
<1>1. Tidy(u)
  BY DEF TidyInv
<1>2. \A p \in OnUser(u) : call[p].user = u
  BY DEF OnUser
<1> QED BY <1>1, <1>2, SparedStaysTidy

LEMMA TidyHandoff ==
  ASSUME IInv, TidyInv, NEW p \in Requests,
         HandoffFind(p) \/ HandoffFindTo(p) \/ HandoffDemote(p) \/ HandoffPromote(p)
  PROVE  TidyInv'
<1>1. /\ p \in InFlight /\ call[p].kind = "handoff" /\ TypeOK
      /\ call[p].user \in Users /\ call[p].to \in Users
  <2>1. p \in InFlight
    BY DEF HandoffFind, HandoffFindTo, HandoffDemote, HandoffPromote, At, InFlight
  <2>2. Shape(call[p]) /\ call[p] \in Calls /\ TypeOK
    BY <2>1 DEF IInv, CallShape, TypeOK, InFlight
  <2>3. call[p].kind = "handoff"
    BY <2>2 DEF HandoffFind, HandoffFindTo, HandoffDemote, HandoffPromote, At, Shape
  <2> QED BY <2>1, <2>2, <2>3 DEF Calls, Shape
<1>2. Return(p) \/ \E at \in Points : Proceed(p, at)
  BY DEF HandoffFind, HandoffFindTo, HandoffDemote, HandoffPromote, Points
<1>3. /\ history'.untidy = history.untidy
      /\ \A u \in Users : /\ history'.last[u] = history.last[u]
                          /\ OnUser(u)' = OnUser(u)
                          /\ \A q \in OnUser(u) : call'[q] = call[q]
  <2>1. CASE Return(p)
    <3>1. /\ InFlight' = InFlight \ {p} /\ \A q \in InFlight' : call'[q] = call[q]
          /\ history'.untidy = history.untidy
          /\ \A u \in Users : history'.last[u] = history.last[u]
      BY <1>1, <2>1, ReturnCalls
    <3> QED BY <1>1, <3>1 DEF OnUser
  <2>2. CASE \E at \in Points : Proceed(p, at)
    <3>1. /\ InFlight' = InFlight /\ history' = history /\ call'[p].kind = call[p].kind
          /\ \A q \in InFlight : q # p => call'[q] = call[q]
      BY <1>1, <2>2, ProceedCalls
    <3> QED BY <1>1, <3>1 DEF OnUser
  <2> QED BY <1>2, <2>1, <2>2
<1>4. \A u \in Users : rows'[u] = None <=> rows[u] = None
  <2>1. CASE rows' = rows
    BY <2>1
  <2>2. CASE HandoffDemote(p) \/ HandoffPromote(p)
    <3>1. PICK u \in Users, perms \in SUBSET Permissions : UpdatePermissions(u, perms)
      BY <1>1, <2>2 DEF HandoffDemote, HandoffPromote, Permissions
    <3>2. FALSE \in BOOLEAN
      OBVIOUS
    <3> QED BY <1>1, <3>1, <3>2, RowWrites
  <2> QED BY <2>1, <2>2 DEF HandoffFind, HandoffFindTo, stores
<1>5. UNCHANGED <<live, members, localUser>>
  BY DEF HandoffFind, HandoffFindTo, HandoffDemote, HandoffPromote, stores
<1>6. \A u \in Users : SparesStores(u)
  BY <1>4, <1>5 DEF SparesStores
<1> QED BY <1>3, <1>6, TidySpared

LEMMA TidyEnvironment ==
  ASSUME IInv, TidyInv, Expire \/ Crash \/ \E p \in Requests : Rejected(p)
  PROVE  TidyInv'
<1>0. history \in Histories /\ call \in [Requests -> Calls \cup {None}]
  BY DEF IInv, TypeOK, Histories
<1>1. CASE Expire
  <2>1. live' \subseteq live /\ UNCHANGED <<rows, members, localUser, call, history>>
    BY <1>1 DEF Expire
  <2>2. (\A u \in Users : SparesStores(u)) /\ \A u \in Users : OnUser(u)' = OnUser(u)
    BY <2>1 DEF SparesStores, OnUser, InFlight
  <2> QED BY <2>1, <2>2, TidySpared
<1>2. ASSUME NEW P \in SUBSET InFlight, history' = Aborting(P),
             UNCHANGED <<rows, live, members>>, localUser' \in {None, localUser},
             \A q \in Requests : call'[q] = IF q \in P THEN None ELSE call[q]
      PROVE  TidyInv'
  <2>1. /\ history'.untidy = history.untidy \cup
             {call[q].user : q \in {r \in P : call[r].kind # "handoff"}}
        /\ history'.last = history.last
    BY <1>0, <1>2 DEF Aborting, Histories
  <2>2. \A u \in Users : SparesStores(u)
    BY <1>2, UsersAssumption DEF SparesStores
  <2>3. ASSUME NEW u \in Users, u \notin history'.untidy
        PROVE  OnUser(u)' = OnUser(u) /\ \A q \in OnUser(u) : call'[q] = call[q]
    <3>1. \A q \in OnUser(u) : q \notin P
      BY <2>1, <2>3 DEF OnUser
    <3> QED BY <1>2, <3>1 DEF OnUser, InFlight
  <2> QED BY <2>1, <2>2, <2>3, TidySpared
<1>3. ASSUME NEW p \in Requests, Rejected(p) PROVE TidyInv'
  <2>1. /\ {p} \in SUBSET InFlight /\ history' = Aborting({p})
        /\ UNCHANGED <<rows, live, members>> /\ localUser' \in {None, localUser}
    BY <1>3 DEF Rejected, InFlight, stores
  <2>2. \A q \in Requests : call'[q] = IF q \in {p} THEN None ELSE call[q]
    BY <1>0, <1>3 DEF Rejected
  <2> QED BY <1>2, <2>1, <2>2
<1>4. CASE Crash
  <2>1. /\ InFlight \in SUBSET InFlight /\ history' = Aborting(InFlight)
        /\ UNCHANGED <<rows, live, members>> /\ localUser' \in {None, localUser}
    BY <1>4 DEF Crash
  <2>2. \A q \in Requests : call'[q] = IF q \in InFlight THEN None ELSE call[q]
    BY <1>4 DEF Crash, InFlight
  <2> QED BY <1>2, <2>1, <2>2
<1> QED BY <1>1, <1>3, <1>4

(* A call that is cut short ends the calm; presence may expire in it.      *)
LEMMA CalmEnvironment ==
  ASSUME IInv, CalmInv, Expire \/ Crash \/ \E p \in Requests : Rejected(p)
  PROVE  CalmInv'
<1> SUFFICES ASSUME Calm' PROVE (OneCall /\ Outsiders /\ Ownership)'
  BY DEF CalmInv
<1>1. CASE Expire
  <2>1. UNCHANGED <<rows, call, history, created>>
    BY <1>1 DEF Expire
  <2> QED BY <2>1 DEF CalmInv, Calm, OneCall, Outsiders, Ownership, InFlight, Owners,
                      HandingOff, Creations
<1>2. ASSUME NEW P \in SUBSET InFlight, P # {}, history' = Aborting(P) PROVE FALSE
  <2>1. history'.lapses = history.lapses \cup {x \in {"abort"} : P # {}}
    BY <1>2 DEF Aborting, IInv, TypeOK
  <2> QED BY <1>2, <2>1 DEF Calm
<1>3. CASE Crash
  BY <1>2, <1>3 DEF Crash
<1>4. ASSUME NEW p \in Requests, Rejected(p) PROVE FALSE
  <2>1. {p} \in SUBSET InFlight /\ {p} # {} /\ history' = Aborting({p})
    BY <1>4 DEF Rejected, InFlight
  <2> QED BY <1>2, <2>1
<1> QED BY <1>1, <1>3, <1>4

LEMMA InitCalmTidy == Init => CalmInv /\ TidyInv
<1> SUFFICES ASSUME Init PROVE CalmInv /\ TidyInv
  OBVIOUS
<1>1. InFlight = {} /\ ~created /\ live = {}
  BY DEF Init, InFlight
<1>2. \A u \in Users : OnUser(u) = {} /\ history.last[u] = None
  BY <1>1 DEF OnUser, Init
<1>3. CalmInv
  BY <1>1 DEF CalmInv, OneCall, Outsiders, Ownership, HandingOff
<1>4. (\A u \in Users : history.last[u] \notin {"join", "leave"}) => TidyInv
  BY <1>1, <1>2 DEF TidyInv, Tidy, Settled
<1> QED BY <1>2, <1>3, <1>4, NoCallAssumption DEF Kinds

(* Every step keeps both.                                                  *)
LEMMA StepCalmTidy == IInv /\ CalmInv /\ TidyInv /\ [Next]_vars => CalmInv' /\ TidyInv'
<1> SUFFICES ASSUME IInv, CalmInv, TidyInv, [Next]_vars PROVE CalmInv' /\ TidyInv'
  OBVIOUS
<1>1. ASSUME NEW c \in Calls, Shape(c), Begin(c),
             \/ c.kind = "create" /\ ~created /\ created'
             \/ c.kind # "create" /\ UNCHANGED created,
             c.at \in {"find", "upsert", "setex", "del"}, c.at = "setex" => c.kind = "presence"
      PROVE  CalmInv' /\ TidyInv'
  BY <1>1, CalmBegin, TidyBegin
<1>2. CASE HandleSessionCreated
  <2> DEFINE c == Call("create", Creator, None, {"owner"}, "upsert")
  <2>1. c \in Calls /\ Shape(c) /\ c.kind = "create" /\ c.at = "upsert"
    BY UsersAssumption DEF Call, Calls, Shape, Kinds, Points, Permissions
  <2>2. Begin(c) /\ ~created /\ created'
    BY <1>2 DEF HandleSessionCreated
  <2> HIDE DEF c
  <2> QED BY <1>1, <2>1, <2>2
<1>3. CASE Join
  <2>1. PICK u \in Users, perms \in JoinPerms : Begin(Call("join", u, None, perms, "find"))
    BY <1>3 DEF Join
  <2> DEFINE c == Call("join", u, None, perms, "find")
  <2>2. c \in Calls /\ Shape(c) /\ c.kind = "join" /\ c.at = "find"
    BY CallsAssumption DEF Call, Calls, Shape, Kinds, Points
  <2>3. Begin(c) /\ UNCHANGED created
    BY <1>3, <2>1 DEF Join
  <2> HIDE DEF c
  <2> QED BY <1>1, <2>2, <2>3
<1>4. CASE SetPresence
  <2>1. PICK u \in Users : Begin(Call("presence", u, None, {}, "setex"))
    BY <1>4 DEF SetPresence
  <2> DEFINE c == Call("presence", u, None, {}, "setex")
  <2>2. c \in Calls /\ Shape(c) /\ c.kind = "presence" /\ c.at = "setex"
    BY DEF Call, Calls, Shape, Kinds, Points
  <2>3. Begin(c) /\ UNCHANGED created
    BY <1>4, <2>1 DEF SetPresence
  <2> HIDE DEF c
  <2> QED BY <1>1, <2>2, <2>3
<1>5. CASE Leave
  <2>1. PICK u \in Users : Begin(Call("leave", u, None, {}, "del"))
    BY <1>5 DEF Leave
  <2> DEFINE c == Call("leave", u, None, {}, "del")
  <2>2. c \in Calls /\ Shape(c) /\ c.kind = "leave" /\ c.at = "del"
    BY DEF Call, Calls, Shape, Kinds, Points
  <2>3. Begin(c) /\ UNCHANGED created
    BY <1>5, <2>1 DEF Leave
  <2> HIDE DEF c
  <2> QED BY <1>1, <2>2, <2>3
<1>6. CASE Handoff
  <2>1. PICK from \in Users, to \in Users : Begin(Call("handoff", from, to, {}, "find"))
    BY <1>6 DEF Handoff
  <2> DEFINE c == Call("handoff", from, to, {}, "find")
  <2>2. c \in Calls /\ Shape(c) /\ c.kind = "handoff" /\ c.at = "find"
    BY DEF Call, Calls, Shape, Kinds, Points
  <2>3. Begin(c) /\ UNCHANGED created
    BY <1>6, <2>1 DEF Handoff
  <2> HIDE DEF c
  <2> QED BY <1>1, <2>2, <2>3
<1>7. ASSUME NEW p \in Requests, Statement(p) PROVE CalmInv' /\ TidyInv'
  <2>1. Upsert(p) => call[p].kind = "join" \/ call[p].kind = "create"
    BY DEF Upsert, At, IInv, CallShape, InFlight, Shape
  <2>2. CalmInv'
    BY <1>7, <2>1, CalmPlain, CalmCreation, CalmHandoff DEF Statement
  <2>3. TidyInv'
    BY <1>7, TidyPlain, TidyHandoff DEF Statement
  <2> QED BY <2>2, <2>3
<1>8. CASE (\E p \in Requests : Rejected(p)) \/ Expire \/ Crash
  BY <1>8, CalmEnvironment, TidyEnvironment
<1>9. CASE UNCHANGED vars
  <2>1. UNCHANGED <<rows, live, members, localUser, call, history, created>>
    BY <1>9 DEF vars
  <2>2. CalmInv'
    BY <2>1 DEF CalmInv, Calm, OneCall, Outsiders, Ownership, InFlight, Owners, HandingOff,
                Creations
  <2>3. (\A u \in Users : SparesStores(u)) /\ \A u \in Users : OnUser(u)' = OnUser(u)
    BY <2>1 DEF SparesStores, OnUser, InFlight
  <2> QED BY <2>1, <2>2, <2>3, TidySpared
<1> QED BY <1>2, <1>3, <1>4, <1>5, <1>6, <1>7, <1>8, <1>9 DEF Next

LEMMA InductiveCalmTidy == Spec => [](CalmInv /\ TidyInv)
<1>1. Spec => []IInv
  BY Inductive
<1> QED BY <1>1, InitCalmTidy, StepCalmTidy, PTL DEF Spec

(* Calls that never overlap and are never cut short keep exactly one       *)
(* owner, unless the owner leaves or joins again: a handoff's two updates  *)
(* end in a row that is still there.                                       *)
THEOREM SerialCallsKeepTheOwnerHolds == Spec => []SerialCallsKeepTheOwner
<1>1. CalmInv => SerialCallsKeepTheOwner
  BY DEF CalmInv, Calm, Ownership, SerialCallsKeepTheOwner, HandingOff, Creations
<1> QED BY <1>1, InductiveCalmTidy, PTL

(* The rows, the presence keys, the member set and the cursor connection   *)
(* agree on every user whose calls neither overlapped nor were cut short,  *)
(* whatever the calls of the others do meanwhile.                          *)
THEOREM TidyUsersAgreeHolds == Spec => []TidyUsersAgree
<1>1. TidyInv => TidyUsersAgree
  BY DEF TidyInv, Tidy, Settled, TidyUsersAgree
<1> QED BY <1>1, InductiveCalmTidy, PTL

=============================================================================

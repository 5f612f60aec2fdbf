---------------------------- MODULE RoomLedger ----------------------------
(***************************************************************************)
(* What the Postgres layer of the group rooms promises (db/queries.py,     *)
(* "chat rooms"): every operation on a room is one indivisible change of   *)
(* the tables chat_rooms, chat_room_members and users.active_room_id,      *)
(* however the transactions that carry it out interleave.                  *)
(*                                                                         *)
(* The only input an operation may have read too early is the id of the    *)
(* room it acts on (the "peek" of leave, kick, delete and the ban), so     *)
(* Depart, Expel, Delete and SetOpen are enabled for a room that is no     *)
(* longer the one its user is in.  ChatRooms is the detailed specification *)
(* with its transactions, row locks and stale reads; it implements this    *)
(* one.                                                                    *)
(***************************************************************************)
EXTENDS Naturals, FiniteSets

CONSTANTS Users,      \* telegram users
          Rooms,      \* ids of chat_rooms rows, used and not yet used
          Requests,   \* capacities a creator may ask for
          None        \* SQL NULL

ASSUME NoneAssumption == None \notin Users /\ None \notin Rooms
ASSUME RequestsAssumption == Requests \subseteq Nat

VARIABLES status,     \* room -> "unused" | "open" | "closed" | "deleted"
          owner,      \* room -> owner_id
          capacity,   \* room -> capacity
          members,    \* room -> the users with a chat_room_members row
          active,     \* user -> users.active_room_id
          banned      \* the users with is_banned

ledger == <<status, owner, capacity, members, active, banned>>

Statuses == {"unused", "open", "closed", "deleted"}

\* capacity = max(2, min(5, capacity))
Clamp(c) == IF c < 2 THEN 2 ELSE IF c > 5 THEN 5 ELSE c

Live(r) == status[r] \in {"open", "closed"}

Init ==
  /\ status = [r \in Rooms |-> "unused"]
  /\ owner = [r \in Rooms |-> None]
  /\ capacity = [r \in Rooms |-> 0]
  /\ members = [r \in Rooms |-> {}]
  /\ active = [u \in Users |-> None]
  /\ banned = {}

(***************************************************************************)
(* The effects, shared with the transactions of ChatRooms.                 *)
(***************************************************************************)
OpenNewRoom(u, r, c) ==
  /\ status' = [status EXCEPT ![r] = "open"]
  /\ owner' = [owner EXCEPT ![r] = u]
  /\ capacity' = [capacity EXCEPT ![r] = Clamp(c)]
  /\ members' = [members EXCEPT ![r] = {u}]
  /\ active' = [active EXCEPT ![u] = r]
  /\ UNCHANGED banned

AddMember(u, r) ==
  /\ members' = [members EXCEPT ![r] = @ \cup {u}]
  /\ active' = [active EXCEPT ![u] = r]
  /\ UNCHANGED <<status, owner, capacity, banned>>

\* Mutant: the status column is nulled instead of set to deleted.
NullStatus(r, freed) ==
  /\ status' = [status EXCEPT ![r] = None]
  /\ members' = [members EXCEPT ![r] = {}]
  /\ active' = [v \in Users |-> IF v \in freed THEN None ELSE active[v]]
  /\ UNCHANGED <<owner, capacity, banned>>

\* status -> deleted, every listed user is set free, every row is removed.
Dissolve(r, freed) ==
  /\ status' = [status EXCEPT ![r] = "deleted"]
  /\ members' = [members EXCEPT ![r] = {}]
  /\ active' = [v \in Users |-> IF v \in freed THEN None ELSE active[v]]
  /\ UNCHANGED <<owner, capacity, banned>>

\* One member goes; `rest` is what the count after the deletion returned.
RemoveMember(u, r, rest, emptied) ==
  /\ status' = [status EXCEPT ![r] = IF Cardinality(rest) <= 1 THEN emptied ELSE @]
  /\ members' = [members EXCEPT ![r] = @ \ {u}]
  /\ active' = [active EXCEPT ![u] = None]
  /\ UNCHANGED <<owner, capacity, banned>>

DepartAs(u, r, rest) ==
  IF Cardinality(rest) <= 1
  THEN Dissolve(r, rest \cup {u})
  ELSE RemoveMember(u, r, rest, "deleted")

SetStatus(r, s) ==
  /\ status' = [status EXCEPT ![r] = s]
  /\ UNCHANGED <<owner, capacity, members, active, banned>>

(***************************************************************************)
(* The operations.                                                         *)
(***************************************************************************)
Create(u, r, c) ==
  /\ status[r] = "unused"
  /\ active[u] = None
  /\ OpenNewRoom(u, r, c)

Join(u, r) ==
  /\ status[r] = "open"
  /\ active[u] = None
  /\ u \notin members[r]
  /\ Cardinality(members[r]) < capacity[r]
  /\ AddMember(u, r)

\* leave_chat_room and kick_room_member
Depart(u, r) ==
  /\ status[r] # "unused"
  /\ owner[r] # u
  /\ DepartAs(u, r, members[r] \ {u})

Delete(r) ==
  /\ status[r] # "unused"
  /\ Dissolve(r, members[r])

SetOpen(r, s) ==
  /\ Live(r)
  /\ SetStatus(r, s)

Ban(u) ==
  /\ banned' = banned \cup {u}
  /\ UNCHANGED <<status, owner, capacity, members, active>>

\* remove_banned_user_from_room: the room of a banned owner is closed, a
\* banned member goes, and the room is closed (not deleted) when only the
\* owner is left.
Expel(u, r) ==
  /\ Live(r)
  /\ u \in banned
  /\ IF owner[r] = u
     THEN SetStatus(r, "closed")
     ELSE RemoveMember(u, r, members[r] \ {u}, "closed")

Next ==
  \/ \E u \in Users, r \in Rooms, c \in Requests : Create(u, r, c)
  \/ \E u \in Users, r \in Rooms : Join(u, r) \/ Depart(u, r) \/ Expel(u, r)
  \/ \E r \in Rooms : Delete(r) \/ SetOpen(r, "open") \/ SetOpen(r, "closed")
  \/ \E u \in Users : Ban(u)

Spec == Init /\ [][Next]_ledger

-----------------------------------------------------------------------------
(* Properties, inherited by every implementation. *)

LedgerTypeOK ==
  /\ status \in [Rooms -> Statuses]
  /\ owner \in [Rooms -> Users \cup {None}]
  /\ capacity \in [Rooms -> Nat]
  /\ members \in [Rooms -> SUBSET Users]
  /\ active \in [Users -> Rooms \cup {None}]
  /\ banned \in SUBSET Users

\* A room never holds more members than its capacity, and a capacity is
\* between 2 and 5 (join_chat_room counts under the room's row lock).
CapacityRespected ==
  \A r \in Rooms :
    /\ Cardinality(members[r]) <= capacity[r]
    /\ status[r] # "unused" => capacity[r] \in 2 .. 5

\* active_room_id never dangles: it names a live room in which the user has
\* a member row, so whatever the user sends is relayed to a room that counts
\* the user in.  (The converse is not promised: see ChatRooms.)
ActiveIsMember ==
  \A u \in Users : active[u] # None => Live(active[u]) /\ u \in members[active[u]]

\* A room that is not live keeps no member rows behind.
DeadRoomEmpty ==
  \A r \in Rooms : ~ Live(r) => members[r] = {}

\* A deleted room is deleted for good, whoever closes or reopens it and
\* whichever transaction was already under way when it was deleted.
DeletedForGood ==
  [][\A r \in Rooms : status[r] = "deleted" => status'[r] = "deleted"]_ledger
=============================================================================

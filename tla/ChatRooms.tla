----------------------------- MODULE ChatRooms -----------------------------
(***************************************************************************)
(* The transactions of db/queries.py on chat rooms, statement by statement.*)
(*                                                                         *)
(* Three kinds of task run them.  An updater is the bot's dispatcher: it   *)
(* handles one telegram update at a time, and the ban gate of main.py is   *)
(* read once, when the update starts.  A sweeper is a job of the bot's job *)
(* queue (room_join_sweep) and only joins queued users to rooms.  A worker *)
(* is a verdict being carried out by worker.py, another process: it bans a *)
(* user and then puts the user out of the room.                            *)
(*                                                                         *)
(* A transaction is a sequence of steps named by pc: SELECT ... FOR UPDATE *)
(* on a chat_rooms row ("...:room"), on a users row ("...:user"), the      *)
(* reads made under the locks ("...:read") and the writes with the COMMIT  *)
(* ("...:commit"), which the others see only then.  txn[t] holds what the  *)
(* transaction has read: above all the room id that was peeked without a   *)
(* lock, and that SQLAlchemy's identity map gives again at the locked      *)
(* re-read of the same users row (no populate_existing), so that the check *)
(* of that re-read compares the peeked value with itself.                  *)
(***************************************************************************)
EXTENDS RoomLedger

CONSTANTS Updaters, Sweepers, Workers

Tasks == Updaters \cup Sweepers \cup Workers

ASSUME TasksAssumption == None \notin Tasks

VARIABLES roomLock,   \* room -> the task whose transaction locked the row
          userLock,   \* user -> the same for the users row
          pc,         \* task -> the step it takes next
          txn         \* task -> what its transaction has read

locks == <<roomLock, userLock>>
vars == <<status, owner, capacity, members, active, banned, roomLock, userLock, pc, txn>>

Labels ==
  {"idle", "create:user", "create:commit",
   "join:room", "join:user", "join:read", "join:commit",
   "leave:room", "leave:user", "leave:read", "leave:commit",
   "kick:room", "kick:user", "kick:read", "kick:commit",
   "delete:room", "delete:read", "delete:commit", "status:room",
   "ban:peek", "ban:room", "ban:user", "ban:read", "ban:commit"}

\* by: who asked; user: the users row to lock; room: the room's id;
\* size, to: the capacity, the status asked for; seen: member rows read.
Txns == [by : Users \cup {None}, user : Users \cup {None}, room : Rooms \cup {None},
         size : Requests \cup {None}, to : {"open", "closed", None}, seen : SUBSET Users]

NoTxn == [by |-> None, user |-> None, room |-> None, size |-> None, to |-> None,
          seen |-> {}]

RInit ==
  /\ Init
  /\ roomLock = [r \in Rooms |-> None]
  /\ userLock = [u \in Users |-> None]
  /\ pc = [t \in Tasks |-> "idle"]
  /\ txn = [t \in Tasks |-> NoTxn]

-----------------------------------------------------------------------------
(* Statements *)

Start(t, label, record) ==
  /\ pc[t] = "idle"
  /\ pc' = [pc EXCEPT ![t] = label]
  /\ txn' = [txn EXCEPT ![t] = record]
  /\ UNCHANGED <<ledger, locks>>

\* SELECT ... FOR UPDATE waits until no other transaction has the row.
RoomFree(t, r) == roomLock[r] \in {None, t}
UserFree(t, u) == userLock[u] \in {None, t}

LockRoom(t, label) ==
  /\ roomLock' = [roomLock EXCEPT ![txn[t].room] = t]
  /\ pc' = [pc EXCEPT ![t] = label]
  /\ UNCHANGED <<ledger, userLock, txn>>

LockUser(t, label) ==
  /\ userLock' = [userLock EXCEPT ![txn[t].user] = t]
  /\ pc' = [pc EXCEPT ![t] = label]
  /\ UNCHANGED <<ledger, roomLock, txn>>

\* The end of `async with async_session()`: every lock is given back.
Release(t) ==
  /\ roomLock' = [r \in Rooms |-> IF roomLock[r] = t THEN None ELSE roomLock[r]]
  /\ userLock' = [u \in Users |-> IF userLock[u] = t THEN None ELSE userLock[u]]
  /\ pc' = [pc EXCEPT ![t] = "idle"]
  /\ txn' = [txn EXCEPT ![t] = NoTxn]

\* An early return with an error code: nothing was written.
Refuse(t) == Release(t) /\ UNCHANGED ledger

ReadMembers(t, rows, label) ==
  /\ txn' = [txn EXCEPT ![t].seen = rows]
  /\ pc' = [pc EXCEPT ![t] = label]
  /\ UNCHANGED <<ledger, locks>>

\* The UPDATEs of the users rows wait for whoever locked them.
RowsFree(t, rows) == \A u \in rows : UserFree(t, u)

-----------------------------------------------------------------------------
(* create_chat_room *)

CreateStart(t) ==
  \E u \in Users \ banned, c \in Requests :
    Start(t, "create:user", [NoTxn EXCEPT !.by = u, !.user = u, !.size = c])

CreateLockUser(t) ==
  /\ pc[t] = "create:user"
  /\ UserFree(t, txn[t].user)
  /\ IF active[txn[t].user] = None THEN LockUser(t, "create:commit") ELSE Refuse(t)

\* The bound of the model: an INSERT finds no id left in Rooms.
RoomIdsSpent == \A r \in Rooms : status[r] # "unused"

CreateCommit(t) ==
  /\ pc[t] = "create:commit"
  /\ \/ \E r \in Rooms : status[r] = "unused" /\ OpenNewRoom(txn[t].user, r, txn[t].size)
     \/ RoomIdsSpent /\ UNCHANGED ledger
  /\ Release(t)

-----------------------------------------------------------------------------
(* join_chat_room: claimed at once by the searcher (an updater), or for a  *)
(* queued candidate by the trigger that runs after a room was created or a *)
(* seat came free (an updater) and by the sweep (a sweeper).  A queued     *)
(* candidate may have been banned since: the gate is not asked again.      *)

JoinStart(t) ==
  \E u \in Users, r \in Rooms :
    /\ status[r] = "open"
    /\ Start(t, "join:room", [NoTxn EXCEPT !.by = u, !.user = u, !.room = r])

\* Mutant: the room is read without FOR UPDATE.
JoinReadRoomUnlocked(t) ==
  /\ pc[t] = "join:room"
  /\ IF status[txn[t].room] = "open"
     THEN pc' = [pc EXCEPT ![t] = "join:user"] /\ UNCHANGED <<ledger, locks, txn>>
     ELSE Refuse(t)

\* Mutant: the status is not looked at again under the lock.
JoinLockAnyRoom(t) ==
  pc[t] = "join:room" /\ RoomFree(t, txn[t].room) /\ LockRoom(t, "join:user")

JoinLockRoom(t) ==
  /\ pc[t] = "join:room"
  /\ RoomFree(t, txn[t].room)
  /\ IF status[txn[t].room] = "open" THEN LockRoom(t, "join:user") ELSE Refuse(t)

\* Mutant: active_room_id is not looked at again under the lock.
JoinLockAnyUser(t) ==
  pc[t] = "join:user" /\ UserFree(t, txn[t].user) /\ LockUser(t, "join:read")

JoinLockUser(t) ==
  /\ pc[t] = "join:user"
  /\ UserFree(t, txn[t].user)
  /\ IF active[txn[t].user] = None THEN LockUser(t, "join:read") ELSE Refuse(t)

JoinCount(t) ==
  /\ pc[t] = "join:read"
  /\ IF Cardinality(members[txn[t].room]) < capacity[txn[t].room]
     THEN ReadMembers(t, members[txn[t].room], "join:commit")
     ELSE Refuse(t)

\* uq_room_member makes the INSERT fail when the row is already there.
JoinCommit(t) ==
  /\ pc[t] = "join:commit"
  /\ IF txn[t].user \in members[txn[t].room]
     THEN UNCHANGED ledger
     ELSE AddMember(txn[t].user, txn[t].room)
  /\ Release(t)

-----------------------------------------------------------------------------
(* leave_chat_room *)

LeaveStart(t) ==
  \E u \in Users \ banned :
    /\ active[u] # None
    /\ Start(t, "leave:room", [NoTxn EXCEPT !.by = u, !.user = u, !.room = active[u]])

LeaveLockRoom(t) ==
  /\ pc[t] = "leave:room"
  /\ RoomFree(t, txn[t].room)
  /\ LockRoom(t, "leave:user")

\* Mutant: the is_owner answer is forgotten.
OwnerMayLeave(t) ==
  pc[t] = "leave:user" /\ UserFree(t, txn[t].user) /\ LockUser(t, "leave:read")

\* The re-read of the users row takes the lock, but user.active_room_id is
\* the peeked value: the check that it is still room_id always passes.
LeaveLockUser(t) ==
  /\ pc[t] = "leave:user"
  /\ UserFree(t, txn[t].user)
  /\ IF owner[txn[t].room] # txn[t].by THEN LockUser(t, "leave:read") ELSE Refuse(t)

\* DELETE of the own row, then the ids that are left.
LeaveRead(t) ==
  /\ pc[t] = "leave:read"
  /\ ReadMembers(t, members[txn[t].room] \ {txn[t].user}, "leave:commit")

LeaveCommit(t) ==
  /\ pc[t] = "leave:commit"
  /\ Cardinality(txn[t].seen) <= 1 => RowsFree(t, txn[t].seen)
  /\ DepartAs(txn[t].user, txn[t].room, txn[t].seen)
  /\ Release(t)

-----------------------------------------------------------------------------
(* kick_room_member *)

KickStart(t) ==
  \E o \in Users \ banned, u \in Users :
    /\ active[o] # None
    /\ Start(t, "kick:room", [NoTxn EXCEPT !.by = o, !.user = u, !.room = active[o]])

KickLockRoom(t) ==
  /\ pc[t] = "kick:room"
  /\ RoomFree(t, txn[t].room)
  /\ IF owner[txn[t].room] = txn[t].by /\ txn[t].user # txn[t].by
     THEN LockRoom(t, "kick:user")
     ELSE Refuse(t)

\* The target's row was not read before: here the check is a fresh one.
KickLockUser(t) ==
  /\ pc[t] = "kick:user"
  /\ UserFree(t, txn[t].user)
  /\ IF active[txn[t].user] = txn[t].room THEN LockUser(t, "kick:read") ELSE Refuse(t)

KickRead(t) ==
  /\ pc[t] = "kick:read"
  /\ ReadMembers(t, members[txn[t].room] \ {txn[t].user}, "kick:commit")

KickCommit(t) ==
  /\ pc[t] = "kick:commit"
  /\ Cardinality(txn[t].seen) <= 1 => RowsFree(t, txn[t].seen)
  /\ DepartAs(txn[t].user, txn[t].room, txn[t].seen)
  /\ Release(t)

-----------------------------------------------------------------------------
(* delete_chat_room *)

DeleteStart(t) ==
  \E o \in Users \ banned :
    /\ active[o] # None
    /\ Start(t, "delete:room", [NoTxn EXCEPT !.by = o, !.room = active[o]])

\* Mutant: delete_chat_room reads its room without FOR UPDATE.
DeleteReadRoomUnlocked(t) ==
  /\ pc[t] = "delete:room"
  /\ IF owner[txn[t].room] = txn[t].by
     THEN pc' = [pc EXCEPT ![t] = "delete:read"] /\ UNCHANGED <<ledger, locks, txn>>
     ELSE Refuse(t)

DeleteLockRoom(t) ==
  /\ pc[t] = "delete:room"
  /\ RoomFree(t, txn[t].room)
  /\ IF owner[txn[t].room] = txn[t].by THEN LockRoom(t, "delete:read") ELSE Refuse(t)

DeleteRead(t) ==
  /\ pc[t] = "delete:read"
  /\ ReadMembers(t, members[txn[t].room], "delete:commit")

DeleteCommit(t) ==
  /\ pc[t] = "delete:commit"
  /\ RowsFree(t, txn[t].seen)
  /\ Dissolve(txn[t].room, txn[t].seen)
  /\ Release(t)

-----------------------------------------------------------------------------
(* set_room_open_status: one locked row, written and committed at once *)

StatusStart(t) ==
  \E o \in Users \ banned, s \in {"open", "closed"} :
    /\ active[o] # None
    /\ Start(t, "status:room", [NoTxn EXCEPT !.by = o, !.room = active[o], !.to = s])

StatusCommit(t) ==
  /\ pc[t] = "status:room"
  /\ RoomFree(t, txn[t].room)
  /\ IF Live(txn[t].room) /\ owner[txn[t].room] = txn[t].by
     THEN SetStatus(txn[t].room, txn[t].to)
     ELSE UNCHANGED ledger
  /\ Release(t)

-----------------------------------------------------------------------------
(* A verdict: ban_user or the fifth add_warning commits is_banned; then,   *)
(* after the notices are sent, enforce_ban calls                           *)
(* remove_banned_user_from_room.                                           *)

\* Mutant: the ban and the removal share a transaction, which then has the
\* users row before it asks for the room.
BanUserKeepingLock(t) ==
  /\ pc[t] = "idle"
  /\ \E u \in Users :
       /\ UserFree(t, u)
       /\ Ban(u)
       /\ userLock' = [userLock EXCEPT ![u] = t]
       /\ pc' = [pc EXCEPT ![t] = "ban:peek"]
       /\ txn' = [txn EXCEPT ![t] = [NoTxn EXCEPT !.by = u, !.user = u]]
  /\ UNCHANGED roomLock

BanUser(t) ==
  /\ pc[t] = "idle"
  /\ \E u \in Users :
       /\ UserFree(t, u)
       /\ Ban(u)
       /\ pc' = [pc EXCEPT ![t] = "ban:peek"]
       /\ txn' = [txn EXCEPT ![t] = [NoTxn EXCEPT !.by = u, !.user = u]]
  /\ UNCHANGED locks

BanPeek(t) ==
  /\ pc[t] = "ban:peek"
  /\ IF active[txn[t].user] = None
     THEN Refuse(t)
     ELSE /\ pc' = [pc EXCEPT ![t] = "ban:room"]
          /\ txn' = [txn EXCEPT ![t].room = active[txn[t].user]]
          /\ UNCHANGED <<ledger, locks>>

\* Mutant: a room deleted meanwhile is not skipped.
BanLockAnyRoom(t) ==
  /\ pc[t] = "ban:room"
  /\ RoomFree(t, txn[t].room)
  /\ LET r == txn[t].room
     IN  \/ owner[r] = txn[t].by /\ SetStatus(r, "closed") /\ Release(t)
         \/ owner[r] # txn[t].by /\ LockRoom(t, "ban:user")

BanLockRoom(t) ==
  /\ pc[t] = "ban:room"
  /\ RoomFree(t, txn[t].room)
  /\ LET r == txn[t].room
     IN  \/ ~ Live(r) /\ Refuse(t)
         \/ Live(r) /\ owner[r] = txn[t].by /\ SetStatus(r, "closed") /\ Release(t)
         \/ Live(r) /\ owner[r] # txn[t].by /\ LockRoom(t, "ban:user")

\* user.active_room_id = None is flushed, on the peeked row, unchecked.
BanLockUser(t) ==
  /\ pc[t] = "ban:user"
  /\ UserFree(t, txn[t].user)
  /\ LockUser(t, "ban:read")

BanRead(t) ==
  /\ pc[t] = "ban:read"
  /\ ReadMembers(t, members[txn[t].room] \ {txn[t].user}, "ban:commit")

BanCommit(t) ==
  /\ pc[t] = "ban:commit"
  /\ RemoveMember(txn[t].user, txn[t].room, txn[t].seen, "closed")
  /\ Release(t)

-----------------------------------------------------------------------------
\* A statement raises, the process is killed, or a check that is not
\* modelled here refuses (coins, _redis_conflict_check): rolled back.
RollBack(t) == pc[t] # "idle" /\ Refuse(t)

Create_(t) == CreateLockUser(t) \/ CreateCommit(t)
Join_(t) == JoinLockRoom(t) \/ JoinLockUser(t) \/ JoinCount(t) \/ JoinCommit(t)
\* Mutant: the order that leave_chat_room's docstring warns of.
LeaveUserFirst(t) ==
  \/ pc[t] = "leave:room" /\ UserFree(t, txn[t].user) /\ LockUser(t, "leave:user")
  \/ /\ pc[t] = "leave:user"
     /\ RoomFree(t, txn[t].room)
     /\ IF owner[txn[t].room] # txn[t].by THEN LockRoom(t, "leave:read") ELSE Refuse(t)
  \/ LeaveRead(t) \/ LeaveCommit(t)

Leave_(t) == LeaveLockRoom(t) \/ LeaveLockUser(t) \/ LeaveRead(t) \/ LeaveCommit(t)
Kick_(t) == KickLockRoom(t) \/ KickLockUser(t) \/ KickRead(t) \/ KickCommit(t)
Delete_(t) == DeleteLockRoom(t) \/ DeleteRead(t) \/ DeleteCommit(t)
Ban_(t) == BanPeek(t) \/ BanLockRoom(t) \/ BanLockUser(t) \/ BanRead(t) \/ BanCommit(t)

\* The steps of a transaction under way.
Proceed(t) ==
  Create_(t) \/ Join_(t) \/ Leave_(t) \/ Kick_(t) \/ Delete_(t) \/ StatusCommit(t) \/ Ban_(t)

Update(t) == CreateStart(t) \/ JoinStart(t) \/ LeaveStart(t) \/ KickStart(t)
               \/ DeleteStart(t) \/ StatusStart(t)

RNext ==
  \/ \E t \in Updaters : Update(t)
  \/ \E t \in Sweepers : JoinStart(t)
  \/ \E t \in Workers : BanUser(t)
  \/ \E t \in Tasks : Proceed(t) \/ RollBack(t)

RSpec == RInit /\ [][RNext]_vars

\* A transaction that is not waiting goes on, and Postgres serves the
\* waiters of a row in turn, so a row that keeps coming free is obtained.
FairSpec == RSpec /\ \A t \in Tasks : SF_vars(Proceed(t))

-----------------------------------------------------------------------------
(* Properties *)

TypeOK ==
  /\ LedgerTypeOK
  /\ roomLock \in [Rooms -> Tasks \cup {None}]
  /\ userLock \in [Users -> Tasks \cup {None}]
  /\ pc \in [Tasks -> Labels]
  /\ txn \in [Tasks -> Txns]

\* The row that t waits for, as the transaction that has it.
WaitsFor(t) ==
  CASE pc[t] \in {"join:room", "leave:room", "kick:room", "delete:room", "status:room", "ban:room"} ->
         {roomLock[txn[t].room]} \ {None, t}
    [] pc[t] \in {"create:user", "join:user", "leave:user", "kick:user", "ban:user"} ->
         {userLock[txn[t].user]} \ {None, t}
    [] pc[t] \in {"leave:commit", "kick:commit", "delete:commit"} ->
         {userLock[u] : u \in txn[t].seen} \ {None, t}
    [] OTHER -> {}

\* No set of transactions waits only for one another, so the room-then-user
\* order of leave_chat_room's docstring does what it is for.
NoLockCycle ==
  \A S \in (SUBSET Tasks) \ {{}} : \E t \in S : WaitsFor(t) \cap S = {}

\* The owner of a live room keeps the member row, and as long as the owner is
\* not banned also has the room as active room: only delete and the two
\* auto-deletes ever let an owner go, so a room is never left to members whose
\* owner could act but no longer finds the room to close or delete.
OwnerAnchored ==
  \A r \in Rooms :
    Live(r) => /\ owner[r] \in members[r]
               /\ owner[r] \notin banned => active[owner[r]] = r

\* Every transaction ends: it is never starved or deadlocked.
EveryTransactionEnds == \A t \in Tasks : pc[t] # "idle" ~> pc[t] = "idle"

\* What the comment of leave_chat_room's second read says: when the user has
\* left room_id between the peek and the lock, the call changes nothing.
LeaveActsOnCurrentRoom ==
  [][\A t \in Tasks : LeaveCommit(t) => active[txn[t].user] = txn[t].room]_vars

\* What remove_banned_user_from_room's docstring says: after a ban has closed
\* the room of a banned owner, nobody opens it again.
BannedOwnerStaysClosed ==
  [][\A r \in Rooms :
       status[r] = "closed" /\ owner[r] \in banned => status'[r] # "open"]_vars

\* The detailed specification implements the indivisible operations.
LedgerSpec == Spec
=============================================================================

-------------------------- MODULE ChatRoomsProofs --------------------------
(***************************************************************************)
(* ChatRooms implements RoomLedger, for any users, rooms and tasks, so its *)
(* transactions inherit the properties of RoomLedger.                      *)
(*                                                                         *)
(* The inductive invariant says what each transaction may rely on at each  *)
(* of its steps: the rows it has locked are its own (RowsHeld), and what   *)
(* it has read under those locks is still so (ReadsHold).  A step of       *)
(* another task cannot take this away (Frame): it only changes rows that   *)
(* are free or its own, or sets an active_room_id to NULL.                 *)
(***************************************************************************)
EXTENDS ChatRooms, RoomLedgerProofs

RoomLocked ==
  {"join:user", "join:read", "join:commit", "leave:user", "leave:read", "leave:commit",
   "kick:user", "kick:read", "kick:commit", "delete:read", "delete:commit",
   "ban:user", "ban:read", "ban:commit"}

RoomKnown == RoomLocked \cup
  {"join:room", "leave:room", "kick:room", "delete:room", "status:room", "ban:room"}

UserLocked ==
  {"create:commit", "join:read", "join:commit", "leave:read", "leave:commit",
   "kick:read", "kick:commit", "ban:read", "ban:commit"}

UserKnown == UserLocked \cup
  {"create:user", "join:room", "join:user", "leave:room", "leave:user",
   "kick:room", "kick:user", "ban:peek", "ban:room", "ban:user"}

RowsHeld(t) ==
  /\ pc[t] \in RoomKnown => txn[t].room \in Rooms /\ status[txn[t].room] # "unused"
  /\ pc[t] \in UserKnown => txn[t].user \in Users
  /\ pc[t] \in RoomLocked => roomLock[txn[t].room] = t
  /\ pc[t] \in UserLocked => userLock[txn[t].user] = t

ReadsHold(t) ==
  /\ pc[t] \in {"create:user", "create:commit"} => txn[t].size \in Requests
  /\ pc[t] = "status:room" => txn[t].to \in {"open", "closed"}
  /\ pc[t] \in {"create:commit", "join:read", "join:commit"} => active[txn[t].user] = None
  /\ pc[t] \in {"join:user", "join:read", "join:commit"} => status[txn[t].room] = "open"
  /\ pc[t] = "join:commit" => Cardinality(members[txn[t].room]) < capacity[txn[t].room]
  /\ pc[t] \in {"leave:room", "leave:user", "ban:peek", "ban:room"} => txn[t].by = txn[t].user
  /\ pc[t] \in {"leave:read", "leave:commit", "kick:user", "kick:read", "kick:commit",
                "ban:user", "ban:read", "ban:commit"}
       => owner[txn[t].room] # txn[t].user
  /\ pc[t] \in {"leave:commit", "kick:commit", "ban:commit"}
       => txn[t].seen = members[txn[t].room] \ {txn[t].user}
  /\ pc[t] = "delete:commit" => txn[t].seen = members[txn[t].room]
  /\ pc[t] \in {"ban:peek", "ban:room", "ban:user", "ban:read", "ban:commit"}
       => txn[t].user \in banned
  /\ pc[t] \in {"ban:user", "ban:read", "ban:commit"} => Live(txn[t].room)

TaskTypes ==
  /\ roomLock \in [Rooms -> Tasks \cup {None}]
  /\ userLock \in [Users -> Tasks \cup {None}]
  /\ pc \in [Tasks -> Labels]
  /\ txn \in [Tasks -> Txns]

RInv ==
  /\ LedgerInv
  /\ TaskTypes
  /\ \A t \in Tasks : RowsHeld(t) /\ ReadsHold(t)

-----------------------------------------------------------------------------
(* What a step of t leaves to the others. *)

LockFrame(t) ==
  /\ \A r \in Rooms : roomLock[r] \notin {None, t} => roomLock'[r] = roomLock[r]
  /\ \A u \in Users : userLock[u] \notin {None, t} => userLock'[u] = userLock[u]
  /\ \A x \in Tasks \ {t} : pc'[x] = pc[x] /\ txn'[x] = txn[x]

LedgerFrame(t) ==
  /\ \A r \in Rooms : status[r] # "unused" =>
       /\ status'[r] # "unused"
       /\ owner'[r] = owner[r]
       /\ capacity'[r] = capacity[r]
       /\ roomLock[r] \notin {None, t} => status'[r] = status[r] /\ members'[r] = members[r]
  /\ \A u \in Users : userLock[u] \notin {None, t} => active'[u] \in {active[u], None}
  /\ banned \subseteq banned'

\* What each step of t establishes.
Good(t) ==
  /\ TaskTypes'
  /\ RowsHeld(t)' /\ ReadsHold(t)'
  /\ LockFrame(t) /\ LedgerFrame(t)
  /\ [Next]_ledger

\* A step that changes no row changes nothing another task has read.
LEMMA QuietFrame ==
  ASSUME LedgerInv, NEW t, UNCHANGED ledger
  PROVE  LedgerFrame(t) /\ [Next]_ledger
  BY DEF ledger, LedgerFrame

-----------------------------------------------------------------------------
(* The statements. *)

\* The end of a transaction gives its locks back and no one else's.
LEMMA ReleaseStep ==
  ASSUME TaskTypes, NEW t \in Tasks, Release(t)
  PROVE  TaskTypes' /\ LockFrame(t) /\ RowsHeld(t)' /\ ReadsHold(t)'
  <1>1. TaskTypes'
    BY DEF TaskTypes, Release, Labels, Txns, NoTxn
  <1>2. LockFrame(t)
    BY DEF TaskTypes, Release, LockFrame
  <1>3. pc'[t] = "idle"
    BY DEF TaskTypes, Release
  <1>4. RowsHeld(t)' /\ ReadsHold(t)'
    BY <1>3 DEF RowsHeld, ReadsHold, RoomLocked, RoomKnown, UserLocked, UserKnown
  <1> QED
    BY <1>1, <1>2, <1>4

\* Refusals and rollbacks write nothing.
LEMMA RefuseStep ==
  ASSUME RInv, NEW t \in Tasks, Refuse(t)
  PROVE  Good(t)
  BY ReleaseStep, QuietFrame DEF RInv, Refuse, Good

\* Taking the room's lock: held from now on, and nobody else's.
LEMMA LockRoomStep ==
  ASSUME RInv, NEW t \in Tasks, NEW l \in Labels, pc[t] \in RoomKnown,
         RoomFree(t, txn[t].room), LockRoom(t, l)
  PROVE  /\ TaskTypes' /\ LockFrame(t) /\ LedgerFrame(t) /\ [Next]_ledger
         /\ roomLock'[txn[t].room] = t
         /\ pc'[t] = l /\ UNCHANGED <<status, owner, capacity, members, active, banned, userLock, txn>>
  <1>1. txn[t].room \in Rooms
    BY DEF RInv, RowsHeld
  <1>2. TaskTypes'
    BY <1>1 DEF RInv, TaskTypes, LockRoom
  <1>3. LockFrame(t) /\ roomLock'[txn[t].room] = t /\ pc'[t] = l
    BY <1>1 DEF RInv, TaskTypes, LockRoom, LockFrame, RoomFree
  <1> QED
    BY <1>2, <1>3, QuietFrame DEF LockRoom, RInv, ledger

\* Taking the user's lock: held from now on, and nobody else's.
LEMMA LockUserStep ==
  ASSUME RInv, NEW t \in Tasks, NEW l \in Labels, pc[t] \in UserKnown,
         UserFree(t, txn[t].user), LockUser(t, l)
  PROVE  /\ TaskTypes' /\ LockFrame(t) /\ LedgerFrame(t) /\ [Next]_ledger
         /\ userLock'[txn[t].user] = t
         /\ pc'[t] = l /\ UNCHANGED <<status, owner, capacity, members, active, banned, roomLock, txn>>
  <1>1. txn[t].user \in Users
    BY DEF RInv, RowsHeld
  <1>2. TaskTypes'
    BY <1>1 DEF RInv, TaskTypes, LockUser
  <1>3. LockFrame(t) /\ userLock'[txn[t].user] = t /\ pc'[t] = l
    BY <1>1 DEF RInv, TaskTypes, LockUser, LockFrame, UserFree
  <1> QED
    BY <1>2, <1>3, QuietFrame DEF LockUser, RInv, ledger

\* A read under the locks: what it finds is so.
LEMMA ReadStep ==
  ASSUME RInv, NEW t \in Tasks, NEW l \in Labels, NEW rows \in SUBSET Users,
         ReadMembers(t, rows, l)
  PROVE  /\ TaskTypes' /\ LockFrame(t) /\ LedgerFrame(t) /\ [Next]_ledger
         /\ pc'[t] = l /\ UNCHANGED <<status, owner, capacity, members, active, banned, roomLock, userLock>>
         /\ txn'[t] = [txn[t] EXCEPT !.seen = rows]
  <1>1. TaskTypes'
    BY DEF RInv, TaskTypes, ReadMembers, Txns, locks
  <1>2. LockFrame(t) /\ pc'[t] = l /\ txn'[t] = [txn[t] EXCEPT !.seen = rows]
    BY DEF RInv, TaskTypes, ReadMembers, LockFrame, locks
  <1> QED
    BY <1>1, <1>2, QuietFrame DEF ReadMembers, RInv, ledger, locks

\* A task that starts holds nothing and has read nothing but the peek.
LEMMA StartStep ==
  ASSUME RInv, NEW t \in Tasks, NEW l \in Labels, NEW record \in Txns,
         Start(t, l, record)
  PROVE  /\ TaskTypes' /\ LockFrame(t) /\ LedgerFrame(t) /\ [Next]_ledger
         /\ pc'[t] = l /\ UNCHANGED <<status, owner, capacity, members, active, banned, roomLock, userLock>>
         /\ txn'[t] = record
  <1>1. TaskTypes'
    BY DEF RInv, TaskTypes, Start, locks
  <1>2. LockFrame(t) /\ pc'[t] = l /\ txn'[t] = record
    BY DEF RInv, TaskTypes, Start, LockFrame, locks
  <1> QED
    BY <1>1, <1>2, QuietFrame DEF Start, RInv, ledger, locks

\* What RInv says of the task that takes a step.
LEMMA Own ==
  ASSUME RInv, NEW t \in Tasks
  PROVE  RowsHeld(t) /\ ReadsHold(t) /\ txn[t] \in Txns
  BY DEF RInv, TaskTypes

-----------------------------------------------------------------------------
(* The steps, operation by operation. *)

\* create_chat_room: the owner's row stays locked from the check to the commit.
LEMMA CreateGood ==
  ASSUME RInv, NEW t \in Tasks, CreateStart(t) \/ Create_(t)
  PROVE  Good(t)
  <1>1. CASE CreateStart(t)
    <2>1. PICK u \in Users, c \in Requests :
            Start(t, "create:user", [NoTxn EXCEPT !.by = u, !.user = u, !.size = c])
      BY <1>1 DEF CreateStart
    <2> DEFINE record == [NoTxn EXCEPT !.by = u, !.user = u, !.size = c]
    <2>2. record \in Txns /\ record.user = u /\ record.size = c
      BY DEF NoTxn, Txns
    <2>3. Start(t, "create:user", record)
      BY <2>1
    <2> HIDE DEF record
    <2>4. /\ TaskTypes' /\ LockFrame(t) /\ LedgerFrame(t) /\ [Next]_ledger
          /\ pc'[t] = "create:user" /\ txn'[t] = record
      BY <2>2, <2>3, StartStep DEF Labels
    <2>5. RowsHeld(t)'
      BY <2>2, <2>4 DEF RowsHeld, RoomLocked, RoomKnown, UserLocked, UserKnown
    <2>6. ReadsHold(t)'
      BY <2>2, <2>4 DEF ReadsHold
    <2> QED
      BY <2>4, <2>5, <2>6 DEF Good
  <1>2. CASE CreateLockUser(t)
    <2>1. CASE active[txn[t].user] # None
      BY <1>2, <2>1, RefuseStep DEF CreateLockUser
    <2>2. CASE active[txn[t].user] = None
      <3>1. LockUser(t, "create:commit") /\ UserFree(t, txn[t].user) /\ pc[t] = "create:user"
        BY <1>2, <2>2 DEF CreateLockUser
      <3>2. /\ TaskTypes' /\ LockFrame(t) /\ LedgerFrame(t) /\ [Next]_ledger
            /\ pc'[t] = "create:commit" /\ userLock'[txn[t].user] = t
            /\ UNCHANGED <<active, txn>>
        BY <3>1, LockUserStep DEF Labels, UserKnown
      <3>3. RowsHeld(t)'
        BY <3>1, <3>2, Own DEF RowsHeld, RoomLocked, RoomKnown, UserLocked, UserKnown
      <3>4. ReadsHold(t)'
        BY <2>2, <3>1, <3>2, Own DEF ReadsHold
      <3> QED
        BY <3>2, <3>3, <3>4 DEF Good
    <2> QED
      BY <2>1, <2>2
  <1>3. CASE CreateCommit(t)
    <2>1. pc[t] = "create:commit" /\ Release(t)
      BY <1>3 DEF CreateCommit
    <2>2. txn[t].user \in Users /\ txn[t].size \in Requests /\ active[txn[t].user] = None
          /\ userLock[txn[t].user] = t
      BY <2>1, Own DEF RowsHeld, ReadsHold, UserLocked, UserKnown
    <2>3. CASE UNCHANGED ledger
      BY <2>1, <2>3, ReleaseStep, QuietFrame DEF Good, RInv
    <2>4. CASE \E r \in Rooms :
                 status[r] = "unused" /\ OpenNewRoom(txn[t].user, r, txn[t].size)
      <3>1. PICK r \in Rooms : status[r] = "unused" /\ OpenNewRoom(txn[t].user, r, txn[t].size)
        BY <2>4
      <3>2. Create(txn[t].user, r, txn[t].size)
        BY <2>2, <3>1 DEF Create
      <3>3. LedgerFrame(t)
        BY <2>2, <3>1 DEF LedgerFrame, OpenNewRoom, RInv, LedgerInv, LedgerTypeOK
      <3> QED
        BY <2>1, <2>2, <3>2, <3>3, ReleaseStep DEF Good, RInv, Next
    <2> QED
      BY <1>3, <2>3, <2>4 DEF CreateCommit
  <1> QED
    BY <1>1, <1>2, <1>3 DEF Create_

\* join_chat_room: the room's row is locked from the status check on, so the
\* count of the members is still right at the commit.
LEMMA JoinGood ==
  ASSUME RInv, NEW t \in Tasks, JoinStart(t) \/ Join_(t)
  PROVE  Good(t)
  <1>1. CASE JoinStart(t)
    <2>1. PICK u \in Users, r \in Rooms :
            /\ status[r] = "open"
            /\ Start(t, "join:room", [NoTxn EXCEPT !.by = u, !.user = u, !.room = r])
      BY <1>1 DEF JoinStart
    <2> DEFINE record == [NoTxn EXCEPT !.by = u, !.user = u, !.room = r]
    <2>2. record \in Txns /\ record.user = u /\ record.room = r
      BY DEF NoTxn, Txns
    <2>3. Start(t, "join:room", record)
      BY <2>1
    <2> HIDE DEF record
    <2>4. /\ TaskTypes' /\ LockFrame(t) /\ LedgerFrame(t) /\ [Next]_ledger
          /\ pc'[t] = "join:room" /\ txn'[t] = record /\ UNCHANGED status
      BY <2>2, <2>3, StartStep DEF Labels
    <2>5. RowsHeld(t)'
      BY <2>1, <2>2, <2>4 DEF RowsHeld, RoomLocked, RoomKnown, UserLocked, UserKnown
    <2>6. ReadsHold(t)'
      BY <2>2, <2>4 DEF ReadsHold
    <2> QED
      BY <2>4, <2>5, <2>6 DEF Good
  <1>2. CASE JoinLockRoom(t)
    <2>1. CASE status[txn[t].room] # "open"
      BY <1>2, <2>1, RefuseStep DEF JoinLockRoom
    <2>2. CASE status[txn[t].room] = "open"
      <3>1. LockRoom(t, "join:user") /\ RoomFree(t, txn[t].room) /\ pc[t] = "join:room"
        BY <1>2, <2>2 DEF JoinLockRoom
      <3>2. /\ TaskTypes' /\ LockFrame(t) /\ LedgerFrame(t) /\ [Next]_ledger
            /\ pc'[t] = "join:user" /\ roomLock'[txn[t].room] = t
            /\ UNCHANGED <<status, txn>>
        BY <3>1, LockRoomStep DEF Labels, RoomKnown
      <3>3. RowsHeld(t)'
        BY <3>1, <3>2, Own DEF RowsHeld, RoomLocked, RoomKnown, UserLocked, UserKnown
      <3>4. ReadsHold(t)'
        BY <2>2, <3>1, <3>2, Own DEF ReadsHold
      <3> QED
        BY <3>2, <3>3, <3>4 DEF Good
    <2> QED
      BY <2>1, <2>2
  <1>3. CASE JoinLockUser(t)
    <2>1. CASE active[txn[t].user] # None
      BY <1>3, <2>1, RefuseStep DEF JoinLockUser
    <2>2. CASE active[txn[t].user] = None
      <3>1. LockUser(t, "join:read") /\ UserFree(t, txn[t].user) /\ pc[t] = "join:user"
        BY <1>3, <2>2 DEF JoinLockUser
      <3>2. /\ TaskTypes' /\ LockFrame(t) /\ LedgerFrame(t) /\ [Next]_ledger
            /\ pc'[t] = "join:read" /\ userLock'[txn[t].user] = t
            /\ UNCHANGED <<status, active, roomLock, txn>>
        BY <3>1, LockUserStep DEF Labels, UserKnown
      <3>3. RowsHeld(t)'
        BY <3>1, <3>2, Own DEF RowsHeld, RoomLocked, RoomKnown, UserLocked, UserKnown
      <3>4. ReadsHold(t)'
        BY <2>2, <3>1, <3>2, Own DEF ReadsHold
      <3> QED
        BY <3>2, <3>3, <3>4 DEF Good
    <2> QED
      BY <2>1, <2>2
  <1>4. CASE JoinCount(t)
    <2> DEFINE r == txn[t].room
    <2>1. CASE ~ (Cardinality(members[r]) < capacity[r])
      BY <1>4, <2>1, RefuseStep DEF JoinCount
    <2>2. CASE Cardinality(members[r]) < capacity[r]
      <3>1. ReadMembers(t, members[r], "join:commit") /\ pc[t] = "join:read"
        BY <1>4, <2>2 DEF JoinCount
      <3>2. r \in Rooms
        BY <3>1, Own DEF RowsHeld, RoomLocked, RoomKnown
      <3>3. members[r] \in SUBSET Users
        BY <3>2 DEF RInv, LedgerInv, LedgerTypeOK
      <3>4. /\ TaskTypes' /\ LockFrame(t) /\ LedgerFrame(t) /\ [Next]_ledger
            /\ pc'[t] = "join:commit"
            /\ txn'[t] = [txn[t] EXCEPT !.seen = members[r]]
            /\ UNCHANGED <<status, capacity, members, active, roomLock, userLock>>
        BY <3>1, <3>3, ReadStep DEF Labels
      <3>5. txn'[t].room = r /\ txn'[t].user = txn[t].user
        BY <3>4, Own DEF Txns
      <3> HIDE DEF r
      <3>6. RowsHeld(t)'
        BY <3>1, <3>4, <3>5, Own DEF RowsHeld, RoomLocked, RoomKnown, UserLocked, UserKnown, r
      <3>7. ReadsHold(t)'
        BY <2>2, <3>1, <3>4, <3>5, Own DEF ReadsHold, r
      <3> QED
        BY <3>4, <3>6, <3>7 DEF Good
    <2> QED
      BY <2>1, <2>2
  <1>5. CASE JoinCommit(t)
    <2> DEFINE r == txn[t].room  u == txn[t].user
    <2>1. pc[t] = "join:commit" /\ Release(t)
      BY <1>5 DEF JoinCommit
    <2>2. /\ r \in Rooms /\ u \in Users /\ status[r] = "open" /\ active[u] = None
          /\ Cardinality(members[r]) < capacity[r]
          /\ roomLock[r] = t /\ userLock[u] = t
      BY <2>1, Own DEF RowsHeld, ReadsHold, RoomLocked, RoomKnown, UserLocked, UserKnown
    <2>3. CASE u \in members[r]
      BY <1>5, <2>1, <2>3, ReleaseStep, QuietFrame DEF Good, RInv, JoinCommit
    <2>4. CASE u \notin members[r]
      <3>1. AddMember(u, r) /\ Join(u, r)
        BY <1>5, <2>2, <2>4 DEF JoinCommit, Join
      <3>2. LedgerFrame(t)
        BY <2>2, <3>1 DEF LedgerFrame, AddMember, RInv, LedgerInv, LedgerTypeOK
      <3> QED
        BY <2>1, <2>2, <3>1, <3>2, ReleaseStep DEF Good, RInv, Next
    <2> QED
      BY <2>3, <2>4
  <1> QED
    BY <1>1, <1>2, <1>3, <1>4, <1>5 DEF Join_

\* The last step of leave_chat_room and kick_room_member.
LEMMA DepartGood ==
  ASSUME RInv, NEW t \in Tasks, NEW r \in Rooms, NEW u \in Users, Release(t),
         DepartAs(u, r, members[r] \ {u}), status[r] # "unused", owner[r] # u,
         roomLock[r] = t, userLock[u] = t,
         Cardinality(members[r] \ {u}) <= 1 => RowsFree(t, members[r] \ {u})
  PROVE  Good(t)
  <1>1. Depart(u, r)
    BY DEF Depart
  <1>2. LedgerFrame(t)
    <2>1. CASE Cardinality(members[r] \ {u}) <= 1
      BY <2>1 DEF DepartAs, Dissolve, RowsFree, UserFree, LedgerFrame, RInv, LedgerInv, LedgerTypeOK
    <2>2. CASE ~ (Cardinality(members[r] \ {u}) <= 1)
      BY <2>2 DEF DepartAs, RemoveMember, LedgerFrame, RInv, LedgerInv, LedgerTypeOK
    <2> QED
      BY <2>1, <2>2
  <1> QED
    BY <1>1, <1>2, ReleaseStep DEF Good, RInv, Next

\* leave_chat_room: what the peek gave may be stale, but the owner and the
\* member rows are read under the room's lock.
LEMMA LeaveGood ==
  ASSUME RInv, NEW t \in Tasks, LeaveStart(t) \/ Leave_(t)
  PROVE  Good(t)
  <1>1. CASE LeaveStart(t)
    <2>1. PICK u \in Users \ banned :
            /\ active[u] # None
            /\ Start(t, "leave:room", [NoTxn EXCEPT !.by = u, !.user = u, !.room = active[u]])
      BY <1>1 DEF LeaveStart
    <2> DEFINE record == [NoTxn EXCEPT !.by = u, !.user = u, !.room = active[u]]
    <2>0. active[u] \in Rooms /\ status[active[u]] # "unused"
      BY <2>1 DEF RInv, LedgerInv, LedgerTypeOK, ActiveIsMember, Live
    <2>2. record \in Txns /\ record.by = u /\ record.user = u /\ record.room = active[u]
      BY <2>0 DEF NoTxn, Txns
    <2>3. Start(t, "leave:room", record)
      BY <2>1
    <2> HIDE DEF record
    <2>4. /\ TaskTypes' /\ LockFrame(t) /\ LedgerFrame(t) /\ [Next]_ledger
          /\ pc'[t] = "leave:room" /\ txn'[t] = record /\ UNCHANGED <<status, active>>
      BY <2>2, <2>3, StartStep DEF Labels
    <2>5. RowsHeld(t)'
      BY <2>0, <2>1, <2>2, <2>4 DEF RowsHeld, RoomLocked, RoomKnown, UserLocked, UserKnown
    <2>6. ReadsHold(t)'
      BY <2>0, <2>1, <2>2, <2>4 DEF ReadsHold
    <2> QED
      BY <2>4, <2>5, <2>6 DEF Good
  <1>2. CASE LeaveLockRoom(t)
    <2>1. LockRoom(t, "leave:user") /\ RoomFree(t, txn[t].room) /\ pc[t] = "leave:room"
      BY <1>2 DEF LeaveLockRoom
    <2>2. /\ TaskTypes' /\ LockFrame(t) /\ LedgerFrame(t) /\ [Next]_ledger
          /\ pc'[t] = "leave:user" /\ roomLock'[txn[t].room] = t
          /\ UNCHANGED <<status, owner, txn>>
      BY <2>1, LockRoomStep DEF Labels, RoomKnown
    <2>3. RowsHeld(t)'
      BY <2>1, <2>2, Own DEF RowsHeld, RoomLocked, RoomKnown, UserLocked, UserKnown
    <2>4. ReadsHold(t)'
      BY <2>1, <2>2, Own DEF ReadsHold
    <2> QED
      BY <2>2, <2>3, <2>4 DEF Good
  <1>3. CASE LeaveLockUser(t)
    <2>1. CASE ~ (owner[txn[t].room] # txn[t].by)
      BY <1>3, <2>1, RefuseStep DEF LeaveLockUser
    <2>2. CASE owner[txn[t].room] # txn[t].by
      <3>1. LockUser(t, "leave:read") /\ UserFree(t, txn[t].user) /\ pc[t] = "leave:user"
        BY <1>3, <2>2 DEF LeaveLockUser
      <3>2. /\ TaskTypes' /\ LockFrame(t) /\ LedgerFrame(t) /\ [Next]_ledger
            /\ pc'[t] = "leave:read" /\ userLock'[txn[t].user] = t
            /\ UNCHANGED <<status, owner, roomLock, txn>>
        BY <3>1, LockUserStep DEF Labels, UserKnown
      <3>3. RowsHeld(t)'
        BY <3>1, <3>2, Own DEF RowsHeld, RoomLocked, RoomKnown, UserLocked, UserKnown
      <3>4. ReadsHold(t)'
        BY <2>2, <3>1, <3>2, Own DEF ReadsHold
      <3> QED
        BY <3>2, <3>3, <3>4 DEF Good
    <2> QED
      BY <2>1, <2>2
  <1>4. CASE LeaveRead(t)
    <2> DEFINE rows == members[txn[t].room] \ {txn[t].user}
    <2>1. ReadMembers(t, rows, "leave:commit") /\ pc[t] = "leave:read"
      BY <1>4 DEF LeaveRead
    <2>2. txn[t].room \in Rooms
      BY <2>1, Own DEF RowsHeld, RoomLocked, RoomKnown
    <2>3. rows \in SUBSET Users
      BY <2>2 DEF RInv, LedgerInv, LedgerTypeOK
    <2> HIDE DEF rows
    <2>4. /\ TaskTypes' /\ LockFrame(t) /\ LedgerFrame(t) /\ [Next]_ledger
          /\ pc'[t] = "leave:commit"
          /\ txn'[t] = [txn[t] EXCEPT !.seen = rows]
          /\ UNCHANGED <<status, owner, members, banned, roomLock, userLock>>
      BY <2>1, <2>3, ReadStep DEF Labels
    <2>5. /\ txn'[t].room = txn[t].room /\ txn'[t].user = txn[t].user
          /\ txn'[t].seen = rows
      BY <2>4, Own DEF Txns
    <2>6. RowsHeld(t)'
      BY <2>1, <2>4, <2>5, Own DEF RowsHeld, RoomLocked, RoomKnown, UserLocked, UserKnown
    <2>7. ReadsHold(t)'
      BY <2>1, <2>4, <2>5, Own DEF ReadsHold, Live, rows
    <2> QED
      BY <2>4, <2>6, <2>7 DEF Good
  <1>5. CASE LeaveCommit(t)
    <2> DEFINE r == txn[t].room  u == txn[t].user
    <2>1. pc[t] = "leave:commit" /\ Release(t) /\ DepartAs(u, r, txn[t].seen)
          /\ (Cardinality(txn[t].seen) <= 1 => RowsFree(t, txn[t].seen))
      BY <1>5 DEF LeaveCommit
    <2>2. /\ r \in Rooms /\ u \in Users /\ status[r] # "unused" /\ owner[r] # u
          /\ roomLock[r] = t /\ userLock[u] = t
          /\ txn[t].seen = members[r] \ {u}
      BY <2>1, Own DEF RowsHeld, ReadsHold, RoomLocked, RoomKnown, UserLocked, UserKnown
    <2> HIDE DEF r, u
    <2> QED
      BY <2>1, <2>2, DepartGood DEF r, u
  <1> QED
    BY <1>1, <1>2, <1>3, <1>4, <1>5 DEF Leave_

\* kick_room_member: the owner is never the target.
LEMMA KickGood ==
  ASSUME RInv, NEW t \in Tasks, KickStart(t) \/ Kick_(t)
  PROVE  Good(t)
  <1>1. CASE KickStart(t)
    <2>1. PICK o \in Users \ banned, u \in Users :
            /\ active[o] # None
            /\ Start(t, "kick:room", [NoTxn EXCEPT !.by = o, !.user = u, !.room = active[o]])
      BY <1>1 DEF KickStart
    <2> DEFINE record == [NoTxn EXCEPT !.by = o, !.user = u, !.room = active[o]]
    <2>0. active[o] \in Rooms /\ status[active[o]] # "unused"
      BY <2>1 DEF RInv, LedgerInv, LedgerTypeOK, ActiveIsMember, Live
    <2>2. record \in Txns /\ record.by = o /\ record.user = u /\ record.room = active[o]
      BY <2>0 DEF NoTxn, Txns
    <2>3. Start(t, "kick:room", record)
      BY <2>1
    <2> HIDE DEF record
    <2>4. /\ TaskTypes' /\ LockFrame(t) /\ LedgerFrame(t) /\ [Next]_ledger
          /\ pc'[t] = "kick:room" /\ txn'[t] = record /\ UNCHANGED <<status, active>>
      BY <2>2, <2>3, StartStep DEF Labels
    <2>5. RowsHeld(t)'
      BY <2>0, <2>1, <2>2, <2>4 DEF RowsHeld, RoomLocked, RoomKnown, UserLocked, UserKnown
    <2>6. ReadsHold(t)'
      BY <2>0, <2>1, <2>2, <2>4 DEF ReadsHold
    <2> QED
      BY <2>4, <2>5, <2>6 DEF Good
  <1>2. CASE KickLockRoom(t)
    <2>1. CASE ~ (owner[txn[t].room] = txn[t].by /\ txn[t].user # txn[t].by)
      BY <1>2, <2>1, RefuseStep DEF KickLockRoom
    <2>2. CASE owner[txn[t].room] = txn[t].by /\ txn[t].user # txn[t].by
      <3>1. LockRoom(t, "kick:user") /\ RoomFree(t, txn[t].room) /\ pc[t] = "kick:room"
        BY <1>2, <2>2 DEF KickLockRoom
      <3>2. /\ TaskTypes' /\ LockFrame(t) /\ LedgerFrame(t) /\ [Next]_ledger
            /\ pc'[t] = "kick:user" /\ roomLock'[txn[t].room] = t
            /\ UNCHANGED <<status, owner, txn>>
        BY <3>1, LockRoomStep DEF Labels, RoomKnown
      <3>3. RowsHeld(t)'
        BY <3>1, <3>2, Own DEF RowsHeld, RoomLocked, RoomKnown, UserLocked, UserKnown
      <3>4. ReadsHold(t)'
        BY <2>2, <3>1, <3>2, Own DEF ReadsHold
      <3> QED
        BY <3>2, <3>3, <3>4 DEF Good
    <2> QED
      BY <2>1, <2>2
  <1>3. CASE KickLockUser(t)
    <2>1. CASE ~ (active[txn[t].user] = txn[t].room)
      BY <1>3, <2>1, RefuseStep DEF KickLockUser
    <2>2. CASE active[txn[t].user] = txn[t].room
      <3>1. LockUser(t, "kick:read") /\ UserFree(t, txn[t].user) /\ pc[t] = "kick:user"
        BY <1>3, <2>2 DEF KickLockUser
      <3>2. /\ TaskTypes' /\ LockFrame(t) /\ LedgerFrame(t) /\ [Next]_ledger
            /\ pc'[t] = "kick:read" /\ userLock'[txn[t].user] = t
            /\ UNCHANGED <<status, owner, roomLock, txn>>
        BY <3>1, LockUserStep DEF Labels, UserKnown
      <3>3. RowsHeld(t)'
        BY <3>1, <3>2, Own DEF RowsHeld, RoomLocked, RoomKnown, UserLocked, UserKnown
      <3>4. ReadsHold(t)'
        BY <2>2, <3>1, <3>2, Own DEF ReadsHold
      <3> QED
        BY <3>2, <3>3, <3>4 DEF Good
    <2> QED
      BY <2>1, <2>2
  <1>4. CASE KickRead(t)
    <2> DEFINE rows == members[txn[t].room] \ {txn[t].user}
    <2>1. ReadMembers(t, rows, "kick:commit") /\ pc[t] = "kick:read"
      BY <1>4 DEF KickRead
    <2>2. txn[t].room \in Rooms
      BY <2>1, Own DEF RowsHeld, RoomLocked, RoomKnown
    <2>3. rows \in SUBSET Users
      BY <2>2 DEF RInv, LedgerInv, LedgerTypeOK
    <2> HIDE DEF rows
    <2>4. /\ TaskTypes' /\ LockFrame(t) /\ LedgerFrame(t) /\ [Next]_ledger
          /\ pc'[t] = "kick:commit"
          /\ txn'[t] = [txn[t] EXCEPT !.seen = rows]
          /\ UNCHANGED <<status, owner, members, banned, roomLock, userLock>>
      BY <2>1, <2>3, ReadStep DEF Labels
    <2>5. /\ txn'[t].room = txn[t].room /\ txn'[t].user = txn[t].user
          /\ txn'[t].seen = rows
      BY <2>4, Own DEF Txns
    <2>6. RowsHeld(t)'
      BY <2>1, <2>4, <2>5, Own DEF RowsHeld, RoomLocked, RoomKnown, UserLocked, UserKnown
    <2>7. ReadsHold(t)'
      BY <2>1, <2>4, <2>5, Own DEF ReadsHold, Live, rows
    <2> QED
      BY <2>4, <2>6, <2>7 DEF Good
  <1>5. CASE KickCommit(t)
    <2> DEFINE r == txn[t].room  u == txn[t].user
    <2>1. pc[t] = "kick:commit" /\ Release(t) /\ DepartAs(u, r, txn[t].seen)
          /\ (Cardinality(txn[t].seen) <= 1 => RowsFree(t, txn[t].seen))
      BY <1>5 DEF KickCommit
    <2>2. /\ r \in Rooms /\ u \in Users /\ status[r] # "unused" /\ owner[r] # u
          /\ roomLock[r] = t /\ userLock[u] = t
          /\ txn[t].seen = members[r] \ {u}
      BY <2>1, Own DEF RowsHeld, ReadsHold, RoomLocked, RoomKnown, UserLocked, UserKnown
    <2> HIDE DEF r, u
    <2> QED
      BY <2>1, <2>2, DepartGood DEF r, u
  <1> QED
    BY <1>1, <1>2, <1>3, <1>4, <1>5 DEF Kick_

\* delete_chat_room.
LEMMA DeleteGood ==
  ASSUME RInv, NEW t \in Tasks, DeleteStart(t) \/ Delete_(t)
  PROVE  Good(t)
  <1>1. CASE DeleteStart(t)
    <2>1. PICK o \in Users \ banned :
            /\ active[o] # None
            /\ Start(t, "delete:room", [NoTxn EXCEPT !.by = o, !.room = active[o]])
      BY <1>1 DEF DeleteStart
    <2> DEFINE record == [NoTxn EXCEPT !.by = o, !.room = active[o]]
    <2>0. active[o] \in Rooms /\ status[active[o]] # "unused"
      BY <2>1 DEF RInv, LedgerInv, LedgerTypeOK, ActiveIsMember, Live
    <2>2. record \in Txns /\ record.by = o /\ record.room = active[o]
      BY <2>0 DEF NoTxn, Txns
    <2>3. Start(t, "delete:room", record)
      BY <2>1
    <2> HIDE DEF record
    <2>4. /\ TaskTypes' /\ LockFrame(t) /\ LedgerFrame(t) /\ [Next]_ledger
          /\ pc'[t] = "delete:room" /\ txn'[t] = record /\ UNCHANGED <<status, active>>
      BY <2>2, <2>3, StartStep DEF Labels
    <2>5. RowsHeld(t)'
      BY <2>0, <2>1, <2>2, <2>4 DEF RowsHeld, RoomLocked, RoomKnown, UserLocked, UserKnown
    <2>6. ReadsHold(t)'
      BY <2>0, <2>1, <2>2, <2>4 DEF ReadsHold
    <2> QED
      BY <2>4, <2>5, <2>6 DEF Good
  <1>2. CASE DeleteLockRoom(t)
    <2>1. CASE ~ (owner[txn[t].room] = txn[t].by)
      BY <1>2, <2>1, RefuseStep DEF DeleteLockRoom
    <2>2. CASE owner[txn[t].room] = txn[t].by
      <3>1. LockRoom(t, "delete:read") /\ RoomFree(t, txn[t].room) /\ pc[t] = "delete:room"
        BY <1>2, <2>2 DEF DeleteLockRoom
      <3>2. /\ TaskTypes' /\ LockFrame(t) /\ LedgerFrame(t) /\ [Next]_ledger
            /\ pc'[t] = "delete:read" /\ roomLock'[txn[t].room] = t
            /\ UNCHANGED <<status, owner, txn>>
        BY <3>1, LockRoomStep DEF Labels, RoomKnown
      <3>3. RowsHeld(t)'
        BY <3>1, <3>2, Own DEF RowsHeld, RoomLocked, RoomKnown, UserLocked, UserKnown
      <3>4. ReadsHold(t)'
        BY <2>2, <3>1, <3>2, Own DEF ReadsHold
      <3> QED
        BY <3>2, <3>3, <3>4 DEF Good
    <2> QED
      BY <2>1, <2>2
  <1>3. CASE DeleteRead(t)
    <2> DEFINE rows == members[txn[t].room]
    <2>1. ReadMembers(t, rows, "delete:commit") /\ pc[t] = "delete:read"
      BY <1>3 DEF DeleteRead
    <2>2. txn[t].room \in Rooms
      BY <2>1, Own DEF RowsHeld, RoomLocked, RoomKnown
    <2>3. rows \in SUBSET Users
      BY <2>2 DEF RInv, LedgerInv, LedgerTypeOK
    <2> HIDE DEF rows
    <2>4. /\ TaskTypes' /\ LockFrame(t) /\ LedgerFrame(t) /\ [Next]_ledger
          /\ pc'[t] = "delete:commit"
          /\ txn'[t] = [txn[t] EXCEPT !.seen = rows]
          /\ UNCHANGED <<status, owner, members, banned, roomLock, userLock>>
      BY <2>1, <2>3, ReadStep DEF Labels
    <2>5. /\ txn'[t].room = txn[t].room /\ txn'[t].user = txn[t].user
          /\ txn'[t].seen = rows
      BY <2>4, Own DEF Txns
    <2>6. RowsHeld(t)'
      BY <2>1, <2>4, <2>5, Own DEF RowsHeld, RoomLocked, RoomKnown, UserLocked, UserKnown
    <2>7. ReadsHold(t)'
      BY <2>1, <2>4, <2>5, Own DEF ReadsHold, Live, rows
    <2> QED
      BY <2>4, <2>6, <2>7 DEF Good
  <1>4. CASE DeleteCommit(t)
    <2> DEFINE r == txn[t].room
    <2>1. /\ pc[t] = "delete:commit" /\ Release(t)
          /\ RowsFree(t, txn[t].seen) /\ Dissolve(r, txn[t].seen)
      BY <1>4 DEF DeleteCommit
    <2>2. r \in Rooms /\ status[r] # "unused" /\ roomLock[r] = t /\ txn[t].seen = members[r]
      BY <2>1, Own DEF RowsHeld, ReadsHold, RoomLocked, RoomKnown, UserLocked, UserKnown
    <2> HIDE DEF r
    <2>3. Delete(r) /\ RowsFree(t, members[r]) /\ Dissolve(r, members[r])
      BY <2>1, <2>2 DEF Delete
    <2>4. LedgerFrame(t)
      BY <2>2, <2>3 DEF Dissolve, RowsFree, UserFree, LedgerFrame, RInv, LedgerInv, LedgerTypeOK
    <2> QED
      BY <2>1, <2>2, <2>3, <2>4, ReleaseStep DEF Good, RInv, Next
  <1> QED
    BY <1>1, <1>2, <1>3, <1>4 DEF Delete_

\* Closing or reopening a live room whose row no one else has locked.
LEMMA SetStatusGood ==
  ASSUME RInv, NEW t \in Tasks, NEW r \in Rooms, NEW s \in {"open", "closed"}, Release(t),
         RoomFree(t, r), Live(r), SetStatus(r, s)
  PROVE  LedgerFrame(t) /\ SetOpen(r, s) /\ Good(t)
  <1>1. LedgerFrame(t)
    BY DEF SetStatus, RoomFree, LedgerFrame, Live, RInv, LedgerInv, LedgerTypeOK
  <1>2. SetOpen(r, s)
    BY DEF SetOpen
  <1> QED
    BY <1>1, <1>2, ReleaseStep DEF Good, RInv, Next

\* set_room_open_status.
LEMMA StatusGood ==
  ASSUME RInv, NEW t \in Tasks, StatusStart(t) \/ StatusCommit(t)
  PROVE  Good(t)
  <1>1. CASE StatusStart(t)
    <2>1. PICK o \in Users \ banned, s \in {"open", "closed"} :
            /\ active[o] # None
            /\ Start(t, "status:room", [NoTxn EXCEPT !.by = o, !.room = active[o], !.to = s])
      BY <1>1 DEF StatusStart
    <2> DEFINE record == [NoTxn EXCEPT !.by = o, !.room = active[o], !.to = s]
    <2>0. active[o] \in Rooms /\ status[active[o]] # "unused"
      BY <2>1 DEF RInv, LedgerInv, LedgerTypeOK, ActiveIsMember, Live
    <2>2. record \in Txns /\ record.by = o /\ record.room = active[o] /\ record.to = s
      BY <2>0 DEF NoTxn, Txns
    <2>3. Start(t, "status:room", record)
      BY <2>1
    <2> HIDE DEF record
    <2>4. /\ TaskTypes' /\ LockFrame(t) /\ LedgerFrame(t) /\ [Next]_ledger
          /\ pc'[t] = "status:room" /\ txn'[t] = record /\ UNCHANGED <<status, active>>
      BY <2>2, <2>3, StartStep DEF Labels
    <2>5. RowsHeld(t)'
      BY <2>0, <2>1, <2>2, <2>4 DEF RowsHeld, RoomLocked, RoomKnown, UserLocked, UserKnown
    <2>6. ReadsHold(t)'
      BY <2>0, <2>1, <2>2, <2>4 DEF ReadsHold
    <2> QED
      BY <2>4, <2>5, <2>6 DEF Good
  <1>2. CASE StatusCommit(t)
    <2> DEFINE r == txn[t].room
    <2>1. pc[t] = "status:room" /\ Release(t) /\ RoomFree(t, r)
      BY <1>2 DEF StatusCommit
    <2>2. CASE UNCHANGED ledger
      BY <2>1, <2>2, ReleaseStep, QuietFrame DEF Good, RInv
    <2>3. CASE Live(r) /\ SetStatus(r, txn[t].to)
      <3>1. r \in Rooms /\ txn[t].to \in {"open", "closed"}
        BY <2>1, Own DEF RowsHeld, ReadsHold, RoomLocked, RoomKnown, UserLocked, UserKnown
      <3> QED
        BY <2>1, <2>3, <3>1, SetStatusGood
    <2> QED
      BY <1>2, <2>2, <2>3 DEF StatusCommit
  <1> QED
    BY <1>1, <1>2

\* The verdict: is_banned is committed first, and never taken back, so the
\* removal finds it still set.
LEMMA BanGood ==
  ASSUME RInv, NEW t \in Tasks, BanUser(t) \/ Ban_(t)
  PROVE  Good(t)
  <1>1. CASE BanUser(t)
    <2>1. PICK u \in Users :
            /\ Ban(u)
            /\ pc' = [pc EXCEPT ![t] = "ban:peek"]
            /\ txn' = [txn EXCEPT ![t] = [NoTxn EXCEPT !.by = u, !.user = u]]
      BY <1>1 DEF BanUser
    <2> DEFINE record == [NoTxn EXCEPT !.by = u, !.user = u]
    <2>2. record \in Txns /\ record.by = u /\ record.user = u
      BY DEF NoTxn, Txns
    <2>3. txn' = [txn EXCEPT ![t] = record] /\ UNCHANGED <<roomLock, userLock>>
      BY <1>1, <2>1 DEF BanUser, locks
    <2> HIDE DEF record
    <2>4. TaskTypes' /\ LockFrame(t) /\ pc'[t] = "ban:peek" /\ txn'[t] = record
      BY <2>1, <2>2, <2>3 DEF RInv, TaskTypes, Labels, LockFrame
    <2>5. LedgerFrame(t) /\ u \in banned' /\ [Next]_ledger
      BY <2>1 DEF Ban, LedgerFrame, Next
    <2>6. RowsHeld(t)'
      BY <2>2, <2>4 DEF RowsHeld, RoomLocked, RoomKnown, UserLocked, UserKnown
    <2>7. ReadsHold(t)'
      BY <2>2, <2>4, <2>5 DEF ReadsHold
    <2> QED
      BY <2>4, <2>5, <2>6, <2>7 DEF Good
  <1>2. CASE BanPeek(t)
    <2> DEFINE r == active[txn[t].user]
    <2>1. CASE r = None
      BY <1>2, <2>1, RefuseStep DEF BanPeek
    <2>2. CASE r # None
      <3>1. /\ pc[t] = "ban:peek" /\ pc' = [pc EXCEPT ![t] = "ban:room"]
            /\ txn' = [txn EXCEPT ![t].room = r]
            /\ UNCHANGED ledger /\ UNCHANGED <<roomLock, userLock>>
        BY <1>2, <2>2 DEF BanPeek, locks
      <3>2. txn[t].user \in Users
        BY <3>1, Own DEF RowsHeld, UserLocked, UserKnown
      <3>3. r \in Rooms /\ status[r] # "unused"
        BY <2>2, <3>2 DEF RInv, LedgerInv, LedgerTypeOK, ActiveIsMember, Live
      <3> HIDE DEF r
      <3>4. txn'[t] = [txn[t] EXCEPT !.room = r] /\ pc'[t] = "ban:room"
        BY <3>1 DEF RInv, TaskTypes
      <3>5. txn'[t] \in Txns /\ txn'[t].room = r /\ txn'[t].user = txn[t].user
            /\ txn'[t].by = txn[t].by
        BY <3>3, <3>4, Own DEF Txns
      <3>6. TaskTypes' /\ LockFrame(t)
        BY <3>1, <3>4, <3>5 DEF RInv, TaskTypes, Labels, LockFrame
      <3>7. RowsHeld(t)'
        BY <3>1, <3>2, <3>3, <3>4, <3>5
        DEF RowsHeld, RoomLocked, RoomKnown, UserLocked, UserKnown, ledger
      <3>8. ReadsHold(t)'
        BY <3>1, <3>4, <3>5, Own DEF ReadsHold, ledger
      <3> QED
        BY <3>1, <3>6, <3>7, <3>8, QuietFrame DEF Good, RInv
    <2> QED
      BY <2>1, <2>2
  <1>3. CASE BanLockRoom(t)
    <2> DEFINE r == txn[t].room
    <2>1. CASE ~ Live(r)
      BY <1>3, <2>1, RefuseStep DEF BanLockRoom
    <2>2. pc[t] = "ban:room" /\ RoomFree(t, r) /\ r \in Rooms /\ txn[t].by = txn[t].user
      BY <1>3, Own DEF BanLockRoom, RowsHeld, ReadsHold, RoomLocked, RoomKnown
    <2>3. CASE Live(r) /\ owner[r] = txn[t].by
      BY <1>3, <2>2, <2>3, SetStatusGood DEF BanLockRoom
    <2>4. CASE Live(r) /\ owner[r] # txn[t].by
      <3>1. LockRoom(t, "ban:user")
        BY <1>3, <2>4 DEF BanLockRoom
      <3>2. /\ TaskTypes' /\ LockFrame(t) /\ LedgerFrame(t) /\ [Next]_ledger
            /\ pc'[t] = "ban:user" /\ roomLock'[txn[t].room] = t
            /\ UNCHANGED <<status, owner, banned, txn>>
        BY <2>2, <3>1, LockRoomStep DEF Labels, RoomKnown
      <3>3. RowsHeld(t)'
        BY <2>2, <3>2, Own DEF RowsHeld, RoomLocked, RoomKnown, UserLocked, UserKnown
      <3>4. ReadsHold(t)'
        BY <2>2, <2>4, <3>2, Own DEF ReadsHold, Live
      <3> QED
        BY <3>2, <3>3, <3>4 DEF Good
    <2> QED
      BY <2>1, <2>3, <2>4
  <1>4. CASE BanLockUser(t)
    <2>1. LockUser(t, "ban:read") /\ UserFree(t, txn[t].user) /\ pc[t] = "ban:user"
      BY <1>4 DEF BanLockUser
    <2>2. /\ TaskTypes' /\ LockFrame(t) /\ LedgerFrame(t) /\ [Next]_ledger
          /\ pc'[t] = "ban:read" /\ userLock'[txn[t].user] = t
          /\ UNCHANGED <<status, owner, banned, roomLock, txn>>
      BY <2>1, LockUserStep DEF Labels, UserKnown
    <2>3. RowsHeld(t)'
      BY <2>1, <2>2, Own DEF RowsHeld, RoomLocked, RoomKnown, UserLocked, UserKnown
    <2>4. ReadsHold(t)'
      BY <2>1, <2>2, Own DEF ReadsHold, Live
    <2> QED
      BY <2>2, <2>3, <2>4 DEF Good
  <1>5. CASE BanRead(t)
    <2> DEFINE rows == members[txn[t].room] \ {txn[t].user}
    <2>1. ReadMembers(t, rows, "ban:commit") /\ pc[t] = "ban:read"
      BY <1>5 DEF BanRead
    <2>2. txn[t].room \in Rooms
      BY <2>1, Own DEF RowsHeld, RoomLocked, RoomKnown
    <2>3. rows \in SUBSET Users
      BY <2>2 DEF RInv, LedgerInv, LedgerTypeOK
    <2> HIDE DEF rows
    <2>4. /\ TaskTypes' /\ LockFrame(t) /\ LedgerFrame(t) /\ [Next]_ledger
          /\ pc'[t] = "ban:commit"
          /\ txn'[t] = [txn[t] EXCEPT !.seen = rows]
          /\ UNCHANGED <<status, owner, members, banned, roomLock, userLock>>
      BY <2>1, <2>3, ReadStep DEF Labels
    <2>5. /\ txn'[t].room = txn[t].room /\ txn'[t].user = txn[t].user
          /\ txn'[t].seen = rows
      BY <2>4, Own DEF Txns
    <2>6. RowsHeld(t)'
      BY <2>1, <2>4, <2>5, Own DEF RowsHeld, RoomLocked, RoomKnown, UserLocked, UserKnown
    <2>7. ReadsHold(t)'
      BY <2>1, <2>4, <2>5, Own DEF ReadsHold, Live, rows
    <2> QED
      BY <2>4, <2>6, <2>7 DEF Good
  <1>6. CASE BanCommit(t)
    <2> DEFINE r == txn[t].room  u == txn[t].user
    <2>1. pc[t] = "ban:commit" /\ Release(t) /\ RemoveMember(u, r, txn[t].seen, "closed")
      BY <1>6 DEF BanCommit
    <2>2. /\ r \in Rooms /\ u \in Users /\ status[r] # "unused" /\ owner[r] # u
          /\ roomLock[r] = t /\ userLock[u] = t /\ u \in banned /\ Live(r)
          /\ txn[t].seen = members[r] \ {u}
      BY <2>1, Own DEF RowsHeld, ReadsHold, RoomLocked, RoomKnown, UserLocked, UserKnown
    <2> HIDE DEF r, u
    <2>3. Expel(u, r)
      BY <2>1, <2>2 DEF Expel
    <2>4. LedgerFrame(t)
      BY <2>1, <2>2 DEF RemoveMember, LedgerFrame, RInv, LedgerInv, LedgerTypeOK
    <2> QED
      BY <2>1, <2>2, <2>3, <2>4, ReleaseStep DEF Good, RInv, Next
  <1> QED
    BY <1>1, <1>2, <1>3, <1>4, <1>5, <1>6 DEF Ban_

-----------------------------------------------------------------------------
(* All steps. *)

\* The initial states: no transaction has begun.
LEMMA InitRInv == RInit => RInv
  <1> SUFFICES ASSUME RInit PROVE RInv
    OBVIOUS
  <1>1. LedgerInv
    BY InitLedger DEF RInit
  <1>2. TaskTypes
    BY DEF RInit, TaskTypes, Labels, Txns, NoTxn
  <1>3. ASSUME NEW t \in Tasks PROVE RowsHeld(t) /\ ReadsHold(t)
    <2>1. pc[t] = "idle"
      BY DEF RInit
    <2> QED
      BY <2>1 DEF RowsHeld, ReadsHold, RoomLocked, RoomKnown, UserLocked, UserKnown
  <1> QED
    BY <1>1, <1>2, <1>3 DEF RInv

\* The steps of the task t: an update, or a join of the sweep, begins, a verdict
\* begins, or a transaction goes on or is rolled back.
TaskStep(t) ==
  \/ t \in Updaters /\ Update(t)
  \/ JoinStart(t) \/ BanUser(t) \/ Proceed(t) \/ RollBack(t)

\* Every step is some task's.
LEMMA SomeTaskSteps == RNext => \E t \in Tasks : TaskStep(t)
  BY DEF RNext, TaskStep, Tasks

\* Every step does what it should for its own task.
LEMMA StepGood ==
  ASSUME RInv, NEW t \in Tasks, TaskStep(t)
  PROVE  Good(t)
  <1>1. CASE CreateStart(t) \/ Create_(t)
    BY <1>1, CreateGood
  <1>2. CASE JoinStart(t) \/ Join_(t)
    BY <1>2, JoinGood
  <1>3. CASE LeaveStart(t) \/ Leave_(t)
    BY <1>3, LeaveGood
  <1>4. CASE KickStart(t) \/ Kick_(t)
    BY <1>4, KickGood
  <1>5. CASE DeleteStart(t) \/ Delete_(t)
    BY <1>5, DeleteGood
  <1>6. CASE StatusStart(t) \/ StatusCommit(t)
    BY <1>6, StatusGood
  <1>7. CASE BanUser(t) \/ Ban_(t)
    BY <1>7, BanGood
  <1>8. CASE RollBack(t)
    BY <1>8, RefuseStep DEF RollBack
  <1> QED
    BY <1>1, <1>2, <1>3, <1>4, <1>5, <1>6, <1>7, <1>8 DEF TaskStep, Update, Proceed

\* A step of t leaves another transaction x what it relies on: the rows that
\* x has locked are not t's, and the rest is only ever read again.
LEMMA OthersKeep ==
  ASSUME RInv, NEW t \in Tasks, NEW x \in Tasks \ {t}, Good(t)
  PROVE  RowsHeld(x)' /\ ReadsHold(x)'
  <1> DEFINE r == txn[x].room  u == txn[x].user
  <1>1. RowsHeld(x) /\ ReadsHold(x) /\ pc'[x] = pc[x] /\ txn'[x] = txn[x]
    BY Own DEF Good, LockFrame
  <1>2. t # x /\ x # None
    BY TasksAssumption
  <1>3. pc[x] \in RoomKnown => status'[r] # "unused" /\ owner'[r] = owner[r]
    BY <1>1 DEF RowsHeld, Good, LedgerFrame
  <1>4. pc[x] \in RoomLocked =>
          /\ roomLock'[r] = x /\ status'[r] = status[r]
          /\ members'[r] = members[r] /\ capacity'[r] = capacity[r]
    <2> SUFFICES ASSUME pc[x] \in RoomLocked
                 PROVE  /\ roomLock'[r] = x /\ status'[r] = status[r]
                        /\ members'[r] = members[r] /\ capacity'[r] = capacity[r]
      OBVIOUS
    <2>1. r \in Rooms /\ status[r] # "unused" /\ roomLock[r] = x
      BY <1>1 DEF RowsHeld, RoomKnown
    <2> QED
      BY <1>2, <2>1 DEF Good, LockFrame, LedgerFrame
  <1>5. pc[x] \in UserLocked => userLock'[u] = x /\ (active[u] = None => active'[u] = None)
    BY <1>1, <1>2 DEF RowsHeld, UserKnown, Good, LockFrame, LedgerFrame
  <1>6. banned \subseteq banned'
    BY DEF Good, LedgerFrame
  <1> HIDE DEF r, u
  <1>7. RowsHeld(x)'
    BY <1>1, <1>3, <1>4, <1>5 DEF RowsHeld, r, u
  <1>8. ReadsHold(x)'
    BY <1>1, <1>3, <1>4, <1>5, <1>6
    DEF ReadsHold, Live, RoomLocked, RoomKnown, UserLocked, r, u
  <1> QED
    BY <1>7, <1>8

\* The invariant is inductive, and each step is a step of RoomLedger or
\* leaves the tables alone.
LEMMA StepKeeps == RInv /\ [RNext]_vars => RInv' /\ [Next]_ledger
  <1> SUFFICES ASSUME RInv, [RNext]_vars PROVE RInv' /\ [Next]_ledger
    OBVIOUS
  <1>1. CASE RNext
    <2>1. PICK t \in Tasks : Good(t)
      BY <1>1, SomeTaskSteps, StepGood
    <2>2. [Next]_ledger /\ TaskTypes' /\ RowsHeld(t)' /\ ReadsHold(t)'
      BY <2>1 DEF Good
    <2>3. LedgerInv'
      BY <2>2, NextKeeps DEF RInv
    <2>4. \A x \in Tasks : RowsHeld(x)' /\ ReadsHold(x)'
      BY <2>1, <2>2, OthersKeep
    <2> QED
      BY <2>2, <2>3, <2>4 DEF RInv
  <1>2. CASE UNCHANGED vars
    <2> USE <1>2 DEF vars
    <2>1. LedgerInv' /\ [Next]_ledger
      BY StutterKeeps DEF RInv, ledger
    <2>2. TaskTypes'
      BY DEF RInv, TaskTypes
    <2>3. ASSUME NEW x \in Tasks PROVE RowsHeld(x)' /\ ReadsHold(x)'
      <3>1. RowsHeld(x)'
        BY Own DEF RowsHeld
      <3>2. ReadsHold(x)'
        BY Own DEF ReadsHold, Live
      <3> QED
        BY <3>1, <3>2
    <2> QED
      BY <2>1, <2>2, <2>3 DEF RInv
  <1> QED
    BY <1>1, <1>2

-----------------------------------------------------------------------------
\* Whatever its transactions have read, they hold the locks it rests on.
THEOREM TransactionsCorrect == RSpec => []RInv
  BY InitRInv, StepKeeps, PTL DEF RSpec

\* The transactions implement the indivisible operations of RoomLedger.
THEOREM TransactionsImplementLedger == RSpec => LedgerSpec
  <1>1. RInit => Init
    BY DEF RInit
  <1> QED
    BY <1>1, StepKeeps, TransactionsCorrect, PTL DEF RSpec, LedgerSpec, Spec

\* The tables and the tasks always have their types.
THEOREM TypesAlwaysOK == RSpec => []TypeOK
  <1>1. RInv => TypeOK
    BY DEF RInv, LedgerInv, TaskTypes, TypeOK
  <1> QED
    BY <1>1, TransactionsCorrect, PTL

\* No interleaving of joins lets a room exceed its capacity.
THEOREM CapacityAlwaysRespected == RSpec => []CapacityRespected
  <1>1. RInv => CapacityRespected
    BY DEF RInv, LedgerInv
  <1> QED
    BY <1>1, TransactionsCorrect, PTL

\* active_room_id never names a room that is gone or does not count the user.
THEOREM ActiveAlwaysMember == RSpec => []ActiveIsMember
  <1>1. RInv => ActiveIsMember
    BY DEF RInv, LedgerInv
  <1> QED
    BY <1>1, TransactionsCorrect, PTL

\* A deleted room keeps no member rows.
THEOREM DeadRoomsAlwaysEmpty == RSpec => []DeadRoomEmpty
  <1>1. RInv => DeadRoomEmpty
    BY DEF RInv, LedgerInv
  <1> QED
    BY <1>1, TransactionsCorrect, PTL

\* No transaction, however late, brings a deleted room back.
THEOREM DeletedRoomsStayDeleted == RSpec => DeletedForGood
  <1>1. LedgerSpec => Spec
    BY DEF LedgerSpec
  <1> QED
    BY <1>1, TransactionsImplementLedger, DeletionIsFinal

-----------------------------------------------------------------------------
(* Updates are handled one at a time.  Owners then keep their rooms, and   *)
(* transactions do not wait for one another in a circle.                   *)

\* The labels of transactions that only an update runs.
UpdateLabels ==
  {"create:user", "create:commit", "leave:room", "leave:user", "leave:read", "leave:commit",
   "kick:room", "kick:user", "kick:read", "kick:commit", "delete:room", "delete:read",
   "delete:commit", "status:room"}

UpdatersOnly == \A t \in Tasks : pc[t] \in UpdateLabels => t \in Updaters

\* A row that is locked is locked by a transaction that has come that far.
LocksAtWork ==
  /\ \A r \in Rooms : roomLock[r] # None => pc[roomLock[r]] \in RoomLocked
  /\ \A u \in Users : userLock[u] # None => pc[userLock[u]] \in UserLocked

LockInv == RInv /\ UpdatersOnly /\ LocksAtWork

\* A step keeps the locks, takes the next one or gives all of them back.
Moves(t) ==
  \/ Release(t)
  \/ \E l \in Labels :
       /\ pc' = [pc EXCEPT ![t] = l]
       /\ pc[t] \in RoomLocked => l \in RoomLocked
       /\ pc[t] \in UserLocked => l \in UserLocked
       /\ l \in UpdateLabels => pc[t] \in UpdateLabels \/ t \in Updaters
       /\ \/ UNCHANGED <<roomLock, userLock>>
          \/ /\ l \in RoomLocked /\ UNCHANGED userLock
             /\ roomLock' = [roomLock EXCEPT ![txn[t].room] = t]
          \/ /\ l \in UserLocked /\ UNCHANGED roomLock
             /\ userLock' = [userLock EXCEPT ![txn[t].user] = t]

LEMMA StepMoves ==
  ASSUME RInv, NEW t \in Tasks, TaskStep(t)
  PROVE  Moves(t)
  <1> USE DEF Moves, Start, LockRoom, LockUser, ReadMembers, Refuse, locks,
          Labels, RoomLocked, UserLocked, UpdateLabels
  <1>1. CASE RollBack(t)
    BY <1>1 DEF RollBack
  <1>2. CASE t \in Updaters /\ (CreateStart(t) \/ LeaveStart(t) \/ KickStart(t))
    BY <1>2 DEF CreateStart, LeaveStart, KickStart
  <1>3. CASE t \in Updaters /\ (DeleteStart(t) \/ StatusStart(t))
    BY <1>3 DEF DeleteStart, StatusStart
  <1>4. CASE JoinStart(t) \/ BanUser(t)
    BY <1>4 DEF JoinStart, BanUser
  <1>5. CASE Create_(t)
    BY <1>5 DEF Create_, CreateLockUser, CreateCommit
  <1>6. CASE Join_(t)
    BY <1>6 DEF Join_, JoinLockRoom, JoinLockUser, JoinCount, JoinCommit
  <1>7. CASE Leave_(t)
    BY <1>7 DEF Leave_, LeaveLockRoom, LeaveLockUser, LeaveRead, LeaveCommit
  <1>8. CASE Kick_(t)
    BY <1>8 DEF Kick_, KickLockRoom, KickLockUser, KickRead, KickCommit
  <1>9. CASE Delete_(t) \/ StatusCommit(t)
    BY <1>9 DEF Delete_, DeleteLockRoom, DeleteRead, DeleteCommit, StatusCommit
  <1>10. CASE Ban_(t)
    BY <1>10 DEF Ban_, BanPeek, BanLockRoom, BanLockUser, BanRead, BanCommit
  <1> QED
    BY <1>1, <1>2, <1>3, <1>4, <1>5, <1>6, <1>7, <1>8, <1>9, <1>10 DEF TaskStep, Update, Proceed

\* LockInv holds at first and is kept by every step.
LEMMA InitLockInv == RInit => LockInv
  BY InitRInv DEF RInit, LockInv, UpdatersOnly, LocksAtWork, UpdateLabels

LEMMA LocksKeep == LockInv /\ [RNext]_vars => LockInv'
  <1> SUFFICES ASSUME LockInv, [RNext]_vars PROVE LockInv'
    OBVIOUS
  <1>1. RInv'
    BY StepKeeps DEF LockInv
  <1>2. CASE UNCHANGED vars
    BY <1>1, <1>2 DEF vars, LockInv, UpdatersOnly, LocksAtWork
  <1>3. CASE RNext
    <2>1. PICK t \in Tasks : TaskStep(t)
      BY <1>3, SomeTaskSteps
    <2>2. Moves(t) /\ TaskTypes
      BY <2>1, StepMoves DEF LockInv, RInv
    <2>3. CASE Release(t)
      <3>1. UpdatersOnly'
        BY <2>2, <2>3 DEF LockInv, UpdatersOnly, Release, TaskTypes, UpdateLabels
      <3>2. LocksAtWork'
        BY <2>2, <2>3 DEF LockInv, LocksAtWork, Release, TaskTypes
      <3> QED
        BY <1>1, <3>1, <3>2 DEF LockInv
    <2>4. CASE ~ Release(t)
      <3>1. PICK l \in Labels :
               /\ pc' = [pc EXCEPT ![t] = l]
               /\ pc[t] \in RoomLocked => l \in RoomLocked
               /\ pc[t] \in UserLocked => l \in UserLocked
               /\ l \in UpdateLabels => pc[t] \in UpdateLabels \/ t \in Updaters
               /\ \/ UNCHANGED <<roomLock, userLock>>
                  \/ /\ l \in RoomLocked /\ UNCHANGED userLock
                     /\ roomLock' = [roomLock EXCEPT ![txn[t].room] = t]
                  \/ /\ l \in UserLocked /\ UNCHANGED roomLock
                     /\ userLock' = [userLock EXCEPT ![txn[t].user] = t]
        BY <2>2, <2>4 DEF Moves
      <3>2. UpdatersOnly'
        BY <2>2, <3>1 DEF LockInv, UpdatersOnly, TaskTypes
      <3>3. \A x \in Tasks : /\ pc[x] \in RoomLocked => pc'[x] \in RoomLocked
                             /\ pc[x] \in UserLocked => pc'[x] \in UserLocked
        BY <2>2, <3>1 DEF TaskTypes
      <3>4. pc'[t] = l /\ t # None
        BY <2>2, <3>1, TasksAssumption DEF TaskTypes
      <3>5. \A r \in Rooms : roomLock'[r] = roomLock[r] \/ (roomLock'[r] = t /\ l \in RoomLocked)
        BY <2>2, <3>1 DEF TaskTypes
      <3>6. \A u \in Users : userLock'[u] = userLock[u] \/ (userLock'[u] = t /\ l \in UserLocked)
        BY <2>2, <3>1 DEF TaskTypes
      <3>7. LocksAtWork'
        BY <2>2, <3>3, <3>4, <3>5, <3>6 DEF LockInv, LocksAtWork, TaskTypes
      <3> QED
        BY <1>1, <3>2, <3>7 DEF LockInv
    <2> QED
      BY <2>3, <2>4
  <1> QED
    BY <1>2, <1>3

\* How much a transaction may still wait for: one that waits for a room has no
\* row, one that waits for a user has no user, and the last writes of a
\* leave, kick or delete, which wait for users with a user in hand, are those
\* of the one update.
Rank(t) ==
  IF pc[t] \in {"join:room", "leave:room", "kick:room", "delete:room", "status:room", "ban:room"}
  THEN 3
  ELSE IF pc[t] \in {"create:user", "join:user", "leave:user", "kick:user", "ban:user"}
  THEN 2
  ELSE IF pc[t] \in {"leave:commit", "kick:commit", "delete:commit"} THEN 1 ELSE 0

LEMMA WaitsDown ==
  ASSUME LockInv, \A s, t \in Updaters : s = t,
         NEW t \in Tasks, NEW y \in Tasks, y \in WaitsFor(t)
  PROVE  Rank(y) < Rank(t)
  <1> USE DEF LockInv
  <1>0. t # None /\ y # None
    BY TasksAssumption
  <1>1. CASE pc[t] \in {"join:room", "leave:room", "kick:room", "delete:room", "status:room", "ban:room"}
    <2>1. txn[t].room \in Rooms
      BY <1>1 DEF RInv, RowsHeld, RoomKnown, RoomLocked
    <2>2. y = roomLock[txn[t].room]
      BY <1>1 DEF WaitsFor
    <2>3. pc[y] \in RoomLocked
      BY <1>0, <2>1, <2>2 DEF LocksAtWork
    <2> QED
      BY <1>1, <2>3 DEF RoomLocked, Rank
  <1>2. CASE pc[t] \in {"create:user", "join:user", "leave:user", "kick:user", "ban:user"}
    <2>1. txn[t].user \in Users
      BY <1>2 DEF RInv, RowsHeld, UserKnown, UserLocked
    <2>2. y = userLock[txn[t].user]
      BY <1>2 DEF WaitsFor
    <2>3. pc[y] \in UserLocked
      BY <1>0, <2>1, <2>2 DEF LocksAtWork
    <2> QED
      BY <1>2, <2>3 DEF UserLocked, Rank
  <1>3. CASE pc[t] \in {"leave:commit", "kick:commit", "delete:commit"}
    <2>1. txn[t].seen \subseteq Users
      BY DEF RInv, TaskTypes, Txns
    <2>2. (\E u \in txn[t].seen : y = userLock[u]) /\ y # t
      BY <1>3 DEF WaitsFor
    <2>3. pc[y] \in UserLocked
      BY <1>0, <2>1, <2>2 DEF LocksAtWork
    <2>4. pc[t] \in UpdateLabels
      BY <1>3 DEF UpdateLabels
    <2>5. pc[y] \notin UpdateLabels
      BY <2>2, <2>4 DEF UpdatersOnly
    <2> QED
      BY <1>3, <2>3, <2>5 DEF UserLocked, UpdateLabels, Rank
  <1> QED
    BY <1>1, <1>2, <1>3 DEF WaitsFor

LEMMA NoCycle ==
  ASSUME LockInv, \A s, t \in Updaters : s = t
  PROVE  NoLockCycle
  <1> SUFFICES ASSUME NEW S \in (SUBSET Tasks) \ {{}}
               PROVE  \E t \in S : WaitsFor(t) \cap S = {}
    BY DEF NoLockCycle
  <1>0. S \subseteq Tasks /\ S # {}
    OBVIOUS
  <1>1. \A t \in S : Rank(t) \in 0 .. 3
    BY DEF Rank
  <1>2. PICK t \in S : \A y \in S : Rank(t) <= Rank(y)
    <2>1. \A n \in 0 .. 3 :
            (\A y \in S : n <= Rank(y)) /\ (\E t \in S : Rank(t) = n)
              => \E t \in S : \A y \in S : Rank(t) <= Rank(y)
      OBVIOUS
    <2> QED
      BY <1>0, <1>1, <2>1
  <1>3. \A y \in S : y \notin WaitsFor(t)
    BY <1>0, <1>1, <1>2, WaitsDown
  <1> QED
    BY <1>3

\* When updates are handled one at a time, as main.py's dispatcher does, no
\* transactions wait for one another in a circle, however many sweeps and
\* verdicts there are: the room comes before the users.
THEOREM NeverALockCycle ==
  ASSUME \A s, t \in Updaters : s = t
  PROVE  RSpec => []NoLockCycle
  <1>1. LockInv => NoLockCycle
    BY NoCycle
  <1> QED
    BY <1>1, InitLockInv, LocksKeep, PTL DEF RSpec

\* A live room keeps its owner's member row; and whoever has a member row and
\* is not banned has that room as active room.
OwnersStay == \A r \in Rooms : Live(r) => owner[r] \in members[r]
MembersActive == \A r \in Rooms : \A u \in members[r] \ banned : active[u] = r

\* The labels at which a user is taken out of txn.room for good.
Departing == {"leave:room", "leave:user", "leave:read", "leave:commit", "kick:read", "kick:commit"}

\* Who leaves, or is kicked, is still in the room that was peeked, unless a
\* verdict has come in between.
StillIn(t) ==
  pc[t] \in Departing => txn[t].user \in banned \/ active[txn[t].user] = txn[t].room

AnchorInv == LockInv /\ OwnersStay /\ MembersActive /\ \A t \in Tasks : StillIn(t)

\* What sweeps and verdicts do to the tables, and what only updates do.
Elsewhere ==
  \/ UNCHANGED ledger
  \/ \E u \in Users, r \in Rooms : Join(u, r) \/ Expel(u, r)
  \/ \E r \in Rooms : SetOpen(r, "open") \/ SetOpen(r, "closed")
  \/ \E u \in Users : Ban(u)

Updated(t) ==
  /\ pc[t] \in UpdateLabels
  /\ \/ \E u \in Users, r \in Rooms, c \in Requests : Create(u, r, c)
     \/ \E r \in Rooms : Delete(r)
     \/ pc[t] \in Departing /\ Depart(txn[t].user, txn[t].room)

\* The operations that keep everyone else's active room keep both.
LEMMA ElsewhereKeeps ==
  ASSUME LedgerInv, OwnersStay, MembersActive, Elsewhere
  PROVE  OwnersStay' /\ MembersActive'
  <1> USE NoneAssumption DEF OwnersStay, MembersActive, LedgerInv, LedgerTypeOK, Live
  <1>1. CASE UNCHANGED ledger
    BY <1>1 DEF ledger
  <1>2. ASSUME NEW u \in Users, NEW r \in Rooms, Join(u, r)
        PROVE  OwnersStay' /\ MembersActive'
    BY <1>2 DEF Join, AddMember
  <1>3. ASSUME NEW u \in Users, NEW r \in Rooms, Expel(u, r)
        PROVE  OwnersStay' /\ MembersActive'
    <2>1. CASE owner[r] = u
      BY <1>3, <2>1 DEF Expel, SetStatus
    <2>2. CASE owner[r] # u
      <3>1. u \in banned /\ Live(r) /\ RemoveMember(u, r, members[r] \ {u}, "closed")
        BY <1>3, <2>2 DEF Expel
      <3>2. /\ \A q \in Rooms : Live(q)' => Live(q)
            /\ UNCHANGED <<owner, banned>>
            /\ members' = [members EXCEPT ![r] = @ \ {u}]
            /\ active' = [active EXCEPT ![u] = None]
        BY <3>1 DEF RemoveMember
      <3>3. OwnersStay'
        BY <2>2, <3>2
      <3>4. MembersActive'
        BY <3>1, <3>2
      <3> QED
        BY <3>3, <3>4
    <2> QED
      BY <2>1, <2>2
  <1>4. ASSUME NEW r \in Rooms, SetOpen(r, "open") \/ SetOpen(r, "closed")
        PROVE  OwnersStay' /\ MembersActive'
    BY <1>4 DEF SetOpen, SetStatus
  <1>5. ASSUME NEW u \in Users, Ban(u)
        PROVE  OwnersStay' /\ MembersActive'
    BY <1>5 DEF Ban
  <1> QED
    BY <1>1, <1>2, <1>3, <1>4, <1>5 DEF Elsewhere

\* A room dissolves with all its members, who are in no other.
LEMMA DissolveAnchors ==
  ASSUME LedgerInv, OwnersStay, MembersActive, NEW r \in Rooms, NEW freed,
         \A v \in freed : v \in banned \/ active[v] = r, Dissolve(r, freed)
  PROVE  OwnersStay' /\ MembersActive'
  <1> USE DEF OwnersStay, MembersActive, LedgerInv, LedgerTypeOK, Live, Dissolve
  <1>1. OwnersStay'
    OBVIOUS
  <1>2. MembersActive'
    <2> SUFFICES ASSUME NEW q \in Rooms, NEW u \in Users, u \in members'[q], u \notin banned
                 PROVE  active'[u] = q
      OBVIOUS
    <2>1. q # r /\ u \in members[q] /\ active[u] = q
      OBVIOUS
    <2> QED
      BY <2>1
  <1> QED
    BY <1>1, <1>2

LEMMA UpdatedKeeps ==
  ASSUME AnchorInv, NEW t \in Tasks, Updated(t)
  PROVE  OwnersStay' /\ MembersActive'
  <1>0. LedgerInv /\ OwnersStay /\ MembersActive
    BY DEF AnchorInv, LockInv, RInv
  <1>1. ASSUME NEW u \in Users, NEW r \in Rooms, NEW c \in Requests, Create(u, r, c)
        PROVE  OwnersStay' /\ MembersActive'
    <2> USE NoneAssumption DEF OwnersStay, MembersActive, LedgerInv, LedgerTypeOK, Live
    <2> QED
      BY <1>0, <1>1 DEF Create, OpenNewRoom
  <1>2. ASSUME NEW r \in Rooms, Delete(r)
        PROVE  OwnersStay' /\ MembersActive'
    <2>1. Dissolve(r, members[r]) /\ \A v \in members[r] : v \in banned \/ active[v] = r
      BY <1>0, <1>2 DEF Delete, MembersActive
    <2> QED
      BY <1>0, <2>1, DissolveAnchors
  <1>3. ASSUME pc[t] \in Departing, Depart(txn[t].user, txn[t].room)
        PROVE  OwnersStay' /\ MembersActive'
    <2> DEFINE r == txn[t].room  u == txn[t].user
    <2>1. r \in Rooms /\ u \in Users /\ (u \in banned \/ active[u] = r)
      BY <1>3 DEF AnchorInv, LockInv, RInv, RowsHeld, StillIn, RoomKnown, RoomLocked, UserKnown,
         UserLocked, Departing
    <2>2. owner[r] # u /\ DepartAs(u, r, members[r] \ {u})
      BY <1>3 DEF Depart
    <2> HIDE DEF r, u
    <2>3. CASE Cardinality(members[r] \ {u}) <= 1
      <3>1. Dissolve(r, (members[r] \ {u}) \cup {u})
        BY <2>2, <2>3 DEF DepartAs
      <3>2. \A v \in (members[r] \ {u}) \cup {u} : v \in banned \/ active[v] = r
        BY <1>0, <2>1 DEF MembersActive
      <3> QED
        BY <1>0, <2>1, <3>1, <3>2, DissolveAnchors
    <2>4. CASE ~ (Cardinality(members[r] \ {u}) <= 1)
      <3>1. /\ UNCHANGED <<owner, banned>> /\ \A q \in Rooms : status'[q] = status[q]
            /\ members' = [members EXCEPT ![r] = @ \ {u}]
            /\ active' = [active EXCEPT ![u] = None]
        BY <1>0, <2>1, <2>2, <2>4 DEF DepartAs, RemoveMember, LedgerInv, LedgerTypeOK
      <3>2. OwnersStay'
        BY <1>0, <2>1, <2>2, <3>1 DEF OwnersStay, LedgerInv, LedgerTypeOK, Live
      <3>3. MembersActive'
        BY <1>0, <2>1, <3>1 DEF MembersActive, LedgerInv, LedgerTypeOK
      <3> QED
        BY <3>2, <3>3
    <2> QED
      BY <2>3, <2>4
  <1> QED
    BY <1>1, <1>2, <1>3 DEF Updated

\* A commit does the operation it stands for, everything else leaves the tables alone.
LEMMA StepEffect ==
  ASSUME RInv, NEW t \in Tasks, TaskStep(t)
  PROVE  Elsewhere \/ Updated(t)
  <1> USE DEF Elsewhere, Start, LockRoom, LockUser, ReadMembers, Refuse, ledger
  <1>1. CASE RollBack(t)
    BY <1>1 DEF RollBack
  <1>2. CASE Update(t) \/ JoinStart(t)
    BY <1>2 DEF Update, CreateStart, JoinStart, LeaveStart, KickStart, DeleteStart, StatusStart
  <1>3. CASE BanUser(t)
    BY <1>3 DEF BanUser
  <1>4. CASE Create_(t)
    <2>1. CASE CreateCommit(t) /\ ~ UNCHANGED ledger
      <3>1. PICK r \in Rooms : status[r] = "unused" /\ OpenNewRoom(txn[t].user, r, txn[t].size)
        BY <2>1 DEF CreateCommit
      <3>2. txn[t].user \in Users /\ txn[t].size \in Requests /\ active[txn[t].user] = None
            /\ pc[t] = "create:commit"
        BY <2>1, Own DEF CreateCommit, RowsHeld, ReadsHold, UserLocked, UserKnown
      <3>3. Create(txn[t].user, r, txn[t].size)
        BY <3>1, <3>2 DEF Create
      <3> QED
        BY <3>2, <3>3 DEF Updated, UpdateLabels
    <2> QED
      BY <1>4, <2>1 DEF Create_, CreateLockUser
  <1>5. CASE Join_(t)
    <2>1. CASE JoinCommit(t) /\ ~ UNCHANGED ledger
      <3>1. /\ pc[t] = "join:commit" /\ txn[t].user \notin members[txn[t].room]
            /\ AddMember(txn[t].user, txn[t].room)
        BY <2>1 DEF JoinCommit
      <3>2. /\ txn[t].room \in Rooms /\ txn[t].user \in Users
            /\ status[txn[t].room] = "open" /\ active[txn[t].user] = None
            /\ Cardinality(members[txn[t].room]) < capacity[txn[t].room]
        BY <3>1, Own DEF RowsHeld, ReadsHold, RoomLocked, RoomKnown, UserLocked, UserKnown
      <3>3. Join(txn[t].user, txn[t].room)
        BY <3>1, <3>2 DEF Join
      <3> QED
        BY <3>2, <3>3
    <2> QED
      BY <1>5, <2>1 DEF Join_, JoinLockRoom, JoinLockUser, JoinCount
  <1>6. CASE Leave_(t) \/ Kick_(t)
    <2>1. CASE LeaveCommit(t) \/ KickCommit(t)
      <3>1. pc[t] \in {"leave:commit", "kick:commit"}
            /\ DepartAs(txn[t].user, txn[t].room, txn[t].seen)
        BY <2>1 DEF LeaveCommit, KickCommit
      <3>2. /\ status[txn[t].room] # "unused" /\ owner[txn[t].room] # txn[t].user
            /\ txn[t].seen = members[txn[t].room] \ {txn[t].user}
        BY <3>1, Own DEF RowsHeld, ReadsHold, RoomLocked, RoomKnown
      <3>3. Depart(txn[t].user, txn[t].room)
        BY <3>1, <3>2 DEF Depart
      <3> QED
        BY <3>1, <3>3 DEF Updated, UpdateLabels, Departing
    <2> QED
      BY <1>6, <2>1 DEF Leave_, LeaveLockRoom, LeaveLockUser, LeaveRead,
         Kick_, KickLockRoom, KickLockUser, KickRead
  <1>7. CASE Delete_(t)
    <2>1. CASE DeleteCommit(t)
      <3>1. pc[t] = "delete:commit" /\ Dissolve(txn[t].room, txn[t].seen)
        BY <2>1 DEF DeleteCommit
      <3>2. /\ txn[t].room \in Rooms /\ status[txn[t].room] # "unused"
            /\ txn[t].seen = members[txn[t].room]
        BY <3>1, Own DEF RowsHeld, ReadsHold, RoomLocked, RoomKnown
      <3>3. Delete(txn[t].room)
        BY <3>1, <3>2 DEF Delete
      <3> QED
        BY <3>1, <3>2, <3>3 DEF Updated, UpdateLabels
    <2> QED
      BY <1>7, <2>1 DEF Delete_, DeleteLockRoom, DeleteRead
  <1>8. CASE StatusCommit(t)
    <2>1. pc[t] = "status:room"
      BY <1>8 DEF StatusCommit
    <2>2. txn[t].room \in Rooms /\ txn[t].to \in {"open", "closed"}
      BY <2>1, Own DEF RowsHeld, ReadsHold, RoomKnown
    <2> QED
      BY <1>8, <2>2 DEF StatusCommit, SetOpen
  <1>9. CASE Ban_(t)
    <2>1. CASE BanLockRoom(t)
      <3>1. pc[t] = "ban:room"
        BY <2>1 DEF BanLockRoom
      <3>2. txn[t].room \in Rooms
        BY <3>1, Own DEF RowsHeld, RoomKnown
      <3> QED
        BY <2>1, <3>2 DEF BanLockRoom, SetOpen
    <2>2. CASE BanCommit(t)
      <3>1. pc[t] = "ban:commit" /\ RemoveMember(txn[t].user, txn[t].room, txn[t].seen, "closed")
        BY <2>2 DEF BanCommit
      <3>2. /\ txn[t].room \in Rooms /\ txn[t].user \in Users /\ txn[t].user \in banned
            /\ Live(txn[t].room) /\ owner[txn[t].room] # txn[t].user
            /\ txn[t].seen = members[txn[t].room] \ {txn[t].user}
        BY <3>1, Own DEF RowsHeld, ReadsHold, RoomLocked, RoomKnown, UserLocked, UserKnown
      <3>3. Expel(txn[t].user, txn[t].room)
        BY <3>1, <3>2 DEF Expel
      <3> QED
        BY <3>2, <3>3
    <2> QED
      BY <1>9, <2>1, <2>2 DEF Ban_, BanPeek, BanLockUser, BanRead
  <1> QED
    BY <1>1, <1>2, <1>3, <1>4, <1>5, <1>6, <1>7, <1>8, <1>9 DEF TaskStep, Proceed

\* While an update is under way, no one else changes the active room of a user
\* who has one and is not banned.
LEMMA OthersStay ==
  ASSUME AnchorInv, Elsewhere, NEW x \in Tasks, pc[x] \in Departing,
         pc'[x] = pc[x], txn'[x] = txn[x]
  PROVE  StillIn(x)'
  <1> DEFINE r == txn[x].room  u == txn[x].user
  <1>1. r \in Rooms /\ u \in Users /\ (u \in banned \/ active[u] = r) /\ r # None
    BY NoneAssumption DEF AnchorInv, LockInv, RInv, RowsHeld, StillIn, RoomKnown, RoomLocked,
       UserKnown, UserLocked, Departing
  <1> HIDE DEF r, u
  <1>2. active \in [Users -> Rooms \cup {None}] /\ banned \subseteq Users
    BY DEF AnchorInv, LockInv, RInv, LedgerInv, LedgerTypeOK
  <1>3. u \in banned' \/ active'[u] = r
    <2>1. CASE \E v \in Users, q \in Rooms : Join(v, q)
      BY <1>1, <1>2, <2>1 DEF Join, AddMember
    <2>2. CASE \E v \in Users, q \in Rooms : Expel(v, q)
      BY <1>1, <1>2, <2>2 DEF Expel, SetStatus, RemoveMember
    <2>3. CASE UNCHANGED ledger
      BY <1>1, <2>3 DEF ledger
    <2>4. CASE \/ \E q \in Rooms : SetOpen(q, "open") \/ SetOpen(q, "closed")
               \/ \E v \in Users : Ban(v)
      BY <1>1, <2>4 DEF SetOpen, SetStatus, Ban
    <2> QED
      BY <2>1, <2>2, <2>3, <2>4 DEF Elsewhere
  <1> QED
    BY <1>3 DEF StillIn, r, u

\* The transaction itself: leave has its room from active_room_id, kick looks at
\* it under the lock.
LEMMA OwnStays ==
  ASSUME AnchorInv, NEW t \in Tasks, TaskStep(t)
  PROVE  StillIn(t)'
  <1> SUFFICES ASSUME pc'[t] \in Departing
               PROVE  txn'[t].user \in banned' \/ active'[txn'[t].user] = txn'[t].room
    BY DEF StillIn
  <1>0. TaskTypes /\ StillIn(t) /\ txn[t] \in Txns
    BY DEF AnchorInv, LockInv, RInv, TaskTypes
  <1>1. CASE pc[t] = "idle"
    <2>1. LeaveStart(t)
      BY <1>0, <1>1 DEF TaskStep, Update, Proceed, CreateStart, JoinStart, KickStart, DeleteStart,
         StatusStart, BanUser, Start, RollBack, TaskTypes, Departing, Create_, CreateLockUser,
         CreateCommit, Join_, JoinLockRoom, JoinLockUser, JoinCount, JoinCommit, Leave_,
         LeaveLockRoom, LeaveLockUser, LeaveRead, LeaveCommit, Kick_, KickLockRoom, KickLockUser,
         KickRead, KickCommit, Delete_, DeleteLockRoom, DeleteRead, DeleteCommit, StatusCommit,
         Ban_, BanPeek, BanLockRoom, BanLockUser, BanRead, BanCommit
    <2>2. PICK u \in Users :
            Start(t, "leave:room", [NoTxn EXCEPT !.by = u, !.user = u, !.room = active[u]])
      BY <2>1 DEF LeaveStart
    <2>3. txn'[t] = [NoTxn EXCEPT !.by = u, !.user = u, !.room = active[u]] /\ active' = active
      BY <1>0, <2>2 DEF Start, TaskTypes, ledger
    <2>4. txn'[t].user = u /\ txn'[t].room = active[u]
      BY <2>3 DEF NoTxn
    <2> QED
      BY <2>3, <2>4
  <1>2. CASE pc[t] # "idle"
    <2>1. \/ LeaveLockRoom(t) \/ LeaveLockUser(t) \/ LeaveRead(t) \/ KickLockUser(t) \/ KickRead(t)
      <3> USE <1>0, <1>2 DEF LockRoom, LockUser, ReadMembers, Refuse, Release, TaskTypes, Departing
      <3>1. ~ (RollBack(t) \/ BanUser(t) \/ JoinStart(t) \/ Update(t))
        BY DEF RollBack, BanUser, JoinStart, Update, CreateStart, LeaveStart, KickStart,
           DeleteStart, StatusStart, Start
      <3>2. ~ (Create_(t) \/ Join_(t))
        BY DEF Create_, CreateLockUser, CreateCommit, Join_, JoinLockRoom, JoinLockUser, JoinCount,
           JoinCommit
      <3>3. ~ (Delete_(t) \/ StatusCommit(t) \/ Ban_(t))
        BY DEF Delete_, DeleteLockRoom, DeleteRead, DeleteCommit, StatusCommit, Ban_, BanPeek,
           BanLockRoom, BanLockUser, BanRead, BanCommit
      <3>4. ~ (LeaveCommit(t) \/ KickLockRoom(t) \/ KickCommit(t))
        BY DEF LeaveCommit, KickLockRoom, KickCommit
      <3> QED
        BY <3>1, <3>2, <3>3, <3>4 DEF TaskStep, Proceed, Leave_, Kick_
    <2>2. txn'[t].user = txn[t].user /\ txn'[t].room = txn[t].room
          /\ UNCHANGED <<active, banned>>
      <3>1. CASE LeaveRead(t) \/ KickRead(t)
        <4>1. PICK rows : txn' = [txn EXCEPT ![t].seen = rows] /\ UNCHANGED ledger
          BY <3>1 DEF LeaveRead, KickRead, ReadMembers
        <4>2. txn'[t] = [txn[t] EXCEPT !.seen = rows]
          BY <1>0, <4>1 DEF TaskTypes
        <4> QED
          BY <1>0, <4>1, <4>2 DEF Txns, ledger
      <3>2. CASE LeaveLockRoom(t) \/ LeaveLockUser(t) \/ KickLockUser(t)
        BY <1>0, <3>2 DEF LeaveLockRoom, LeaveLockUser, KickLockUser, LockRoom, LockUser, Refuse,
           Release, ledger, TaskTypes, Departing
      <3> QED
        BY <2>1, <3>1, <3>2
    <2>3. CASE KickLockUser(t)
      <3>1. active[txn[t].user] = txn[t].room
        BY <1>0, <2>3 DEF KickLockUser, Refuse, Release, TaskTypes, Departing
      <3> QED
        BY <2>2, <3>1
    <2>4. CASE ~ KickLockUser(t)
      <3>1. pc[t] \in Departing
        BY <2>1, <2>4 DEF LeaveLockRoom, LeaveLockUser, LeaveRead, KickRead, Departing
      <3> QED
        BY <1>0, <2>2, <3>1 DEF StillIn
    <2> QED
      BY <2>3, <2>4
  <1> QED
    BY <1>1, <1>2

LEMMA InitAnchorInv == RInit => AnchorInv
  BY InitLockInv
  DEF RInit, Init, AnchorInv, OwnersStay, MembersActive, StillIn, Live, Departing

LEMMA AnchorKeeps ==
  ASSUME AnchorInv, [RNext]_vars, \A s, t \in Updaters : s = t
  PROVE  AnchorInv'
  <1>1. LockInv'
    BY LocksKeep DEF AnchorInv
  <1>2. CASE UNCHANGED vars
    BY <1>1, <1>2 DEF vars, AnchorInv, OwnersStay, MembersActive, StillIn, Live
  <1>3. CASE RNext
    <2>1. PICK t \in Tasks : TaskStep(t)
      BY <1>3, SomeTaskSteps
    <2>2. Elsewhere \/ Updated(t)
      BY <2>1, StepEffect DEF AnchorInv, LockInv
    <2>3. OwnersStay' /\ MembersActive'
      BY <2>2, ElsewhereKeeps, UpdatedKeeps DEF AnchorInv, LockInv, RInv
    <2>4. ASSUME NEW x \in Tasks PROVE StillIn(x)'
      <3>1. CASE x = t
        BY <2>1, <3>1, OwnStays
      <3>2. CASE x # t
        <4>1. pc'[x] = pc[x] /\ txn'[x] = txn[x]
          BY <2>1, <3>2, StepGood DEF AnchorInv, LockInv, Good, LockFrame
        <4>2. CASE pc[x] \notin Departing
          BY <4>1, <4>2 DEF StillIn
        <4>3. CASE pc[x] \in Departing
          <5>1. x \in Updaters /\ (pc[t] \in UpdateLabels => t \in Updaters)
            BY <4>3 DEF AnchorInv, LockInv, UpdatersOnly, UpdateLabels, Departing
          <5>2. ~ Updated(t)
            BY <3>2, <5>1 DEF Updated
          <5> QED
            BY <2>2, <4>1, <4>3, <5>2, OthersStay
        <4> QED
          BY <4>2, <4>3
      <3> QED
        BY <3>1, <3>2
    <2> QED
      BY <1>1, <2>3, <2>4 DEF AnchorInv
  <1> QED
    BY <1>2, <1>3

\* When updates are handled one at a time, an owner who is not banned always
\* has the live room as active room, and a live room its owner's member row,
\* whatever sweeps and verdicts do meanwhile.
THEOREM OwnersAlwaysAnchored ==
  ASSUME \A s, t \in Updaters : s = t
  PROVE  RSpec => []OwnerAnchored
  <1>1. ASSUME AnchorInv PROVE OwnerAnchored
    BY <1>1 DEF AnchorInv, OwnersStay, MembersActive, OwnerAnchored
  <1>2. AnchorInv /\ [RNext]_vars => AnchorInv'
    BY AnchorKeeps
  <1> QED
    BY <1>1, <1>2, InitAnchorInv, PTL DEF RSpec
=============================================================================

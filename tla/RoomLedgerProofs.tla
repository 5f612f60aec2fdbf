------------------------- MODULE RoomLedgerProofs -------------------------
(***************************************************************************)
(* The properties of RoomLedger hold for any users, rooms and capacities.  *)
(*                                                                         *)
(* LedgerInv is their conjunction with finiteness of the member sets; it   *)
(* is inductive, and there is one lemma for each operation.                *)
(***************************************************************************)
EXTENDS RoomLedger, FiniteSetTheorems, TLAPS

MembersFinite == \A r \in Rooms : IsFiniteSet(members[r])

LedgerInv ==
  /\ LedgerTypeOK
  /\ MembersFinite
  /\ CapacityRespected
  /\ ActiveIsMember
  /\ DeadRoomEmpty

-----------------------------------------------------------------------------
\* The capacity of a new room is one of 2 .. 5, whatever was asked for.
LEMMA ClampRange ==
  ASSUME NEW c \in Requests
  PROVE  Clamp(c) \in 2 .. 5 /\ Clamp(c) \in Nat
  BY RequestsAssumption DEF Clamp

\* The empty tables satisfy the invariant.
LEMMA InitLedger == Init => LedgerInv
  BY NoneAssumption, FS_EmptySet
  DEF Init, LedgerInv, LedgerTypeOK, MembersFinite, CapacityRespected, ActiveIsMember,
      DeadRoomEmpty, Statuses, Live

\* create_chat_room: a fresh room with its owner as the only member.
LEMMA CreateKeeps ==
  ASSUME LedgerInv, NEW u \in Users, NEW r \in Rooms, NEW c \in Requests, Create(u, r, c)
  PROVE  LedgerInv'
  <1> USE DEF LedgerInv, Create, OpenNewRoom
  <1>1. LedgerTypeOK'
    BY ClampRange, NoneAssumption DEF LedgerTypeOK, Statuses
  <1>2. MembersFinite'
    BY FS_Singleton DEF MembersFinite, LedgerTypeOK
  <1>3. CapacityRespected'
    <2>1. Cardinality({u}) = 1
      BY FS_Singleton
    <2> QED
      BY <2>1, ClampRange DEF CapacityRespected, LedgerTypeOK
  <1>4. ActiveIsMember'
    BY NoneAssumption DEF ActiveIsMember, LedgerTypeOK, Live
  <1>5. DeadRoomEmpty'
    BY DEF DeadRoomEmpty, LedgerTypeOK, Live
  <1> QED
    BY <1>1, <1>2, <1>3, <1>4, <1>5

\* join_chat_room: the count was below the capacity.
LEMMA JoinKeeps ==
  ASSUME LedgerInv, NEW u \in Users, NEW r \in Rooms, Join(u, r)
  PROVE  LedgerInv'
  <1> USE DEF LedgerInv, Join, AddMember
  <1>1. LedgerTypeOK'
    BY DEF LedgerTypeOK
  <1>2. MembersFinite'
    BY FS_AddElement DEF MembersFinite, LedgerTypeOK
  <1>3. CapacityRespected'
    <2>1. Cardinality(members[r] \cup {u}) = Cardinality(members[r]) + 1
      BY FS_AddElement DEF MembersFinite
    <2>2. Cardinality(members[r]) \in Nat /\ capacity[r] \in Nat
      BY FS_CardinalityType DEF MembersFinite, LedgerTypeOK
    <2> QED
      BY <2>1, <2>2 DEF CapacityRespected, LedgerTypeOK
  <1>4. ActiveIsMember'
    BY DEF ActiveIsMember, LedgerTypeOK, Live
  <1>5. DeadRoomEmpty'
    BY DEF DeadRoomEmpty, LedgerTypeOK, Live
  <1> QED
    BY <1>1, <1>2, <1>3, <1>4, <1>5

\* Whoever had the room as active room was one of its members: all are freed.
LEMMA DissolveKeeps ==
  ASSUME LedgerInv, NEW r \in Rooms, NEW freed, members[r] \subseteq freed,
         status[r] # "unused", Dissolve(r, freed)
  PROVE  LedgerInv'
  <1> USE DEF LedgerInv, Dissolve
  <1>1. LedgerTypeOK'
    BY DEF LedgerTypeOK, Statuses
  <1>2. MembersFinite'
    BY FS_EmptySet DEF MembersFinite, LedgerTypeOK
  <1>3. CapacityRespected'
    BY FS_EmptySet DEF CapacityRespected, LedgerTypeOK
  <1>4. ActiveIsMember'
    BY NoneAssumption DEF ActiveIsMember, LedgerTypeOK, Live
  <1>5. DeadRoomEmpty'
    BY DEF DeadRoomEmpty, LedgerTypeOK, Live
  <1> QED
    BY <1>1, <1>2, <1>3, <1>4, <1>5

\* One member goes and the room stays, or is emptied of all but its owner by
\* a ban and closed.
LEMMA RemoveKeeps ==
  ASSUME LedgerInv, NEW u \in Users, NEW r \in Rooms, NEW rest, NEW s \in {"open", "closed"},
         status[r] # "unused", Cardinality(rest) <= 1 => Live(r),
         RemoveMember(u, r, rest, s)
  PROVE  LedgerInv'
  <1> USE DEF LedgerInv, RemoveMember
  <1>1. LedgerTypeOK'
    BY DEF LedgerTypeOK, Statuses
  <1>2. IsFiniteSet(members[r] \ {u}) /\ Cardinality(members[r] \ {u}) <= Cardinality(members[r])
    BY FS_Subset DEF MembersFinite
  <1>3. Cardinality(members[r] \ {u}) \in Nat /\ Cardinality(members[r]) \in Nat
    BY <1>2, FS_CardinalityType DEF MembersFinite
  <1>4. MembersFinite'
    BY <1>2 DEF MembersFinite, LedgerTypeOK
  <1>5. CapacityRespected'
    BY <1>2, <1>3 DEF CapacityRespected, LedgerTypeOK
  <1>6. ActiveIsMember'
    BY DEF ActiveIsMember, LedgerTypeOK, Live
  <1>7. DeadRoomEmpty'
    BY DEF DeadRoomEmpty, LedgerTypeOK, Live
  <1> QED
    BY <1>1, <1>4, <1>5, <1>6, <1>7

\* leave_chat_room and kick_room_member, for a peeked room that may be stale.
LEMMA DepartKeeps ==
  ASSUME LedgerInv, NEW u \in Users, NEW r \in Rooms, Depart(u, r)
  PROVE  LedgerInv'
  <1>1. CASE Cardinality(members[r] \ {u}) <= 1
    BY <1>1, DissolveKeeps DEF Depart, DepartAs
  <1>2. CASE ~ (Cardinality(members[r] \ {u}) <= 1)
    <2>1. RemoveMember(u, r, members[r] \ {u}, "closed")
      BY <1>2 DEF Depart, DepartAs, RemoveMember
    <2> QED
      BY <1>2, <2>1, RemoveKeeps DEF Depart
  <1> QED
    BY <1>1, <1>2

\* Closing and reopening change nothing but the status of a live room.
LEMMA SetStatusKeeps ==
  ASSUME LedgerInv, NEW r \in Rooms, NEW s \in {"open", "closed"}, Live(r), SetStatus(r, s)
  PROVE  LedgerInv'
  BY DEF LedgerInv, SetStatus, LedgerTypeOK, Statuses, MembersFinite, CapacityRespected,
         ActiveIsMember, DeadRoomEmpty, Live

\* remove_banned_user_from_room.
LEMMA ExpelKeeps ==
  ASSUME LedgerInv, NEW u \in Users, NEW r \in Rooms, Expel(u, r)
  PROVE  LedgerInv'
  <1>1. CASE owner[r] = u
    BY <1>1, SetStatusKeeps DEF Expel
  <1>2. CASE owner[r] # u
    BY <1>2, RemoveKeeps DEF Expel, Live
  <1> QED
    BY <1>1, <1>2

\* A ban writes is_banned only.
LEMMA BanKeeps ==
  ASSUME LedgerInv, NEW u \in Users, Ban(u)
  PROVE  LedgerInv'
  BY DEF LedgerInv, Ban, LedgerTypeOK, MembersFinite, CapacityRespected, ActiveIsMember,
         DeadRoomEmpty, Live

\* A step that leaves the ledger alone keeps its invariant.
LEMMA StutterKeeps ==
  ASSUME LedgerInv, UNCHANGED ledger
  PROVE  LedgerInv'
  BY DEF LedgerInv, ledger, LedgerTypeOK, MembersFinite, CapacityRespected, ActiveIsMember,
         DeadRoomEmpty, Live

\* Each operation of the ledger keeps its invariant.
LEMMA NextKeeps == LedgerInv /\ [Next]_ledger => LedgerInv'
  <1> SUFFICES ASSUME LedgerInv, [Next]_ledger PROVE LedgerInv'
    OBVIOUS
  <1>1. ASSUME NEW u \in Users, NEW r \in Rooms, NEW c \in Requests, Create(u, r, c)
        PROVE  LedgerInv'
    BY <1>1, CreateKeeps
  <1>2. ASSUME NEW u \in Users, NEW r \in Rooms, Join(u, r) \/ Depart(u, r) \/ Expel(u, r)
        PROVE  LedgerInv'
    BY <1>2, JoinKeeps, DepartKeeps, ExpelKeeps
  <1>3. ASSUME NEW r \in Rooms, Delete(r)
        PROVE  LedgerInv'
    BY <1>3, DissolveKeeps DEF Delete
  <1>4. ASSUME NEW r \in Rooms, NEW s \in {"open", "closed"}, SetOpen(r, s)
        PROVE  LedgerInv'
    BY <1>4, SetStatusKeeps DEF SetOpen
  <1>5. ASSUME NEW u \in Users, Ban(u)
        PROVE  LedgerInv'
    BY <1>5, BanKeeps
  <1>6. CASE UNCHANGED ledger
    BY <1>6, StutterKeeps
  <1> QED
    BY <1>1, <1>2, <1>3, <1>4, <1>5, <1>6 DEF Next

-----------------------------------------------------------------------------
\* Every property of the ledger holds in every reachable state.
THEOREM LedgerCorrect == Spec => []LedgerInv
  BY InitLedger, NextKeeps, PTL DEF Spec

\* A deleted room stays deleted, whatever operation comes after.
THEOREM DeletionIsFinal == Spec => DeletedForGood
  <1>1. LedgerInv /\ [Next]_ledger =>
          [\A r \in Rooms : status[r] = "deleted" => status'[r] = "deleted"]_ledger
    <2> SUFFICES ASSUME LedgerInv, Next, NEW q \in Rooms, status[q] = "deleted"
                 PROVE  status'[q] = "deleted"
      OBVIOUS
    <2> status \in [Rooms -> Statuses]
      BY DEF LedgerInv, LedgerTypeOK
    <2>1. ASSUME NEW u \in Users, NEW r \in Rooms, NEW c \in Requests, Create(u, r, c)
          PROVE  status'[q] = "deleted"
      BY <2>1 DEF Create, OpenNewRoom
    <2>2. ASSUME NEW u \in Users, NEW r \in Rooms, Join(u, r)
          PROVE  status'[q] = "deleted"
      BY <2>2 DEF Join, AddMember
    <2>3. ASSUME NEW u \in Users, NEW r \in Rooms, Depart(u, r)
          PROVE  status'[q] = "deleted"
      BY <2>3 DEF Depart, DepartAs, Dissolve, RemoveMember
    <2>4. ASSUME NEW u \in Users, NEW r \in Rooms, Expel(u, r)
          PROVE  status'[q] = "deleted"
      BY <2>4 DEF Expel, RemoveMember, SetStatus, Live
    <2>5. ASSUME NEW r \in Rooms, Delete(r) \/ SetOpen(r, "open") \/ SetOpen(r, "closed")
          PROVE  status'[q] = "deleted"
      BY <2>5 DEF Delete, Dissolve, SetOpen, SetStatus, Live
    <2>6. ASSUME NEW u \in Users, Ban(u)
          PROVE  status'[q] = "deleted"
      BY <2>6 DEF Ban
    <2> QED
      BY <2>1, <2>2, <2>3, <2>4, <2>5, <2>6 DEF Next
  <1> QED
    BY <1>1, LedgerCorrect, PTL DEF Spec, DeletedForGood
=============================================================================

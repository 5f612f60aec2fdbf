-------------------------- MODULE RoomMirrorProofs --------------------------
(***************************************************************************)
(* For any users, rooms and number of kills: no flag is left behind by     *)
(* itself, and in an open room only those are suppressed who left it for a *)
(* while.                                                                  *)
(*                                                                         *)
(* Both speak of moments at which no handler is under way.  MInv says what *)
(* holds between: whoever is or will be suppressed by a closing is in a    *)
(* closed room of another (Silent), or the handler that has opened it, or  *)
(* put them out, still has the command that ends the suppression.  Only    *)
(* the dispatcher has such commands, and it does nothing else before it    *)
(* has sent them.                                                          *)
(***************************************************************************)
EXTENDS RoomMirror, RoomLedgerProofs

Cmd == [op : {"set", "clear", "suppress", "unsuppress", "show", "relay", "edit", "sync", "expel"},
        user : Users, room : Rooms \cup {None}]

CmdOK(t, c) ==
  /\ c.op \in {"set", "sync"} => c.room \in Rooms
  /\ c.op = "suppress" => t = Bot /\ c.room = None
  /\ c.op = "expel" => c.user \in banned

TodoOK ==
  /\ todo \in [Tasks -> SUBSET Cmd]
  /\ \A t \in Tasks : \A c \in todo[t] : CmdOK(t, c)

RedisTypes ==
  /\ mirror \in [Users -> Rooms \cup {None}]
  /\ suppressed \subseteq Users /\ away \subseteq suppressed
  /\ crashes \in 0 .. Crashes

\* Here, unlike in ChatRooms, no operation acts on a room peeked too early.
MembersActive == \A r \in Rooms : \A u \in members[r] : active[u] = r

Silent(u) ==
  active[u] # None /\ status[active[u]] = "closed" /\ owner[active[u]] # u

Ends(u, commands) == \E op \in {"clear", "unsuppress"} : Do(op, u, None) \in commands

Silenced ==
  crashes = 0 =>
    \A u \in Users \ banned :
      /\ Do("suppress", u, None) \in todo[Bot] => Silent(u)
      /\ u \in suppressed \ away => Silent(u) \/ Ends(u, todo[Bot])

MInv ==
  /\ LedgerInv /\ MembersActive /\ TodoOK /\ RedisTypes
  /\ NoOrphanFlag /\ Silenced

LEMMA InitMInv == ASSUME MirrorInit PROVE MInv
  <1> USE DEF MirrorInit
  <1>1. LedgerInv
    BY InitLedger
  <1>2. MembersActive
    BY DEF Init, MembersActive
  <1>3. TodoOK /\ RedisTypes
    BY MirrorAssumption DEF TodoOK, RedisTypes
  <1>4. NoOrphanFlag /\ Silenced
    BY DEF NoOrphanFlag, Silenced, Tasks, BotTasks
  <1> QED
    BY <1>1, <1>2, <1>3, <1>4 DEF MInv

-----------------------------------------------------------------------------
(* What the operations on the rooms do to who is silent. *)

\* Those of Depart and Delete set free whom they name and change nobody else.
LEMMA DepartSetsFree ==
  ASSUME LedgerInv, MembersActive, NEW u \in Users, active[u] # None, Depart(u, active[u])
  PROVE  /\ LedgerInv' /\ MembersActive'
         /\ \A v \in Users \ ({u} \cup SetFree(u, active[u])) :
              active'[v] = active[v] /\ (Silent(v) => Silent(v)')
         /\ SetFree(u, active[u]) \subseteq Users /\ UNCHANGED banned
  <1> DEFINE r == active[u]
  <1>1. r \in Rooms /\ u \in members[r] /\ members[r] \subseteq Users
    BY DEF LedgerInv, LedgerTypeOK, ActiveIsMember
  <1>2. LedgerInv'
    BY <1>1, DepartKeeps
  <1>3. CASE Cardinality(members[r] \ {u}) <= 1
    <2>1. Dissolve(r, members[r])
      BY <1>1, <1>3 DEF Depart, DepartAs
    <2>2. SetFree(u, r) = members[r] \ {u}
      BY <1>3 DEF SetFree
    <2> QED
      BY <1>1, <1>2, <2>1, <2>2
         DEF Dissolve, MembersActive, Silent, LedgerInv, LedgerTypeOK, ActiveIsMember
  <1>4. CASE ~(Cardinality(members[r] \ {u}) <= 1)
    <2>1. /\ UNCHANGED <<owner, banned>>
          /\ status' = [status EXCEPT ![r] = status[r]]
          /\ members' = [members EXCEPT ![r] = members[r] \ {u}]
          /\ active' = [active EXCEPT ![u] = None]
      BY <1>4 DEF Depart, DepartAs, RemoveMember
    <2>2. SetFree(u, r) = {}
      BY <1>4 DEF SetFree
    <2> QED
      BY <1>1, <1>2, <2>1, <2>2 DEF MembersActive, Silent, LedgerInv, LedgerTypeOK
  <1> QED
    BY <1>3, <1>4

LEMMA DeleteSetsFree ==
  ASSUME LedgerInv, MembersActive, NEW r \in Rooms, Live(r), Delete(r)
  PROVE  /\ LedgerInv' /\ MembersActive' /\ UNCHANGED banned
         /\ \A v \in Users \ members[r] : active'[v] = active[v] /\ (Silent(v) => Silent(v)')
  <1>1. LedgerInv'
    BY DissolveKeeps DEF Delete
  <1> QED
    BY <1>1 DEF Delete, Dissolve, MembersActive, Silent, LedgerInv, LedgerTypeOK, ActiveIsMember

LEMMA ExpelMovesOne ==
  ASSUME LedgerInv, MembersActive, NEW u \in Users, active[u] # None, Expel(u, active[u])
  PROVE  /\ LedgerInv' /\ MembersActive' /\ u \in banned /\ UNCHANGED banned
         /\ \A v \in Users \ {u} : active'[v] = active[v] /\ (Silent(v) => Silent(v)')
  <1>1. active[u] \in Rooms /\ LedgerInv'
    BY ExpelKeeps DEF LedgerInv, LedgerTypeOK
  <1> QED
    BY <1>1 DEF Expel, SetStatus, RemoveMember, MembersActive, Silent, LedgerInv, LedgerTypeOK

LEMMA Unchanged ==
  ASSUME LedgerInv, MembersActive, UNCHANGED ledger
  PROVE  /\ LedgerInv' /\ MembersActive' /\ UNCHANGED <<active, banned>>
         /\ \A v \in Users : Silent(v)' = Silent(v)
  BY DEF ledger, MembersActive, Silent, LedgerInv, LedgerTypeOK, MembersFinite, CapacityRespected,
         ActiveIsMember, DeadRoomEmpty, Live

-----------------------------------------------------------------------------
(* What every handler has in common, and every command. *)

\* A task that was idle does an operation and has some commands to send.
LEMMA ThenKeeps ==
  ASSUME MInv, NEW t \in Tasks, NEW commands \in SUBSET Cmd, Idle(t), Then(t, commands),
         LedgerInv', MembersActive', banned \subseteq banned', UNCHANGED <<redis, crashes>>,
         \A c \in commands : CmdOK(t, c)',
         \A v \in Users \ banned : Do("suppress", v, None) \in commands => Silent(v)',
         \A v \in Users \ banned :
           /\ active[v] # None => active'[v] # None \/ Ends(v, commands)
           /\ Silent(v) => Silent(v)' \/ (t = Bot /\ Ends(v, commands))
  PROVE  MInv'
  <1>1. /\ todo \in [Tasks -> SUBSET Cmd] /\ Bot \in Tasks
        /\ todo' = [todo EXCEPT ![t] = commands] /\ todo[t] = {}
    BY DEF MInv, TodoOK, Then, Idle, Tasks, BotTasks
  <1>2. TodoOK'
    BY <1>1 DEF MInv, TodoOK, CmdOK
  <1>3. RedisTypes'
    BY DEF MInv, RedisTypes, redis
  <1>4. NoOrphanFlag'
    BY <1>1 DEF MInv, NoOrphanFlag, RedisTypes, redis, Ends
  <1>5. Silenced'
    BY <1>1 DEF MInv, Silenced, TodoOK, CmdOK, Do, Ends, RedisTypes, redis
  <1> QED
    BY <1>2, <1>3, <1>4, <1>5 DEF MInv

\* A command is sent, and perhaps others follow from it.
LEMMA DoneKeeps ==
  ASSUME MInv, NEW t \in Tasks, NEW c \in todo[t], NEW more \in SUBSET Cmd, Done(t, c, more),
         LedgerInv', MembersActive', UNCHANGED <<banned, crashes>>,
         \A d \in more : CmdOK(t, d)' /\ d.op # "suppress",
         mirror' \in [Users -> Rooms \cup {None}], suppressed' \subseteq Users, away' \subseteq suppressed',
         \A v \in Users \ banned : active'[v] = active[v] /\ (Silent(v) => Silent(v)'),
         \A v \in suppressed' :
           /\ c = Do("clear", v, None) => Ends(v, more)
           /\ c # Do("unsuppress", v, None)
           /\ v \in suppressed \/ active[v] # None \/ v \in banned \/ crashes > 0
           /\ mirror'[v] = None => mirror[v] = None \/ Ends(v, more)
           /\ crashes = 0 /\ v \notin away' \cup banned => v \in suppressed \ away \/ Silent(v)
  PROVE  MInv'
  <1>1. /\ todo \in [Tasks -> SUBSET Cmd] /\ Bot \in Tasks
        /\ todo' = [todo EXCEPT ![t] = (todo[t] \ {c}) \cup more]
    BY DEF MInv, TodoOK, Done, Tasks, BotTasks
  <1>2. TodoOK'
    BY <1>1 DEF MInv, TodoOK, CmdOK
  <1>3. RedisTypes'
    BY DEF MInv, RedisTypes
  <1>4. NoOrphanFlag'
    <2> SUFFICES ASSUME NEW v \in suppressed', mirror'[v] = None, active'[v] = None, v \notin banned,
                        ~(crashes > 0)
                 PROVE  \E s \in Tasks : Ends(v, todo'[s])
      BY DEF NoOrphanFlag, Ends
    <2>1. v \in Users /\ active[v] = None /\ v \in suppressed
      OBVIOUS
    <2>2. CASE Ends(v, more)
      BY <1>1, <2>2 DEF Ends
    <2>3. CASE ~Ends(v, more)
      <3>1. PICK s \in Tasks : Ends(v, todo[s])
        BY <2>1, <2>3 DEF MInv, NoOrphanFlag, Ends
      <3> QED
        BY <1>1, <2>3, <3>1 DEF Ends
    <2> QED
      BY <2>2, <2>3
  <1>5. Silenced'
    <2> SUFFICES ASSUME crashes = 0, NEW v \in Users, v \notin banned
                 PROVE  /\ Do("suppress", v, None) \in todo'[Bot] => Silent(v)'
                        /\ v \in suppressed' \ away' => Silent(v)' \/ Ends(v, todo'[Bot])
      BY DEF Silenced
    <2>1. Do("suppress", v, None) \in todo'[Bot] => Do("suppress", v, None) \in todo[Bot]
      BY <1>1 DEF Do
    <2>2. ASSUME v \in suppressed', Ends(v, todo[Bot])
          PROVE  Ends(v, todo'[Bot])
      BY <1>1, <2>2 DEF Ends
    <2> QED
      BY <2>1, <2>2 DEF MInv, Silenced
  <1> QED
    BY <1>2, <1>3, <1>4, <1>5 DEF MInv
-----------------------------------------------------------------------------
(* The handlers. *)

LEMMA CreateRoomKeeps ==
  ASSUME MInv, NEW u \in Users, NEW r \in Rooms, NEW c \in Requests, CreateRoom(u, r, c)
  PROVE  MInv'
  <1> DEFINE more == {Do("set", u, r)}
  <1>1. LedgerInv' /\ UNCHANGED banned
    BY CreateKeeps DEF MInv, CreateRoom, Create, OpenNewRoom
  <1>2. /\ MembersActive'
        /\ \A v \in Users : /\ active[v] # None => active'[v] # None
                            /\ Silent(v) => Silent(v)'
    BY NoneAssumption DEF MInv, CreateRoom, Create, OpenNewRoom, MembersActive, Silent, LedgerInv,
           LedgerTypeOK, ActiveIsMember, Live
  <1>3. more \in SUBSET Cmd /\ \A d \in more : CmdOK(Bot, d)' /\ d.op = "set"
    BY DEF Cmd, CmdOK, Do
  <1>4. Idle(Bot) /\ Then(Bot, more) /\ UNCHANGED <<redis, crashes>> /\ Bot \in Tasks
    BY DEF CreateRoom, MayUpdate, Tasks, BotTasks
  <1>5. \A v : Do("suppress", v, None) \notin more
    BY DEF Do
  <1> QED
    BY <1>1, <1>2, <1>3, <1>4, <1>5, ThenKeeps

LEMMA JoinRoomKeeps ==
  ASSUME MInv, NEW t \in Tasks, NEW u \in Users, NEW r \in Rooms, JoinRoom(t, u, r)
  PROVE  MInv'
  <1> DEFINE more == {Do("set", u, r)}
  <1>1. LedgerInv' /\ UNCHANGED banned
    BY JoinKeeps DEF MInv, JoinRoom, Join, AddMember
  <1>2. /\ MembersActive'
        /\ \A v \in Users : /\ active[v] # None => active'[v] # None
                            /\ Silent(v) => Silent(v)'
    BY NoneAssumption DEF MInv, JoinRoom, Join, AddMember, MembersActive, Silent, LedgerInv,
           LedgerTypeOK
  <1>3. more \in SUBSET Cmd /\ \A d \in more : CmdOK(t, d)'
    BY DEF Cmd, CmdOK, Do
  <1>4. Idle(t) /\ Then(t, more) /\ UNCHANGED <<redis, crashes>>
    BY DEF JoinRoom
  <1>5. \A v : Do("suppress", v, None) \notin more
    BY DEF Do
  <1> QED
    BY <1>1, <1>2, <1>3, <1>4, <1>5, ThenKeeps

\* The commands that end the suppression of whom they name.
LEMMA ClearEnds ==
  ASSUME NEW t \in Tasks, NEW users \in SUBSET Users
  PROVE  /\ Clear(users) \in SUBSET Cmd
         /\ \A d \in Clear(users) : CmdOK(t, d)' /\ d.op # "suppress"
         /\ \A v : Do("suppress", v, None) \notin Clear(users)
         /\ \A v \in users : Ends(v, Clear(users))
  <1> DEFINE commands == Clear(users)
  <1>1. \A d \in commands : \E v \in users : d = Do("clear", v, None)
    BY DEF Clear
  <1>2. \A v \in users : Do("clear", v, None) \in commands
    BY DEF Clear
  <1> HIDE DEF commands
  <1>3. commands \in SUBSET Cmd
    BY <1>1 DEF Do, Cmd
  <1>4. \A d \in commands : CmdOK(t, d)' /\ d.op # "suppress"
    BY <1>1 DEF Do, CmdOK
  <1>5. \A v : Do("suppress", v, None) \notin commands
    BY <1>1 DEF Do
  <1>6. \A v \in users : Ends(v, commands)
    BY <1>2 DEF Ends
  <1> QED
    BY <1>3, <1>4, <1>5, <1>6 DEF commands

\* A handler of the dispatcher that clears the mirror of those it puts out.
LEMMA ClearingKeeps ==
  ASSUME MInv, NEW users \in SUBSET Users, Idle(Bot), Then(Bot, Clear(users)),
         LedgerInv', MembersActive', UNCHANGED <<banned, redis, crashes>>,
         \A v \in Users \ users : active'[v] = active[v] /\ (Silent(v) => Silent(v)')
  PROVE  MInv'
  <1>1. Bot \in Tasks
    BY DEF Tasks, BotTasks
  <1>2. \A v \in Users \ banned :
          /\ active[v] # None => active'[v] # None \/ Ends(v, Clear(users))
          /\ Silent(v) => Silent(v)' \/ (Bot = Bot /\ Ends(v, Clear(users)))
    BY <1>1, ClearEnds
  <1> QED
    BY <1>1, <1>2, ClearEnds, ThenKeeps

LEMMA LeaveRoomKeeps ==
  ASSUME MInv, NEW u \in Users, LeaveRoom(u)
  PROVE  MInv'
  <1>1. Idle(Bot) /\ UNCHANGED <<redis, crashes>> /\ LedgerInv /\ MembersActive
    BY DEF LeaveRoom, MayUpdate, MInv
  <1>2. CASE /\ active[u] # None /\ Depart(u, active[u])
             /\ Then(Bot, Clear({u} \cup SetFree(u, active[u])))
    BY <1>1, <1>2, DepartSetsFree, ClearingKeeps
  <1>3. CASE Then(Bot, Clear({u})) /\ UNCHANGED ledger
    BY <1>1, <1>3, Unchanged, ClearingKeeps
  <1> QED
    BY <1>2, <1>3 DEF LeaveRoom

LEMMA KickKeeps ==
  ASSUME MInv, NEW o \in Users, NEW u \in Users, Kick(o, u)
  PROVE  MInv'
  <1>1. /\ Idle(Bot) /\ UNCHANGED <<redis, crashes>> /\ LedgerInv /\ MembersActive
        /\ active[u] # None /\ Depart(u, active[u])
        /\ Then(Bot, Clear({u} \cup SetFree(u, active[u])))
    BY DEF Kick, MayUpdate, MInv
  <1> QED
    BY <1>1, DepartSetsFree, ClearingKeeps

LEMMA DeleteRoomKeeps ==
  ASSUME MInv, NEW o \in Users, DeleteRoom(o)
  PROVE  MInv'
  <1>1. Idle(Bot) /\ UNCHANGED <<redis, crashes>> /\ LedgerInv /\ MembersActive
    BY DEF DeleteRoom, MayUpdate, MInv
  <1>2. CASE active[o] # None /\ Delete(active[o]) /\ Then(Bot, Clear(members[active[o]]))
    <2>1. active[o] \in Rooms /\ Live(active[o]) /\ members[active[o]] \in SUBSET Users
      BY <1>1, <1>2 DEF LedgerInv, LedgerTypeOK, ActiveIsMember
    <2> QED
      BY <1>1, <1>2, <2>1, DeleteSetsFree, ClearingKeeps
  <1>3. CASE Then(Bot, Clear({o})) /\ UNCHANGED ledger
    BY <1>1, <1>3, Unchanged, ClearingKeeps
  <1> QED
    BY <1>2, <1>3 DEF DeleteRoom

LEMMA SetRoomStatusKeeps ==
  ASSUME MInv, NEW o \in Users, NEW s \in {"open", "closed"}, SetRoomStatus(o, s)
  PROVE  MInv'
  <1>1. /\ Idle(Bot) /\ UNCHANGED <<redis, crashes>> /\ LedgerInv /\ MembersActive
        /\ Bot \in Tasks
    BY DEF SetRoomStatus, MayUpdate, MInv, Tasks, BotTasks
  <1>2. CASE Then(Bot, Clear({o})) /\ UNCHANGED ledger
    BY <1>1, <1>2, Unchanged, ClearingKeeps
  <1>3. ASSUME active[o] # None, owner[active[o]] = o, SetOpen(active[o], s),
               Then(Bot, {Do(IF s = "open" THEN "unsuppress" ELSE "suppress", u, None) :
                            u \in members[active[o]] \ {o}})
        PROVE  MInv'
    <2> DEFINE r == active[o]
               op == IF s = "open" THEN "unsuppress" ELSE "suppress"
               more == {Do(op, u, None) : u \in members[r] \ {o}}
    <2>1. r \in Rooms /\ Live(r) /\ members[r] \subseteq Users
      BY <1>1, <1>3 DEF LedgerInv, LedgerTypeOK, ActiveIsMember
    <2>2. LedgerInv' /\ UNCHANGED <<banned, active>>
      BY <1>1, <1>3, <2>1, SetStatusKeeps DEF SetOpen, SetStatus
    <2>3. MembersActive'
      BY <1>1, <1>3 DEF MembersActive, SetOpen, SetStatus
    <2>4. more \in SUBSET Cmd /\ \A d \in more : CmdOK(Bot, d)'
      BY <2>1 DEF Cmd, CmdOK, Do
    <2>5. ASSUME NEW v \in Users, Do("suppress", v, None) \in more
          PROVE  Silent(v)'
      <3>1. s = "closed" /\ v \in members[r] /\ v # o
        BY <2>5 DEF Do
      <3>2. active[v] = r
        BY <1>1, <2>1, <3>1 DEF MembersActive
      <3> QED
        BY <1>1, <1>3, <2>1, <3>1, <3>2 DEF SetOpen, SetStatus, Silent, LedgerInv, LedgerTypeOK
    <2>6. ASSUME NEW v \in Users, Silent(v)
          PROVE  Silent(v)' \/ Ends(v, more)
      <3>1. CASE active[v] = r /\ s = "open"
        <4>1. v \in members[r] \ {o}
          BY <1>1, <1>3, <2>6, <3>1 DEF LedgerInv, ActiveIsMember, Silent
        <4>2. Do("unsuppress", v, None) \in more
          BY <3>1, <4>1
        <4> QED
          BY <4>2 DEF Ends
      <3>2. CASE active[v] # r \/ s = "closed"
        BY <1>1, <1>3, <2>1, <2>6, <3>2 DEF SetOpen, SetStatus, Silent, LedgerInv, LedgerTypeOK
      <3> QED
        BY <3>1, <3>2
    <2>7. \A v \in Users \ banned :
            /\ active[v] # None => active'[v] # None \/ Ends(v, more)
            /\ Silent(v) => Silent(v)' \/ (Bot = Bot /\ Ends(v, more))
      BY <2>2, <2>6
    <2>8. \A v \in Users \ banned : Do("suppress", v, None) \in more => Silent(v)'
      BY <2>5
    <2> HIDE DEF more
    <2>9. Then(Bot, more)
      BY <1>3 DEF more
    <2> QED
      BY <1>1, <2>2, <2>3, <2>4, <2>7, <2>8, <2>9, ThenKeeps
  <1> QED
    BY <1>2, <1>3 DEF SetRoomStatus

\* A handler, or the sync job, that only asks the redis or the tables.
LEMMA AskingKeeps ==
  ASSUME MInv, NEW t \in Tasks, NEW more \in SUBSET Cmd, Idle(t), Then(t, more),
         UNCHANGED <<ledger, redis, crashes>>,
         \A d \in more : CmdOK(t, d)' /\ d.op # "suppress"
  PROVE  MInv'
  <1>1. LedgerInv' /\ MembersActive' /\ UNCHANGED <<active, banned>> /\ \A v \in Users : Silent(v)' = Silent(v)
    BY Unchanged DEF MInv
  <1>2. \A v : Do("suppress", v, None) \notin more
    BY DEF Do
  <1> QED
    BY <1>1, <1>2, ThenKeeps

LEMMA ExitKeeps ==
  ASSUME MInv, NEW u \in Users, Exit(u)
  PROVE  MInv'
  <1>1. LedgerInv' /\ MembersActive' /\ UNCHANGED <<active, banned>> /\ \A v \in Users : Silent(v)' = Silent(v)
    BY Unchanged DEF MInv, Exit
  <1>2. TodoOK' /\ RedisTypes'
    BY <1>1 DEF MInv, Exit, TodoOK, CmdOK, RedisTypes
  <1>3. NoOrphanFlag'
    BY <1>1 DEF MInv, Exit, InRoom, NoOrphanFlag
  <1>4. Silenced'
    BY <1>1 DEF MInv, Exit, Silenced
  <1> QED
    BY <1>1, <1>2, <1>3, <1>4 DEF MInv

LEMMA SyncListKeeps ==
  ASSUME MInv, SyncList
  PROVE  MInv'
  <1> DEFINE more == {Do("sync", u, active[u]) : u \in {v \in Users : active[v] # None}}
  <1>1. active \in [Users -> Rooms \cup {None}]
    BY DEF MInv, LedgerInv, LedgerTypeOK
  <1>2. more \in SUBSET Cmd /\ \A d \in more : CmdOK(Sync, d)' /\ d.op # "suppress"
    BY <1>1 DEF Cmd, CmdOK, Do
  <1>3. Sync \in Tasks /\ Idle(Sync) /\ Then(Sync, more) /\ UNCHANGED <<ledger, redis, crashes>>
    BY DEF SyncList, Tasks, BotTasks
  <1> QED
    BY <1>2, <1>3, AskingKeeps

\* The room's menu, a message, an edit.
LEMMA AskUpdateKeeps ==
  ASSUME MInv, NEW u \in Users, ShowRoom(u) \/ Write(u) \/ Edit(u)
  PROVE  MInv'
  <1>1. PICK op \in {"show", "relay", "edit"} : Then(Bot, {Do(op, u, mirror[u])})
    BY DEF ShowRoom, Write, Edit
  <1> DEFINE more == {Do(op, u, mirror[u])}
  <1>2. more \in SUBSET Cmd /\ \A d \in more : CmdOK(Bot, d)' /\ d.op # "suppress"
    BY DEF MInv, RedisTypes, Cmd, CmdOK, Do
  <1>3. Bot \in Tasks /\ Idle(Bot) /\ UNCHANGED <<ledger, redis, crashes>>
    BY DEF ShowRoom, Write, Edit, MayUpdate, Tasks, BotTasks
  <1> QED
    BY <1>1, <1>2, <1>3, AskingKeeps

LEMMA BanUserKeeps ==
  ASSUME MInv, NEW u \in Users, BanUser(u)
  PROVE  MInv'
  <1> DEFINE more == {Do("expel", u, None)}
  <1>1. LedgerInv' /\ banned' = banned \cup {u} /\ UNCHANGED <<status, owner, members, active>>
    BY BanKeeps DEF MInv, BanUser, Ban
  <1>2. MembersActive' /\ \A v \in Users : Silent(v)' = Silent(v)
    BY <1>1 DEF MInv, MembersActive, Silent
  <1>3. more \in SUBSET Cmd /\ \A d \in more : CmdOK(Worker, d)'
    BY <1>1 DEF Cmd, CmdOK, Do
  <1>4. \A v : Do("suppress", v, None) \notin more
    BY DEF Do
  <1>5. Worker \in Tasks /\ Idle(Worker) /\ Then(Worker, more) /\ UNCHANGED <<redis, crashes>>
    BY DEF BanUser, Tasks
  <1> QED
    BY <1>1, <1>2, <1>3, <1>4, <1>5, ThenKeeps

-----------------------------------------------------------------------------
(* The commands. *)

LEMMA SetMirrorKeeps ==
  ASSUME MInv, NEW t \in Tasks, NEW c \in todo[t], SetMirror(t, c), UNCHANGED crashes
  PROVE  MInv'
  <1>1. /\ LedgerInv' /\ MembersActive' /\ UNCHANGED <<active, banned>>
        /\ \A v \in Users : Silent(v)' = Silent(v)
    BY Unchanged DEF MInv, SetMirror
  <1>2. c \in Cmd /\ c.room \in Rooms
    BY DEF MInv, TodoOK, CmdOK, SetMirror
  <1>3. /\ mirror' \in [Users -> Rooms \cup {None}] /\ UNCHANGED <<suppressed, away>>
        /\ \A v \in Users : mirror'[v] = None => mirror[v] = None
    BY <1>2, NoneAssumption DEF MInv, RedisTypes, SetMirror, Cmd
  <1>4. \A v : c # Do("clear", v, None) /\ c # Do("unsuppress", v, None)
    BY DEF SetMirror, Do
  <1>5. suppressed \subseteq Users /\ away \subseteq suppressed
    BY DEF MInv, RedisTypes
  <1> QED
    BY <1>1, <1>3, <1>4, <1>5, DoneKeeps DEF SetMirror

LEMMA ClearMirrorKeeps ==
  ASSUME MInv, NEW t \in Tasks, NEW c \in todo[t], ClearMirror(t, c), UNCHANGED crashes
  PROVE  MInv'
  <1> DEFINE more == {Do("unsuppress", c.user, None)}
  <1>1. /\ LedgerInv' /\ MembersActive' /\ UNCHANGED <<active, banned>>
        /\ \A v \in Users : Silent(v)' = Silent(v)
    BY Unchanged DEF MInv, ClearMirror
  <1>2. c \in Cmd /\ c.user \in Users
    BY DEF MInv, TodoOK, Cmd
  <1>3. more \in SUBSET Cmd /\ \A d \in more : CmdOK(t, d)' /\ d.op # "suppress"
    BY <1>2 DEF Cmd, CmdOK, Do
  <1>4. /\ mirror' \in [Users -> Rooms \cup {None}] /\ UNCHANGED <<suppressed, away>>
        /\ \A v \in Users : mirror'[v] = None => mirror[v] = None \/ Ends(v, more)
    BY <1>2 DEF MInv, RedisTypes, ClearMirror, Ends
  <1>5. \A v : /\ c = Do("clear", v, None) => Ends(v, more)
               /\ c # Do("unsuppress", v, None)
    BY DEF ClearMirror, Do, Ends
  <1>6. suppressed \subseteq Users /\ away \subseteq suppressed
    BY DEF MInv, RedisTypes
  <1> HIDE DEF more
  <1>7. Done(t, c, more)
    BY DEF ClearMirror, more
  <1> QED
    BY <1>1, <1>3, <1>4, <1>5, <1>6, <1>7, DoneKeeps

LEMMA SuppressKeeps ==
  ASSUME MInv, NEW t \in Tasks, NEW c \in todo[t], Suppress(t, c), UNCHANGED crashes
  PROVE  MInv'
  <1>1. /\ LedgerInv' /\ MembersActive' /\ UNCHANGED <<active, banned>>
        /\ \A v \in Users : Silent(v)' = Silent(v)
    BY Unchanged DEF MInv, Suppress
  <1>2. c \in Cmd /\ c.user \in Users /\ t = Bot /\ c.room = None
    BY DEF MInv, TodoOK, CmdOK, Cmd, Suppress
  <1>3. c = Do("suppress", c.user, None)
    BY <1>2 DEF Cmd, Do, Suppress
  <1>4. crashes = 0 /\ c.user \notin banned => Silent(c.user)
    BY <1>2, <1>3 DEF MInv, Silenced
  <1>5. crashes = 0 \/ crashes > 0
    BY MirrorAssumption DEF MInv, RedisTypes
  <1>6. /\ mirror' \in [Users -> Rooms \cup {None}] /\ UNCHANGED <<mirror, away>>
        /\ suppressed' \subseteq Users /\ away' \subseteq suppressed'
        /\ suppressed' = suppressed \cup {c.user}
    BY <1>2 DEF MInv, RedisTypes, Suppress
  <1>7. \A v : c # Do("clear", v, None) /\ c # Do("unsuppress", v, None)
    BY DEF Suppress, Do
  <1>8. Silent(c.user) => active[c.user] # None
    BY DEF Silent
  <1> QED
    BY <1>1, <1>4, <1>5, <1>6, <1>7, <1>8, DoneKeeps DEF Suppress

LEMMA UnsuppressKeeps ==
  ASSUME MInv, NEW t \in Tasks, NEW c \in todo[t], Unsuppress(t, c), UNCHANGED crashes
  PROVE  MInv'
  <1>1. /\ LedgerInv' /\ MembersActive' /\ UNCHANGED <<active, banned>>
        /\ \A v \in Users : Silent(v)' = Silent(v)
    BY Unchanged DEF MInv, Unsuppress
  <1>2. \A v \in suppressed' : c # Do("clear", v, None) /\ c # Do("unsuppress", v, None)
    BY DEF Unsuppress, Do
  <1>3. /\ mirror' \in [Users -> Rooms \cup {None}] /\ UNCHANGED mirror
        /\ suppressed' \subseteq suppressed /\ suppressed \subseteq Users
        /\ away' \subseteq suppressed'
        /\ \A v \in suppressed' : v \notin away' => v \in suppressed \ away
    BY DEF MInv, RedisTypes, Unsuppress
  <1> QED
    BY <1>1, <1>2, <1>3, DoneKeeps DEF Unsuppress

\* A command that only reads, and decides what has to follow.
LEMMA ReadingKeeps ==
  ASSUME MInv, NEW t \in Tasks, NEW c \in todo[t], NEW more \in SUBSET Cmd, Done(t, c, more),
         c.op \notin {"clear", "unsuppress"},
         UNCHANGED <<ledger, redis, crashes>>,
         \A d \in more : CmdOK(t, d)' /\ d.op # "suppress"
  PROVE  MInv'
  <1>1. /\ LedgerInv' /\ MembersActive' /\ UNCHANGED <<active, banned>>
        /\ \A v \in Users : Silent(v)' = Silent(v)
    BY Unchanged DEF MInv
  <1>2. \A v : c # Do("clear", v, None) /\ c # Do("unsuppress", v, None)
    BY DEF Do
  <1>3. /\ mirror \in [Users -> Rooms \cup {None}] /\ UNCHANGED <<mirror, suppressed, away>>
        /\ suppressed \subseteq Users /\ away \subseteq suppressed
    BY DEF MInv, RedisTypes, redis
  <1> QED
    BY <1>1, <1>2, <1>3, DoneKeeps

LEMMA ReadersKeep ==
  ASSUME MInv, NEW t \in Tasks, NEW c \in todo[t], UNCHANGED crashes,
         Show(t, c) \/ Relay(t, c) \/ EditRelay(t, c) \/ SyncGet(t, c)
  PROVE  MInv'
  <1>1. c \in Cmd /\ c.user \in Users /\ (c.op = "sync" => c.room \in Rooms)
    BY DEF MInv, TodoOK, CmdOK, Cmd
  <1>2. PICK more \in {{}, {Do("unsuppress", c.user, None)}, {Do("clear", c.user, None)}} \cup
                      {{Do("set", c.user, r)} : r \in Rooms} : Done(t, c, more)
    BY <1>1 DEF Show, Relay, EditRelay, SyncGet, Clear
  <1>3. more \in SUBSET Cmd /\ \A d \in more : CmdOK(t, d)' /\ d.op # "suppress"
    BY <1>1 DEF Cmd, CmdOK, Do
  <1>4. c.op \notin {"clear", "unsuppress"} /\ UNCHANGED <<ledger, redis>>
    BY DEF Show, Relay, EditRelay, SyncGet
  <1> QED
    BY <1>2, <1>3, <1>4, ReadingKeeps

LEMMA ExpelBannedKeeps ==
  ASSUME MInv, NEW t \in Tasks, NEW c \in todo[t], ExpelBanned(t, c), UNCHANGED crashes
  PROVE  MInv'
  <1>1. c \in Cmd /\ c.user \in Users /\ c.op = "expel" /\ c.user \in banned
    BY DEF MInv, TodoOK, CmdOK, Cmd, ExpelBanned
  <1>2. CASE active[c.user] = None /\ Done(t, c, {}) /\ UNCHANGED ledger
    BY <1>1, <1>2, ReadingKeeps DEF ExpelBanned
  <1>3. CASE active[c.user] # None /\ Expel(c.user, active[c.user]) /\ Done(t, c, Clear({c.user}))
    <2>1. /\ LedgerInv' /\ MembersActive' /\ UNCHANGED banned
          /\ \A v \in Users \ {c.user} : active'[v] = active[v] /\ (Silent(v) => Silent(v)')
      BY <1>1, <1>3, ExpelMovesOne DEF MInv
    <2>2. \A v : c # Do("clear", v, None) /\ c # Do("unsuppress", v, None)
      BY <1>1 DEF Do
    <2>3. /\ mirror \in [Users -> Rooms \cup {None}] /\ UNCHANGED <<mirror, suppressed, away>>
          /\ suppressed \subseteq Users /\ away \subseteq suppressed
      BY DEF MInv, RedisTypes, redis, ExpelBanned
    <2>4. Clear({c.user}) \in SUBSET Cmd /\ \A d \in Clear({c.user}) : CmdOK(t, d)' /\ d.op # "suppress"
      BY <1>1, ClearEnds
    <2> QED
      BY <1>1, <1>3, <2>1, <2>2, <2>3, <2>4, DoneKeeps
  <1> QED
    BY <1>2, <1>3 DEF ExpelBanned

LEMMA CommandKeeps ==
  ASSUME MInv, NEW t \in Tasks, Command(t)
  PROVE  MInv'
  BY SetMirrorKeeps, ClearMirrorKeeps, SuppressKeeps, UnsuppressKeeps, ReadersKeep, ExpelBannedKeeps
     DEF Command

-----------------------------------------------------------------------------
(* A kill excuses the flags: what is left to show is the types. *)

LEMMA CrashKeeps ==
  ASSUME MInv, NEW killed, Crash(killed)
  PROVE  MInv'
  <1>1. LedgerInv' /\ MembersActive' /\ UNCHANGED banned
    BY Unchanged DEF MInv, Crash
  <1>2. crashes' \in 0 .. Crashes /\ crashes' > 0
    BY MirrorAssumption DEF MInv, RedisTypes, Crash
  <1>3. TodoOK'
    BY <1>1 DEF MInv, TodoOK, CmdOK, Crash
  <1>4. RedisTypes'
    BY <1>2 DEF MInv, RedisTypes, Crash, redis
  <1>5. NoOrphanFlag' /\ Silenced'
    BY <1>2 DEF NoOrphanFlag, Silenced
  <1> QED
    BY <1>1, <1>3, <1>4, <1>5 DEF MInv

LEMMA NothingKeeps ==
  ASSUME MInv, UNCHANGED vars
  PROVE  MInv'
  <1>1. /\ LedgerInv' /\ MembersActive' /\ UNCHANGED <<active, banned>>
        /\ \A v \in Users : Silent(v)' = Silent(v)
    BY Unchanged DEF MInv, vars
  <1>2. UNCHANGED <<mirror, suppressed, away, todo, crashes>>
    BY DEF vars, redis
  <1> QED
    BY <1>1, <1>2 DEF MInv, TodoOK, CmdOK, RedisTypes, NoOrphanFlag, Silenced, Ends

LEMMA UpdateKeeps ==
  ASSUME MInv, NEW u \in Users, Update(u)
  PROVE  MInv'
  BY CreateRoomKeeps, KickKeeps, SetRoomStatusKeeps, LeaveRoomKeeps, DeleteRoomKeeps, ExitKeeps,
     AskUpdateKeeps DEF Update

LEMMA StepKeeps == MInv /\ [MirrorNext]_vars => MInv'
  <1> SUFFICES ASSUME MInv, [MirrorNext]_vars PROVE MInv'
    OBVIOUS
  <1>1. ASSUME NEW u \in Users, Update(u) \/ BanUser(u)
        PROVE  MInv'
    BY <1>1, UpdateKeeps, BanUserKeeps
  <1>2. ASSUME NEW t \in {Bot, Sweep}, NEW u \in Users, NEW r \in Rooms, JoinRoom(t, u, r)
        PROVE  MInv'
    BY <1>2, JoinRoomKeeps DEF Tasks, BotTasks
  <1>3. CASE SyncList
    BY <1>3, SyncListKeeps
  <1>4. ASSUME NEW t \in Tasks, Command(t)
        PROVE  MInv'
    BY <1>4, CommandKeeps
  <1>5. CASE Crash(BotTasks) \/ Crash({Worker})
    BY <1>5, CrashKeeps
  <1>6. CASE UNCHANGED vars
    BY <1>6, NothingKeeps
  <1> QED
    BY <1>1, <1>2, <1>3, <1>4, <1>5, <1>6 DEF MirrorNext

-----------------------------------------------------------------------------
(* The theorems. *)

\* The inductive invariant holds for every number of users, rooms and kills,
\* whatever the handlers, the two jobs and the worker interleave.
THEOREM MirrorCorrect == MirrorSpec => []MInv
  BY InitMInv, StepKeeps, PTL DEF MirrorSpec

\* The keys of redis hold what the handlers read them as.
THEOREM MirrorTypesAlwaysOK == MirrorSpec => []TypeOK
  <1>1. MInv => TypeOK
    BY DEF MInv, LedgerInv, TodoOK, RedisTypes, Cmd, TypeOK
  <1> QED
    BY <1>1, MirrorCorrect, PTL

\* No suppression is left behind without a room and without a mirror: whoever
\* joins a room after leaving one is heard in it (clear_active_room).
THEOREM FlagsNeverOrphaned == MirrorSpec => []NoOrphanFlag
  <1>1. MInv => NoOrphanFlag
    BY DEF MInv
  <1> QED
    BY <1>1, MirrorCorrect, PTL

\* When a room is open and no handler is under way, only those of its members
\* are suppressed who left it for a while themselves (_set_room_status).
THEOREM OpenRoomsAlwaysHeard == MirrorSpec => []OpenRoomIsHeard
  <1>1. MInv => OpenRoomIsHeard
    <2> SUFFICES ASSUME MInv, Idle(Bot), crashes = 0, NEW u \in suppressed, active[u] # None,
                        status[active[u]] = "open", u \notin away, u \notin banned
                 PROVE  FALSE
      BY DEF OpenRoomIsHeard
    <2>1. u \in Users /\ ~Ends(u, todo[Bot])
      BY DEF MInv, RedisTypes, Idle, Ends
    <2>2. Silent(u)
      BY <2>1 DEF MInv, Silenced
    <2> QED
      BY <2>2 DEF Silent
  <1> QED
    BY <1>1, MirrorCorrect, PTL
=============================================================================

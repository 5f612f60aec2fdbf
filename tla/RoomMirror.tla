---------------------------- MODULE RoomMirror ----------------------------
(***************************************************************************)
(* The mirror in redis of users.active_room_id, which decides for every    *)
(* message whether it goes to a room (main.py, text_router), and the flag  *)
(* that suppresses the room for a member who left it for a while or whose  *)
(* owner closed it (redis_client.py).                                      *)
(*                                                                         *)
(* The operations on the rooms are the indivisible ones of RoomLedger,     *)
(* which ChatRooms shows the transactions to implement.  A handler commits *)
(* one of them and then sends its redis commands, one by one; between two  *)
(* commands the sweep may fill a seat, the sync job repair the mirror, a   *)
(* verdict of the worker process put somebody out.  The commands a task    *)
(* has still to send are a set, for no two of them depend on their order.  *)
(***************************************************************************)
EXTENDS RoomLedger

CONSTANTS Bot, Sweep, Sync,  \* the dispatcher of updates, two repeating jobs
          Worker,            \* a verdict of the worker process
          Faithful,          \* the users who never stop writing for good
          Suspects,          \* bound: the users whom a verdict may ban
          Crashes            \* bound: how often a process is killed

ASSUME MirrorAssumption == Crashes \in Nat /\ Suspects \cup Faithful \subseteq Users

VARIABLES mirror,      \* user -> KEY_USER_ACTIVE_ROOM
          suppressed,  \* the users with KEY_ROOM_UI_SUPPRESSED
          todo,        \* task -> the commands it has still to send
          away,        \* history: who left for a while since a room let them in
          crashes      \* how often a process has been killed

redis == <<mirror, suppressed, away>>
vars == <<ledger, redis, todo, crashes>>

BotTasks == {Bot, Sweep, Sync}
Tasks == BotTasks \cup {Worker}

Do(op, u, r) == [op |-> op, user |-> u, room |-> r]
Clear(users) == {Do("clear", u, None) : u \in users}

MirrorInit ==
  /\ Init
  /\ mirror = [u \in Users |-> None]
  /\ suppressed = {} /\ away = {}
  /\ todo = [t \in Tasks |-> {}]
  /\ crashes = 0

Idle(t) == todo[t] = {}
Then(t, commands) == todo' = [todo EXCEPT ![t] = commands]

\* The gate of main.py.
MayUpdate(u) == Idle(Bot) /\ u \notin banned

\* text_router: the buttons and messages of a room are for those whom the
\* mirror puts into one, unless it is suppressed.
InRoom(u) == mirror[u] # None /\ u \notin suppressed

-----------------------------------------------------------------------------
(* The handlers, up to the COMMIT. *)

\* _handle_capacity_selected
CreateRoom(u, r, c) ==
  /\ MayUpdate(u)
  /\ Create(u, r, c)
  /\ Then(Bot, {Do("set", u, r)})
  /\ UNCHANGED <<redis, crashes>>

\* _notify_room_join_success: a search, the trigger after a handler, a sweep.
JoinRoom(t, u, r) ==
  /\ Idle(t)
  /\ Join(u, r)
  /\ Then(t, {Do("set", u, r)})
  /\ UNCHANGED <<redis, crashes>>

\* Whom leave_chat_room and kick_room_member name beside the one who goes:
\* those who were left in a room they deleted.
SetFree(u, r) == {v \in members[r] \ {u} : Cardinality(members[r] \ {u}) <= 1}

\* leave_room_button
LeaveRoom(u) ==
  /\ MayUpdate(u) /\ InRoom(u)
  /\ \/ /\ active[u] # None
        /\ Depart(u, active[u])
        /\ Then(Bot, Clear({u} \cup SetFree(u, active[u])))
     \/ /\ active[u] = None
        /\ Then(Bot, Clear({u}))
        /\ UNCHANGED ledger
  /\ UNCHANGED <<redis, crashes>>

\* _handle_kick_command
Kick(o, u) ==
  /\ MayUpdate(o) /\ InRoom(o)
  /\ u # o /\ active[o] # None /\ active[u] = active[o] /\ owner[active[o]] = o
  /\ Depart(u, active[o])
  /\ Then(Bot, Clear({u} \cup SetFree(u, active[o])))
  /\ UNCHANGED <<redis, crashes>>

\* delete_room_confirm_callback, whose button may be pressed at any time.
DeleteRoom(o) ==
  /\ MayUpdate(o)
  /\ \/ /\ active[o] # None /\ owner[active[o]] = o
        /\ Delete(active[o])
        /\ Then(Bot, Clear(members[active[o]]))
     \/ /\ active[o] = None
        /\ Then(Bot, Clear({o}))
        /\ UNCHANGED ledger
  /\ UNCHANGED <<redis, crashes>>

\* Mutant: whoever left for a while is not called back.
SetRoomStatusForgetful(o, s) ==
  /\ MayUpdate(o) /\ InRoom(o)
  /\ active[o] # None /\ owner[active[o]] = o
  /\ SetOpen(active[o], s)
  /\ Then(Bot, IF s = "open" THEN {} ELSE {Do("suppress", u, None) : u \in members[active[o]] \ {o}})
  /\ UNCHANGED <<redis, crashes>>

\* _set_room_status
SetRoomStatus(o, s) ==
  /\ MayUpdate(o) /\ InRoom(o)
  /\ \/ /\ active[o] # None /\ owner[active[o]] = o
        /\ SetOpen(active[o], s)
        /\ Then(Bot, {Do(IF s = "open" THEN "unsuppress" ELSE "suppress", u, None) :
                        u \in members[active[o]] \ {o}})
     \/ /\ active[o] = None
        /\ Then(Bot, Clear({o}))
        /\ UNCHANGED ledger
  /\ UNCHANGED <<redis, crashes>>

\* exit_room_ui_button
Exit(u) ==
  /\ MayUpdate(u) /\ InRoom(u)
  /\ suppressed' = suppressed \cup {u} /\ away' = away \cup {u}
  /\ UNCHANGED <<ledger, mirror, todo, crashes>>

\* show_room_menu, and show_room_status_button
ShowRoom(u) ==
  /\ MayUpdate(u) /\ mirror[u] # None
  /\ Then(Bot, {Do("show", u, mirror[u])})
  /\ UNCHANGED <<ledger, redis, crashes>>

\* A message: relay_room_message with the room of the mirror.
Write(u) ==
  /\ MayUpdate(u) /\ InRoom(u)
  /\ Then(Bot, {Do("relay", u, mirror[u])})
  /\ UNCHANGED <<ledger, redis, crashes>>

\* relay_room_edit: an edited text, suppressed or not.
Edit(u) ==
  /\ MayUpdate(u) /\ mirror[u] # None
  /\ Then(Bot, {Do("edit", u, mirror[u])})
  /\ UNCHANGED <<ledger, redis, crashes>>

\* Mutant: only the owners are listed.
SyncOwners ==
  /\ Idle(Sync)
  /\ Then(Sync, {Do("sync", u, active[u]) : u \in {v \in Users : \E r \in Rooms : active[v] = r /\ owner[r] = v}})
  /\ UNCHANGED <<ledger, redis, crashes>>

\* _active_room_mirror_sync_job: list_users_with_active_room
SyncList ==
  /\ Idle(Sync)
  /\ Then(Sync, {Do("sync", u, active[u]) : u \in {v \in Users : active[v] # None}})
  /\ UNCHANGED <<ledger, redis, crashes>>

\* A verdict commits a ban; enforce_ban follows.
BanUser(u) ==
  /\ Idle(Worker) /\ u \in Suspects \ banned
  /\ Ban(u)
  /\ Then(Worker, {Do("expel", u, None)})
  /\ UNCHANGED <<redis, crashes>>

-----------------------------------------------------------------------------
(* The commands. *)

\* c is done, and what follows from it is to be done.
Done(t, c, more) == todo' = [todo EXCEPT ![t] = (@ \ {c}) \cup more]

\* Mutant: the arguments are exchanged.
SetMirrorExchanged(t, c) ==
  /\ c.op = "set"
  /\ mirror' = [mirror EXCEPT ![c.user] = c.user]
  /\ Done(t, c, {})
  /\ UNCHANGED <<ledger, suppressed, away>>

\* set_active_room
SetMirror(t, c) ==
  /\ c.op = "set"
  /\ mirror' = [mirror EXCEPT ![c.user] = c.room]
  /\ Done(t, c, {})
  /\ UNCHANGED <<ledger, suppressed, away>>

\* Mutant: the flag is left.
ClearMirrorOnly(t, c) ==
  /\ c.op = "clear"
  /\ mirror' = [mirror EXCEPT ![c.user] = None]
  /\ Done(t, c, {})
  /\ UNCHANGED <<ledger, suppressed, away>>

\* clear_active_room: the mirror, then the flag.
ClearMirror(t, c) ==
  /\ c.op = "clear"
  /\ mirror' = [mirror EXCEPT ![c.user] = None]
  /\ Done(t, c, {Do("unsuppress", c.user, None)})
  /\ UNCHANGED <<ledger, suppressed, away>>

Suppress(t, c) ==
  /\ c.op = "suppress"
  /\ suppressed' = suppressed \cup {c.user}
  /\ Done(t, c, {})
  /\ UNCHANGED <<ledger, mirror, away>>

Unsuppress(t, c) ==
  /\ c.op = "unsuppress"
  /\ suppressed' = suppressed \ {c.user} /\ away' = away \ {c.user}
  /\ Done(t, c, {})
  /\ UNCHANGED <<ledger, mirror>>

\* _show_active_room_status: the mirror is not trusted when the room is gone.
Show(t, c) ==
  /\ c.op = "show"
  /\ Done(t, c, {Do(IF Live(c.room) THEN "unsuppress" ELSE "clear", c.user, None)})
  /\ UNCHANGED <<ledger, redis>>

\* relay_room_message: the rows are asked whether the mirror is right.
Relay(t, c) ==
  /\ c.op = "relay"
  /\ Done(t, c, IF Live(c.room) /\ c.user \in members[c.room] THEN {} ELSE Clear({c.user}))
  /\ UNCHANGED <<ledger, redis>>

\* relay_room_edit asks only whether the room is gone: an edit by someone who
\* has been put out is relayed, and the mirror stays.
EditRelay(t, c) ==
  /\ c.op = "edit"
  /\ Done(t, c, IF Live(c.room) THEN {} ELSE Clear({c.user}))
  /\ UNCHANGED <<ledger, redis>>

\* The job looks at the key, and sets it if there is none.
SyncGet(t, c) ==
  /\ c.op = "sync"
  /\ Done(t, c, IF mirror[c.user] = None THEN {Do("set", c.user, c.room)} ELSE {})
  /\ UNCHANGED <<ledger, redis>>

\* remove_banned_user_from_room, then clear_active_room.
ExpelBanned(t, c) ==
  /\ c.op = "expel"
  /\ \/ /\ active[c.user] # None
        /\ Expel(c.user, active[c.user])
        /\ Done(t, c, Clear({c.user}))
     \/ /\ active[c.user] = None
        /\ Done(t, c, {})
        /\ UNCHANGED ledger
  /\ UNCHANGED redis

Command(t) ==
  /\ \E c \in todo[t] :
       \/ SetMirror(t, c) \/ ClearMirror(t, c) \/ Suppress(t, c) \/ Unsuppress(t, c)
       \/ Show(t, c) \/ Relay(t, c) \/ EditRelay(t, c)
       \/ SyncGet(t, c) \/ ExpelBanned(t, c)
  /\ UNCHANGED crashes

\* The bot or the worker is killed.
Crash(killed) ==
  /\ crashes < Crashes
  /\ crashes' = crashes + 1
  /\ todo' = [t \in Tasks |-> IF t \in killed THEN {} ELSE todo[t]]
  /\ UNCHANGED <<ledger, redis>>

-----------------------------------------------------------------------------

Update(u) ==
  \/ \E r \in Rooms, c \in Requests : CreateRoom(u, r, c)
  \/ \E v \in Users : Kick(u, v)
  \/ \E s \in {"open", "closed"} : SetRoomStatus(u, s)
  \/ LeaveRoom(u) \/ DeleteRoom(u) \/ Exit(u) \/ ShowRoom(u) \/ Write(u) \/ Edit(u)

MirrorNext ==
  \/ \E u \in Users : Update(u) \/ BanUser(u)
  \/ \E t \in {Bot, Sweep}, u \in Users, r \in Rooms : JoinRoom(t, u, r)
  \/ SyncList
  \/ \E t \in Tasks : Command(t)
  \/ Crash(BotTasks) \/ Crash({Worker})

MirrorSpec == MirrorInit /\ [][MirrorNext]_vars

\* Tasks go on and the job repeats.  The updates are handled in the order in
\* which they come, so a user who keeps sending is not passed over for ever;
\* that every user in a room keeps writing, and asking for the room, is what
\* the mirror's repair depends on, an assumption about the users.
FairSpec ==
  /\ MirrorSpec
  /\ \A t \in Tasks : WF_vars(Command(t))
  /\ WF_vars(SyncList)
  /\ \A u \in Faithful : SF_vars(Write(u)) /\ SF_vars(ShowRoom(u))

-----------------------------------------------------------------------------
(* Properties *)

TypeOK ==
  /\ LedgerTypeOK
  /\ mirror \in [Users -> Rooms \cup {None}]
  /\ suppressed \subseteq Users /\ away \subseteq suppressed
  /\ \A t \in Tasks : \A c \in todo[t] :
       c.user \in Users /\ c.room \in Rooms \cup {None}
  /\ crashes \in 0 .. Crashes

\* No flag is left behind by itself, without a room or a mirror that will be
\* cleared with it: whoever is free and joins a room is heard there.  Only a
\* kill between the two DELs of clear_active_room leaves one, or a ban while
\* it is being set.
NoOrphanFlag ==
  \A u \in suppressed :
    \/ mirror[u] # None \/ active[u] # None \/ u \in banned \/ crashes > 0
    \/ \E t \in Tasks : \E op \in {"clear", "unsuppress"} : Do(op, u, None) \in todo[t]

\* When a room is open and no handler is under way, only those of its members
\* are suppressed who left it for a while themselves (or are banned, whose
\* enforcement may be on its way).
OpenRoomIsHeard ==
  Idle(Bot) /\ crashes = 0 =>
    \A u \in suppressed : active[u] # None /\ status[active[u]] = "open" => u \in away \cup banned

\* The mirror of a user whose room no longer changes is right in the end and
\* stays right, whichever stale command of another task comes late and
\* wherever a crash has come.
MirrorSettles ==
  \A u \in Faithful :
    <>[][active'[u] = active[u]]_vars => <>(u \in banned) \/ <>[](mirror[u] = active[u])
=============================================================================

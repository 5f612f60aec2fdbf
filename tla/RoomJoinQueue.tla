--------------------------- MODULE RoomJoinQueue ---------------------------
(***************************************************************************)
(* The paid search for a room (handlers/chatroom/matching.py): the queue in *)
(* redis, its timeout jobs, the trigger that fills a room when a seat      *)
(* appears, and the sweep that does so every minute.                       *)
(*                                                                         *)
(* The operations of the rooms are the indivisible ones of RoomLedger,     *)
(* which ChatRooms shows the transactions to implement; only a join is two *)
(* steps here, because its conflict check reads redis before the COMMIT.   *)
(* Everything else is one redis command or coin transaction to a step, and *)
(* the tasks of the bot's event loop come between any two: Bot handles one *)
(* update at a time, Sweep is a repeating job, and every search that was   *)
(* queued has a timeout job.  The mirror of active_room_id is left out.    *)
(***************************************************************************)
EXTENDS RoomLedger, Integers, SequencesExt

CONSTANTS Bot, Sweep,   \* the dispatcher of updates, the repeating job
          Wishes,       \* the buckets of the queue: what a searcher asks for
          Prefs,        \* gender_pref of the rooms that are created
          Slots,        \* bound: timeout jobs of one user at a time
          Counted,      \* bound: searches of a user counted as paid or answered
          Crashes       \* bound: how often the bot's process is killed

VARIABLES pref,       \* room -> gender_pref
          waiting,    \* <<user, wish>>, oldest first: the sorted sets of the queue
          busy,       \* the users in a 1:1 chat or in its queue
          owed,       \* user -> searches paid for, less seats and refunds got
          pc, at,     \* task -> the step it takes next, what it has read
          crashes     \* how often the bot has been killed

vars == <<ledger, pref, waiting, busy, owed, pc, at, crashes>>

Timers == Users \X Slots
Tasks == {Bot, Sweep} \cup Timers

ASSUME TasksAssumption == Bot # Sweep /\ Bot \notin Timers /\ Sweep \notin Timers
ASSUME BoundsAssumption == Counted \in Nat /\ Crashes \in Nat

\* What join_chat_room returns: "room" stands for room_not_open and room_full,
\* "in_1to1" for in_queue too.
Errors == {"room", "has_active_room", "in_1to1"}

ASSUME ErrorsAssumption == None \notin Errors

\* error: what join_chat_room returned; todo: rooms the sweep has yet to visit.
NoCall == [user |-> None, room |-> None, wish |-> None, error |-> None, todo |-> {}]

RJInit ==
  /\ Init
  /\ pref = [r \in Rooms |-> None]
  /\ waiting = << >>
  /\ busy = {}
  /\ owed = [u \in Users |-> 0]
  /\ pc = [t \in Tasks |-> "idle"]
  /\ at = [t \in Tasks |-> NoCall]
  /\ crashes = 0

-----------------------------------------------------------------------------
\* is_waiting_room_join
Waiting(u) == \E w \in Wishes : Contains(waiting, <<u, w>>)

\* zrem, which does nothing when there is no such entry
Without(entry) ==
  IF Contains(waiting, entry)
  THEN RemoveAt(waiting, CHOOSE i \in 1 .. Len(waiting) : waiting[i] = entry)
  ELSE waiting

\* room_join_compatible_genders, and the same relation in find_open_room_for_join
Compatible(r, w) == w = pref[r] \/ w = "any" \/ pref[r] = "any"

HasSpace(r) == status[r] = "open" /\ Cardinality(members[r]) < capacity[r]

Step(t, from, to) ==
  /\ pc[t] = from
  /\ pc' = [pc EXCEPT ![t] = to]

GoOn(t, from, to) == Step(t, from, to) /\ UNCHANGED at

\* The search that t is about
Asked(t, u, w) == at' = [at EXCEPT ![t].user = u, ![t].wish = w]

Finish(t, from) ==
  /\ Step(t, from, "idle")
  /\ at' = [at EXCEPT ![t] = NoCall]

\* The join of t has been granted; the COMMIT comes next.
Committing(t) == pc[t] \in {"search:end", "fill:commit"} /\ at[t].error = None

\* Mutant: rows read without FOR UPDATE.
NoRowLocks(u, r) == TRUE

\* Other transactions wait for the row locks of a join that is about to commit.
RowsFree(u, r) ==
  \A t \in {Bot, Sweep} :
    Committing(t) => at[t].user # u /\ at[t].room # r

\* schedule_removal of the jobs named after the user, and the caller goes on;
\* a job that has already started does too.
CancelJobs(t, u, to, call) ==
  LET stopped == {x \in Timers : x[1] = u /\ pc[x] = "due"}
  IN /\ pc' = [x \in Tasks |-> IF x = t THEN to ELSE IF x \in stopped THEN "idle" ELSE pc[x]]
     /\ at' = [x \in Tasks |-> IF x = t THEN call ELSE IF x \in stopped THEN NoCall ELSE at[x]]

\* The coins of a user, as far as they matter here.  A search that the sweep
\* purges, or a fill passes over, is never answered.
Charge(u) == owed' = [owed EXCEPT ![u] = IF @ < Counted THEN @ + 1 ELSE @]
Settle(u) == owed' = [owed EXCEPT ![u] = IF @ > - Counted THEN @ - 1 ELSE @]

-----------------------------------------------------------------------------
(* join_chat_room: the checks under the row locks, then the COMMIT. *)

JoinError(u, r) ==
  IF status[r] # "open" THEN "room"
  ELSE IF active[u] # None THEN "has_active_room"
  ELSE IF u \in busy THEN "in_1to1"
  ELSE IF ~ HasSpace(r) THEN "room"
  ELSE None

JoinCheck(t, from, to) ==
  LET u == at[t].user
      r == at[t].room
  IN /\ Step(t, from, to)
     /\ RowsFree(u, r)
     /\ at' = [at EXCEPT ![t].error = JoinError(u, r)]
     /\ UNCHANGED <<ledger, pref, waiting, busy, owed, crashes>>

JoinCommit(t) ==
  /\ AddMember(at[t].user, at[t].room)
  /\ Settle(at[t].user)
  /\ UNCHANGED <<pref, waiting, busy, crashes>>

-----------------------------------------------------------------------------
(* A search: handle_join_gender_selected and try_join_room. *)

\* _check_can_start_room_flow.  What it reads stays true while the update
\* lasts: only an update puts a user in a queue or in a chat.
MayStartRoomFlow(u) == u \notin busy /\ ~ Waiting(u)

Search(u, w) ==
  /\ MayStartRoomFlow(u)
  /\ \E s \in Slots : pc[<<u, s>>] = "idle"
  /\ Step(Bot, "idle", "search:find")
  /\ Asked(Bot, u, w)
  /\ Charge(u)
  /\ UNCHANGED <<ledger, pref, waiting, busy, crashes>>

\* find_open_room_for_join; the age of a room is not modelled.
FindRoom ==
  LET found == {r \in Rooms : HasSpace(r) /\ Compatible(r, at[Bot].wish)}
  IN /\ \/ /\ found = {}
           /\ GoOn(Bot, "search:find", "search:enqueue")
        \/ \E r \in found :
             /\ Step(Bot, "search:find", "search:join")
             /\ at' = [at EXCEPT ![Bot].room = r]
     /\ UNCHANGED <<ledger, pref, waiting, busy, owed, crashes>>

\* A search that finds the room taken meanwhile goes to the queue.
SearchJoin ==
  /\ pc[Bot] = "search:join"
  /\ LET e == JoinError(at[Bot].user, at[Bot].room)
     IN JoinCheck(Bot, "search:join",
                  IF e \in {None, "in_1to1"} THEN "search:end" ELSE "search:enqueue")

\* The seat, or the coins back when the user is in a chat.
SearchEnd ==
  /\ Finish(Bot, "search:end")
  /\ IF Committing(Bot)
     THEN JoinCommit(Bot)
     ELSE Settle(at[Bot].user) /\ UNCHANGED <<ledger, pref, waiting, busy, crashes>>

\* enqueue_room_join
Enqueue ==
  /\ GoOn(Bot, "search:enqueue", "search:schedule")
  /\ waiting' = Append(Without(<<at[Bot].user, at[Bot].wish>>), <<at[Bot].user, at[Bot].wish>>)
  /\ UNCHANGED <<ledger, pref, busy, owed, crashes>>

\* run_once(_room_join_timeout_job): by now somebody may have been faster.
Schedule ==
  /\ pc[Bot] = "search:schedule"
  /\ \E s \in Slots :
       LET t == <<at[Bot].user, s>>
       IN /\ pc[t] = "idle"
          /\ pc' = [pc EXCEPT ![t] = "due", ![Bot] = "idle"]
          /\ at' = [at EXCEPT ![t] = [NoCall EXCEPT !.wish = at[Bot].wish], ![Bot] = NoCall]
  /\ UNCHANGED <<ledger, pref, waiting, busy, owed, crashes>>

-----------------------------------------------------------------------------
(* Giving up: the button and the timeout job. *)

Cancel(u, w) ==
  /\ Contains(waiting, <<u, w>>)
  /\ Step(Bot, "idle", "cancel:dequeue")
  /\ Asked(Bot, u, w)
  /\ UNCHANGED <<ledger, pref, waiting, busy, owed, crashes>>

\* dequeue_room_join; its result, whether there was an entry, is not asked.
CancelDequeue ==
  /\ GoOn(Bot, "cancel:dequeue", "cancel:refund")
  /\ waiting' = Without(<<at[Bot].user, at[Bot].wish>>)
  /\ UNCHANGED <<ledger, pref, busy, owed, crashes>>

CancelRefund ==
  LET u == at[Bot].user
  IN /\ pc[Bot] = "cancel:refund"
     /\ CancelJobs(Bot, u, "idle", NoCall)
     /\ Settle(u)
     /\ UNCHANGED <<ledger, pref, waiting, busy, crashes>>

\* _room_join_timeout_job asks whether the user waits, then takes out the
\* wish it was scheduled with.
TimeoutFires(t) ==
  /\ \/ Waiting(t[1]) /\ GoOn(t, "due", "timeout:dequeue")
     \/ ~ Waiting(t[1]) /\ Finish(t, "due")
  /\ UNCHANGED <<ledger, pref, waiting, busy, owed, crashes>>

TimeoutDequeue(t) ==
  /\ GoOn(t, "timeout:dequeue", "timeout:refund")
  /\ waiting' = Without(<<t[1], at[t].wish>>)
  /\ UNCHANGED <<ledger, pref, busy, owed, crashes>>

TimeoutRefund(t) ==
  /\ Finish(t, "timeout:refund")
  /\ Settle(t[1])
  /\ UNCHANGED <<ledger, pref, waiting, busy, crashes>>

-----------------------------------------------------------------------------
(* Commands of room members; those that make a seat free trigger a fill. *)

\* _handle_capacity_selected
CreateRoom(u, r, c, p) ==
  /\ MayStartRoomFlow(u)
  /\ RowsFree(u, r)
  /\ Create(u, r, c)
  /\ pref' = [pref EXCEPT ![r] = p]
  /\ Step(Bot, "idle", "fill:peek")
  /\ at' = [at EXCEPT ![Bot].room = r]
  /\ UNCHANGED <<waiting, busy, owed, crashes>>

\* leave_room_button of a member, or the owner's kick.  A room left with
\* its owner alone is deleted; in any other the seat is filled.
MemberGoes(u) ==
  LET r == active[u]
  IN /\ pc[Bot] = "idle"
     /\ r # None
     /\ RowsFree(u, r)
     /\ Depart(u, r)
     /\ IF Cardinality(members[r] \ {u}) <= 1
        THEN UNCHANGED <<pc, at>>
        ELSE /\ pc' = [pc EXCEPT ![Bot] = "fill:peek"]
             /\ at' = [at EXCEPT ![Bot].room = r]
     /\ UNCHANGED <<pref, waiting, busy, owed, crashes>>

\* delete_room_confirm_callback
DeleteRoom(r) ==
  /\ pc[Bot] = "idle"
  /\ Live(r)
  /\ \A v \in members[r] \cup {owner[r]} : RowsFree(v, r)
  /\ Delete(r)
  /\ UNCHANGED <<pref, waiting, busy, owed, pc, at, crashes>>

\* _set_room_status; a room that is opened again is left to the sweep.
SetRoomStatus(r, s) ==
  /\ pc[Bot] = "idle"
  /\ RowsFree(owner[r], r)
  /\ status[r] # s
  /\ SetOpen(r, s)
  /\ UNCHANGED <<pref, waiting, busy, owed, pc, at, crashes>>

-----------------------------------------------------------------------------
(* try_fill_room_from_queue, called by a trigger and by the sweep. *)

FillEnds(t, from) ==
  /\ Step(t, from, IF t = Bot THEN "idle" ELSE "sweep:next")
  /\ at' = [at EXCEPT ![t] = [NoCall EXCEPT !.todo = at[t].todo]]

\* get_chat_room, peek_oldest_room_join_candidate
FillPeek(t) ==
  LET r == at[t].room
      fitting == {i \in DOMAIN waiting : status[r] = "open" /\ Compatible(r, waiting[i][2])}
  IN /\ pc[t] = "fill:peek"
     /\ \/ fitting = {} /\ FillEnds(t, "fill:peek")
        \/ \E i \in fitting :
             /\ \A j \in fitting : i <= j
             /\ Step(t, "fill:peek", "fill:join")
             /\ Asked(t, waiting[i][1], waiting[i][2])
     /\ UNCHANGED <<ledger, pref, waiting, busy, owed, crashes>>

\* A fault of the room's ends the fill and leaves the candidate in the queue.
FillJoin(t) ==
  /\ pc[t] = "fill:join"
  /\ LET e == JoinError(at[t].user, at[t].room)
     IN \/ /\ e # "room"
           /\ JoinCheck(t, "fill:join", IF e = None THEN "fill:commit" ELSE "fill:dequeue")
        \/ /\ e = "room"
           /\ RowsFree(at[t].user, at[t].room)
           /\ FillEnds(t, "fill:join")
           /\ UNCHANGED <<ledger, pref, waiting, busy, owed, crashes>>

FillCommit(t) == GoOn(t, "fill:commit", "fill:dequeue") /\ JoinCommit(t)

FillDequeue(t) ==
  /\ GoOn(t, "fill:dequeue", "fill:settle")
  /\ waiting' = Without(<<at[t].user, at[t].wish>>)
  /\ UNCHANGED <<ledger, pref, busy, owed, crashes>>

\* The job is cancelled; a conflict is paid back, and a candidate who already
\* has a room is passed over.
FillSettle(t) ==
  LET u == at[t].user
  IN /\ pc[t] = "fill:settle"
     /\ CancelJobs(t, u, "fill:peek", [NoCall EXCEPT !.room = at[t].room, !.todo = at[t].todo])
     /\ IF at[t].error = "in_1to1" THEN Settle(u) ELSE UNCHANGED owed
     /\ UNCHANGED <<ledger, pref, waiting, busy, crashes>>

-----------------------------------------------------------------------------
(* sweep_room_join_queue *)

\* Mutant: the sweep does not purge.
PurgeNothing(n) ==
  /\ GoOn(Sweep, "idle", "sweep:list")
  /\ UNCHANGED <<ledger, pref, waiting, busy, owed, crashes>>

\* purge_stale_room_join_queue: the n oldest entries may be stale by now.
PurgeStale(n) ==
  /\ GoOn(Sweep, "idle", "sweep:list")
  /\ waiting' = SubSeq(waiting, n + 1, Len(waiting))
  /\ UNCHANGED <<ledger, pref, busy, owed, crashes>>

\* list_open_room_ids_with_spare_capacity
SweepList ==
  /\ Step(Sweep, "sweep:list", "sweep:next")
  /\ at' = [at EXCEPT ![Sweep].todo = {r \in Rooms : HasSpace(r)}]
  /\ UNCHANGED <<ledger, pref, waiting, busy, owed, crashes>>

SweepNext ==
  /\ \/ at[Sweep].todo = {} /\ Finish(Sweep, "sweep:next")
     \/ \E r \in at[Sweep].todo :
          /\ Step(Sweep, "sweep:next", "fill:peek")
          /\ at' = [at EXCEPT ![Sweep].room = r, ![Sweep].todo = @ \ {r}]
  /\ UNCHANGED <<ledger, pref, waiting, busy, owed, crashes>>

-----------------------------------------------------------------------------
(* The other ways of the bot. *)

\* An entry to the 1:1 chat or its queue asks check_room_conflict: first
\* users.active_room_id in Postgres, then the room join queue in redis.
BeginChat(u) ==
  /\ u \notin busy
  /\ active[u] = None
  /\ Step(Bot, "idle", "chat:queue")
  /\ at' = [at EXCEPT ![Bot].user = u]
  /\ UNCHANGED <<ledger, pref, waiting, busy, owed, crashes>>

\* Mutant: only the active room is asked for.
AskNothing ==
  /\ GoOn(Bot, "chat:queue", "chat:enter")
  /\ UNCHANGED <<ledger, pref, waiting, busy, owed, crashes>>

AskQueue ==
  /\ \/ Waiting(at[Bot].user) /\ Finish(Bot, "chat:queue")
     \/ ~ Waiting(at[Bot].user) /\ GoOn(Bot, "chat:queue", "chat:enter")
  /\ UNCHANGED <<ledger, pref, waiting, busy, owed, crashes>>

EnterChat ==
  /\ Finish(Bot, "chat:enter")
  /\ busy' = busy \cup {at[Bot].user}
  /\ UNCHANGED <<ledger, pref, waiting, owed, crashes>>

\* A timeout, a partner's stop or a verdict ends it at any moment.
LeaveChat(u) ==
  /\ u \in busy
  /\ busy' = busy \ {u}
  /\ UNCHANGED <<ledger, pref, waiting, owed, pc, at, crashes>>

\* The process is killed: handlers and jobs are gone, redis and Postgres stay.
Crash ==
  /\ crashes < Crashes
  /\ crashes' = crashes + 1
  /\ pc' = [t \in Tasks |-> "idle"]
  /\ at' = [t \in Tasks |-> NoCall]
  /\ UNCHANGED <<ledger, pref, waiting, busy, owed>>

-----------------------------------------------------------------------------
\* What an update may start ...
Update ==
  \/ \E u \in Users, w \in Wishes : Search(u, w) \/ Cancel(u, w)
  \/ \E u \in Users, r \in Rooms, c \in Requests, p \in Prefs : CreateRoom(u, r, c, p)
  \/ \E u \in Users : MemberGoes(u) \/ BeginChat(u)
  \/ \E r \in Rooms : DeleteRoom(r) \/ SetRoomStatus(r, "open") \/ SetRoomStatus(r, "closed")

Fill(t) == FillPeek(t) \/ FillJoin(t) \/ FillCommit(t) \/ FillDequeue(t) \/ FillSettle(t)

\* ... and how it goes on.
Continue ==
  \/ FindRoom \/ SearchJoin \/ SearchEnd \/ Enqueue \/ Schedule
  \/ CancelDequeue \/ CancelRefund
  \/ Fill(Bot)
  \/ AskQueue \/ EnterChat

Timeout(t) == TimeoutFires(t) \/ TimeoutDequeue(t) \/ TimeoutRefund(t)

Sweeping ==
  \/ \E n \in 0 .. Len(waiting) : PurgeStale(n)
  \/ SweepList \/ SweepNext \/ Fill(Sweep)

RJNext ==
  \/ Update \/ Continue
  \/ \E t \in Timers : Timeout(t)
  \/ Sweeping
  \/ \E u \in Users : LeaveChat(u)
  \/ Crash

RJSpec == RJInit /\ [][RJNext]_vars

\* An await returns, the scheduler fires what is due, the sweep repeats, and
\* since the score of an entry never changes, some sweep finds it stale.
FairSpec ==
  /\ RJSpec
  /\ WF_vars(Continue) /\ WF_vars(Sweeping)
  /\ \A t \in Timers : WF_vars(Timeout(t))
  /\ \A u \in Users : SF_vars(\E n \in 1 .. Len(waiting) : waiting[n][1] = u /\ PurgeStale(n))

-----------------------------------------------------------------------------
(* Properties. *)

\* The steps a task may take next, and what it may have read by then.
Labels ==
  {"idle", "search:find", "search:join", "search:end", "search:enqueue", "search:schedule",
   "cancel:dequeue", "cancel:refund", "due", "timeout:dequeue", "timeout:refund",
   "fill:peek", "fill:join", "fill:commit", "fill:dequeue", "fill:settle",
   "sweep:list", "sweep:next", "chat:queue", "chat:enter"}

Calls ==
  [user : Users \cup {None}, room : Rooms \cup {None}, wish : Wishes \cup {None},
   error : Errors \cup {None}, todo : SUBSET Rooms]

TypeOK ==
  /\ LedgerTypeOK
  /\ pref \in [Rooms -> Prefs \cup {None}]
  /\ waiting \in Seq(Users \X Wishes)
  /\ busy \in SUBSET Users
  /\ owed \in [Users -> - Counted .. Counted]
  /\ pc \in [Tasks -> Labels]
  /\ at \in [Tasks -> Calls]
  /\ crashes \in 0 .. Crashes

\* The rooms never notice: whatever the search, its jobs, the trigger and the
\* sweep do between their awaits, each of their steps is one operation of the
\* ledger or none, so no seat is given twice or to someone who has a room.
ImplementsLedger == Spec

\* Who waits for a room is in no 1:1 chat and in no queue for one: the entries
\* to the chat ask for the queue, the entries to the queue for the chat.
WaitersAreFree == \A u \in Users : Waiting(u) => u \notin busy

\* The docstrings of the cancel button and of the timeout job say that who
\* is no longer in the queue is left alone: nobody gets both the seat and the
\* refund, or two refunds.
RefundedOnce == \A u \in Users : owed[u] >= 0

\* A user in a room is in no 1:1 chat and in no queue for one: the conflict
\* check inside the transaction is to close the race with the chat's own check
\* (creation.py:266-269).
Exclusive == \A u \in Users : active[u] # None => u \notin busy

\* Nobody waits for a room for ever, whatever a restart loses.
EveryRoomWaitEnds == \A u \in Users : Waiting(u) ~> ~ Waiting(u)
=============================================================================

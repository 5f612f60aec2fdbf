------------------------ MODULE RoomJoinQueueProofs ------------------------
(***************************************************************************)
(* For any users, rooms, wishes and bounds: the steps of the room search   *)
(* are operations of the ledger, and nobody waits for a room while in a    *)
(* 1:1 chat.                                                               *)
(*                                                                         *)
(* RJInv strengthens both.  Granted says that what a join has checked      *)
(* under its row locks still holds at its COMMIT, and OneGrant that two    *)
(* joins about to commit share no row: they need each other, and           *)
(* MembersActive keeps a user who is granted a seat out of every room.     *)
(* SearcherFree and EntrantNotWaiting are the two halves of the argument   *)
(* for WaitersAreFree: only the dispatcher enters a queue or a chat, so    *)
(* what it has asked before holds when it acts.                            *)
(***************************************************************************)
EXTENDS RoomJoinQueue, RoomLedgerProofs, SequenceTheorems

\* What a task has in hand at a step.
Carry(l, c) ==
  /\ l \in {"search:find", "search:join", "search:end", "search:enqueue", "search:schedule",
            "cancel:dequeue", "cancel:refund", "fill:join", "fill:commit", "fill:dequeue",
            "fill:settle", "chat:queue", "chat:enter"}
       => c.user \in Users
  /\ l \in {"search:find", "search:join", "search:end", "search:enqueue", "search:schedule"}
       => c.wish \in Wishes
  /\ l \in {"search:join", "search:end", "fill:peek", "fill:join", "fill:commit",
            "fill:dequeue", "fill:settle"}
       => c.room \in Rooms
  /\ l = "fill:commit" => c.error = None

TasksOK ==
  /\ pc \in [Tasks -> Labels]
  /\ at \in [Tasks -> Calls]
  /\ \A t \in Tasks : Carry(pc[t], at[t])

DataOK ==
  /\ pref \in [Rooms -> Prefs \cup {None}]
  /\ waiting \in Seq(Users \X Wishes)
  /\ busy \in SUBSET Users
  /\ owed \in [Users -> - Counted .. Counted]
  /\ crashes \in 0 .. Crashes

\* A member row is never left behind.
MembersActive == \A r \in Rooms : \A u \in members[r] : active[u] = r

Granted ==
  \A t \in {Bot, Sweep} :
    Committing(t) => HasSpace(at[t].room) /\ active[at[t].user] = None

OneGrant ==
  Committing(Bot) /\ Committing(Sweep)
    => at[Bot].user # at[Sweep].user /\ at[Bot].room # at[Sweep].room

Grants == MembersActive /\ Granted /\ OneGrant

Searching == {"search:find", "search:join", "search:end", "search:enqueue"}

SearcherFree == pc[Bot] \in Searching => at[Bot].user \notin busy

EntrantNotWaiting == pc[Bot] = "chat:enter" => ~ Waiting(at[Bot].user)

Free == WaitersAreFree /\ SearcherFree /\ EntrantNotWaiting

RJInv == LedgerInv /\ DataOK /\ TasksOK /\ Grants /\ Free

-----------------------------------------------------------------------------
(* The queue. *)

\* What is left of the queue without its n oldest entries.
LEMMA Suffix ==
  ASSUME NEW S, waiting \in Seq(S), NEW n \in 0 .. Len(waiting)
  PROVE  /\ SubSeq(waiting, n + 1, Len(waiting)) \in Seq(S)
         /\ Len(SubSeq(waiting, n + 1, Len(waiting))) = Len(waiting) - n
         /\ \A i \in 1 .. Len(waiting) - n :
              SubSeq(waiting, n + 1, Len(waiting))[i] = waiting[n + i]
  <1>1. Len(waiting) \in Nat /\ n \in Nat /\ \A i \in 1 .. Len(waiting) : waiting[i] \in S
    BY LenProperties
  <1>2. \A i \in n + 1 .. Len(waiting) : waiting[i] \in S
    BY <1>1
  <1> QED
    BY <1>1, <1>2, SubSeqProperties

\* zrem takes out at most the entry, and leaves a queue.
LEMMA WithoutShrinks ==
  ASSUME NEW S, waiting \in Seq(S), NEW entry
  PROVE  /\ Without(entry) \in Seq(S)
         /\ \A e : Contains(Without(entry), e) => Contains(waiting, e)
  <1>1. CASE ~ Contains(waiting, entry)
    BY <1>1 DEF Without
  <1>2. CASE Contains(waiting, entry)
    <2> DEFINE k == CHOOSE i \in 1 .. Len(waiting) : waiting[i] = entry
               left == SubSeq(waiting, 1, k - 1)
               right == SubSeq(waiting, k + 1, Len(waiting))
    <2>1. k \in 1 .. Len(waiting) /\ Len(waiting) \in Nat
      BY <1>2, LenProperties DEF Contains
    <2>2. \A i \in 1 .. Len(waiting) : waiting[i] \in S
      BY LenProperties
    <2> HIDE DEF k
    <2>3. /\ left \in Seq(S)
          /\ Len(left) = k - 1
          /\ \A i \in 1 .. k - 1 : left[i] = waiting[i]
      <3>1. \A i \in 1 .. k - 1 : waiting[i] \in S
        BY <2>1, <2>2
      <3> QED
        BY <2>1, <3>1, SubSeqProperties
    <2>4. /\ right \in Seq(S)
          /\ Len(right) = Len(waiting) - k
          /\ \A i \in 1 .. Len(waiting) - k : right[i] = waiting[k + i]
      BY <2>1, Suffix
    <2> HIDE DEF left, right
    <2>5. /\ left \o right \in Seq(S)
          /\ Len(left \o right) = Len(waiting) - 1
          /\ \A i \in 1 .. Len(waiting) - 1 :
               (left \o right)[i] = IF i <= k - 1 THEN left[i] ELSE right[i - (k - 1)]
      <3>1. /\ left \o right \in Seq(S)
            /\ Len(left \o right) = Len(left) + Len(right)
            /\ \A i \in 1 .. Len(left) + Len(right) :
                 (left \o right)[i] = IF i <= Len(left) THEN left[i] ELSE right[i - Len(left)]
        BY <2>3, <2>4, ConcatProperties
      <3>2. Len(left) + Len(right) = Len(waiting) - 1
        BY <2>1, <2>3, <2>4
      <3> QED
        BY <2>3, <3>1, <3>2
    <2>6. Without(entry) = left \o right
      BY <1>2 DEF Without, RemoveAt, k, left, right
    <2>7. ASSUME NEW i \in 1 .. Len(waiting) - 1
          PROVE  \E j \in 1 .. Len(waiting) : waiting[j] = (left \o right)[i]
      <3>1. CASE i <= k - 1
        BY <2>1, <2>3, <2>5, <3>1
      <3>2. CASE ~ (i <= k - 1)
        <4>1. /\ i + 1 \in 1 .. Len(waiting)
              /\ i - (k - 1) \in 1 .. Len(waiting) - k
              /\ k + (i - (k - 1)) = i + 1
          BY <2>1, <3>2
        <4> QED
          BY <2>4, <2>5, <3>2, <4>1
      <3> QED
        BY <3>1, <3>2
    <2> QED
      BY <2>5, <2>6, <2>7 DEF Contains
  <1> QED
    BY <1>1, <1>2

\* A purge drops a prefix.
LEMMA PurgeShrinks ==
  ASSUME NEW S, waiting \in Seq(S), NEW n \in 0 .. Len(waiting)
  PROVE  /\ SubSeq(waiting, n + 1, Len(waiting)) \in Seq(S)
         /\ \A e : Contains(SubSeq(waiting, n + 1, Len(waiting)), e) => Contains(waiting, e)
  <1>1. Len(waiting) \in Nat /\ n \in Nat
    BY LenProperties
  <1>2. \A i \in 1 .. Len(waiting) - n : n + i \in 1 .. Len(waiting)
    BY <1>1
  <1> QED
    BY <1>2, Suffix DEF Contains

\* zadd adds its entry and no other.
LEMMA EnqueueAdds ==
  ASSUME NEW S, waiting \in Seq(S), NEW entry \in S
  PROVE  /\ Append(Without(entry), entry) \in Seq(S)
         /\ \A e : Contains(Append(Without(entry), entry), e)
                     => e = entry \/ Contains(waiting, e)
  <1> DEFINE rest == Without(entry)
  <1>1. rest \in Seq(S) /\ \A e : Contains(rest, e) => Contains(waiting, e)
    BY WithoutShrinks
  <1> HIDE DEF rest
  <1>2. /\ Append(rest, entry) \in Seq(S)
        /\ Len(Append(rest, entry)) = Len(rest) + 1
        /\ \A i \in 1 .. Len(rest) : Append(rest, entry)[i] = rest[i]
        /\ Append(rest, entry)[Len(rest) + 1] = entry
    BY <1>1, AppendProperties
  <1>3. Len(rest) \in Nat
    BY <1>1, LenProperties
  <1>4. \A e : Contains(Append(rest, entry), e) => e = entry \/ Contains(rest, e)
    <2> SUFFICES ASSUME NEW i \in 1 .. Len(rest) + 1
                 PROVE  \/ Append(rest, entry)[i] = entry
                        \/ \E j \in 1 .. Len(rest) : rest[j] = Append(rest, entry)[i]
      BY <1>2 DEF Contains
    <2>1. CASE i = Len(rest) + 1
      BY <1>2, <2>1
    <2>2. CASE i \in 1 .. Len(rest)
      BY <1>2, <2>2
    <2> QED
      BY <1>3, <2>1, <2>2
  <1> QED
    BY <1>1, <1>2, <1>4 DEF rest

-----------------------------------------------------------------------------
(* Types. *)

\* An entry of the queue is a user and what the user asked for.
LEMMA Entries ==
  ASSUME DataOK, NEW i \in DOMAIN waiting
  PROVE  waiting[i][1] \in Users /\ waiting[i][2] \in Wishes
  BY LenProperties DEF DataOK

\* The three kinds of tasks are tasks, and no timer is the bot or the sweep.
LEMMA TaskTypes ==
  /\ Bot \in Tasks /\ Sweep \in Tasks
  /\ \A u \in Users, s \in Slots : <<u, s>> \in Tasks
  /\ \A t \in Timers : t \in Tasks /\ t # Bot /\ t # Sweep /\ t[1] \in Users
  BY TasksAssumption DEF Tasks, Timers

\* The coins stay between the bounds.
LEMMA CoinTypes ==
  ASSUME DataOK, NEW u \in Users
  PROVE  /\ Charge(u) => owed' \in [Users -> - Counted .. Counted]
         /\ Settle(u) => owed' \in [Users -> - Counted .. Counted]
  <1> DEFINE Coins == - Counted .. Counted
  <1>1. owed \in [Users -> Coins]
    BY DEF DataOK
  <1>2. /\ (IF owed[u] < Counted THEN owed[u] + 1 ELSE owed[u]) \in Coins
        /\ (IF owed[u] > - Counted THEN owed[u] - 1 ELSE owed[u]) \in Coins
    <2>1. owed[u] \in Int /\ - Counted <= owed[u] /\ owed[u] <= Counted
      BY <1>1, BoundsAssumption
    <2> QED
      BY <2>1, BoundsAssumption
  <1> HIDE DEF Coins
  <1>3. /\ Charge(u) => owed' \in [Users -> Coins]
        /\ Settle(u) => owed' \in [Users -> Coins]
    BY <1>1, <1>2 DEF Charge, Settle
  <1> QED
    BY <1>3 DEF Coins

-----------------------------------------------------------------------------
(* Steps that touch neither the rooms nor what the two arguments rest on. *)

\* What every action has to establish.
Kept == [Next]_ledger /\ DataOK' /\ TasksOK' /\ Grants' /\ Free'

\* No join is granted, nobody enters the queue or a chat.
Quiet ==
  /\ UNCHANGED ledger
  /\ \A t \in {Bot, Sweep} : Committing(t)' => Committing(t) /\ at'[t] = at[t]
  /\ \A u \in Users : Waiting(u)' => Waiting(u)
  /\ busy' \subseteq busy
  /\ pc'[Bot] \in Searching => pc[Bot] \in Searching /\ at'[Bot].user = at[Bot].user
  /\ pc'[Bot] = "chat:enter" => pc[Bot] = "chat:enter" /\ at'[Bot].user = at[Bot].user

\* A quiet step keeps the invariant: only the types are left to show.
LEMMA QuietKeeps ==
  ASSUME RJInv, DataOK', TasksOK', Quiet
  PROVE  Kept
  <1>1. MembersActive'
    BY DEF RJInv, Grants, MembersActive, Quiet, ledger
  <1>2. Granted'
    BY DEF RJInv, Grants, Granted, Quiet, ledger, HasSpace
  <1>3. OneGrant'
    BY DEF RJInv, Grants, OneGrant, Quiet
  <1>4. WaitersAreFree' /\ SearcherFree'
    BY DEF RJInv, Free, WaitersAreFree, SearcherFree, Quiet
  <1>5. EntrantNotWaiting'
    <2> SUFFICES ASSUME pc'[Bot] = "chat:enter",
                        NEW w \in Wishes, Contains(waiting', <<at'[Bot].user, w>>)
                 PROVE  FALSE
      BY DEF EntrantNotWaiting, Waiting
    <2>1. pc[Bot] = "chat:enter" /\ at'[Bot].user = at[Bot].user
      BY DEF Quiet
    <2>2. at[Bot].user \in Users
      BY <2>1, TaskTypes DEF RJInv, TasksOK, Carry
    <2>3. Waiting(at[Bot].user)
      BY <2>1, <2>2 DEF Quiet, Waiting
    <2> QED
      BY <2>1, <2>3 DEF RJInv, Free, EntrantNotWaiting
  <1> QED
    BY <1>1, <1>2, <1>3, <1>4, <1>5 DEF Kept, Grants, Free, Quiet

\* One task moves on.
Move(t, l, c) == pc' = [pc EXCEPT ![t] = l] /\ at' = [at EXCEPT ![t] = c]

\* A task that moves on with what its next step needs keeps the tasks in order.
LEMMA MoveTasks ==
  ASSUME TasksOK, NEW t \in Tasks, NEW l \in Labels, NEW c \in Calls, Carry(l, c), Move(t, l, c)
  PROVE  TasksOK'
  BY DEF TasksOK, Move

\* One task moves on to a step that is neither a COMMIT nor an entry to a chat.
LEMMA QuietMove ==
  ASSUME RJInv, DataOK', NEW t \in Tasks, NEW l \in Labels, NEW c \in Calls, Carry(l, c),
         Move(t, l, c), UNCHANGED ledger,
         l \notin {"search:end", "fill:commit", "chat:enter"},
         l \in Searching => pc[t] \in Searching /\ c.user = at[t].user,
         \A u \in Users : Waiting(u)' => Waiting(u),
         busy' \subseteq busy
  PROVE  Kept
  <1>1. TasksOK'
    BY MoveTasks DEF RJInv
  <1>2. Quiet
    BY TaskTypes DEF RJInv, TasksOK, Quiet, Move, Committing
  <1> QED
    BY <1>1, <1>2, QuietKeeps

\* What is in hand before and after, for the two common moves.
LEMMA CommonMoves ==
  ASSUME TasksOK, NEW t \in Tasks, NEW from, NEW to
  PROVE  /\ at[t] \in Calls /\ NoCall \in Calls
         /\ Carry(pc[t], at[t]) /\ Carry("idle", NoCall)
         /\ GoOn(t, from, to) => pc[t] = from /\ Move(t, to, at[t])
         /\ Finish(t, from) => pc[t] = from /\ Move(t, "idle", NoCall)
  BY DEF TasksOK, NoCall, Calls, Carry, GoOn, Finish, Step, Move

\* A task that goes on with the search of a user.
LEMMA AskedMove ==
  ASSUME TasksOK, NEW t \in Tasks, NEW u \in Users, NEW w \in Wishes, NEW from, NEW to,
         Step(t, from, to), Asked(t, u, w)
  PROVE  \E c \in Calls :
           c.user = u /\ c.wish = w /\ c.room = at[t].room /\ Move(t, to, c)
  <1> DEFINE b == [at[t] EXCEPT !.user = u]
             c == [b EXCEPT !.wish = w]
             f == [at EXCEPT ![t].user = u]
  <1>1. at \in [Tasks -> Calls] /\ at[t] \in Calls
    BY DEF TasksOK
  <1>2. b \in Calls /\ b.user = u /\ b.room = at[t].room /\ f = [at EXCEPT ![t] = b]
        /\ f \in [Tasks -> Calls] /\ f[t] = b
    BY <1>1 DEF Calls
  <1> HIDE DEF b, f
  <1>3. c \in Calls /\ c.user = u /\ c.wish = w /\ c.room = at[t].room
    BY <1>2 DEF Calls
  <1>4. [f EXCEPT ![t].wish = w] = [at EXCEPT ![t] = c]
    BY <1>1, <1>2
  <1> QED
    BY <1>3, <1>4 DEF b, f, Step, Asked, Move

\* The rest of the state keeps its types: when it is left alone, when a
\* search is settled, and when an entry is taken out.
LEMMA DataSame ==
  ASSUME DataOK, UNCHANGED <<pref, waiting, busy, owed, crashes>>
  PROVE  DataOK' /\ (\A u \in Users : Waiting(u)' => Waiting(u)) /\ busy' \subseteq busy
  BY DEF DataOK, Waiting

\* The same when a search is settled.
LEMMA DataSettled ==
  ASSUME DataOK, NEW u \in Users, Settle(u), UNCHANGED <<pref, waiting, busy, crashes>>
  PROVE  DataOK' /\ (\A v \in Users : Waiting(v)' => Waiting(v)) /\ busy' \subseteq busy
  BY CoinTypes DEF DataOK, Waiting

\* The same when an entry is taken out of the queue.
LEMMA DataWithout ==
  ASSUME DataOK, NEW e, waiting' = Without(e), UNCHANGED <<pref, busy, owed, crashes>>
  PROVE  DataOK' /\ (\A u \in Users : Waiting(u)' => Waiting(u)) /\ busy' \subseteq busy
  BY WithoutShrinks DEF DataOK, Waiting

-----------------------------------------------------------------------------
(* The quiet actions of a search, its cancelling and its job. *)

\* Choosing a room changes nothing but what is in hand.
LEMMA FindRoomKeeps == ASSUME RJInv, FindRoom PROVE Kept
  <1> USE TaskTypes, CommonMoves DEF RJInv
  <1>1. UNCHANGED ledger /\ UNCHANGED <<pref, waiting, busy, owed, crashes>>
    BY DEF FindRoom
  <1>2. pc[Bot] = "search:find"
    BY DEF FindRoom, GoOn, Step
  <1>3. DataOK' /\ (\A u \in Users : Waiting(u)' => Waiting(u)) /\ busy' \subseteq busy
    BY <1>1, DataSame
  <1>4. CASE GoOn(Bot, "search:find", "search:enqueue")
    <2>1. Carry("search:enqueue", at[Bot]) /\ "search:enqueue" \in Labels
      BY <1>2 DEF Carry, Labels
    <2> QED
      BY <1>1, <1>2, <1>3, <1>4, <2>1, QuietMove DEF Searching
  <1>5. ASSUME NEW r \in Rooms, Step(Bot, "search:find", "search:join"),
               at' = [at EXCEPT ![Bot].room = r]
        PROVE  Kept
    <2> DEFINE c == [at[Bot] EXCEPT !.room = r]
    <2>1. Carry("search:join", c) /\ "search:join" \in Labels /\ c \in Calls
          /\ c.user = at[Bot].user
      BY <1>2 DEF Carry, Labels, Calls
    <2>2. Move(Bot, "search:join", c)
      BY <1>5 DEF Move, Step
    <2> HIDE DEF c
    <2> QED
      BY <1>1, <1>2, <1>3, <2>1, <2>2, QuietMove DEF Searching
  <1> QED
    BY <1>4, <1>5 DEF FindRoom

\* The cancel button only reads.
LEMMA CancelKeeps ==
  ASSUME RJInv, NEW u \in Users, NEW w \in Wishes, Cancel(u, w)
  PROVE  Kept
  <1> USE TaskTypes, CommonMoves DEF RJInv
  <1>1. UNCHANGED ledger /\ UNCHANGED <<pref, waiting, busy, owed, crashes>>
    BY DEF Cancel
  <1>2. DataOK' /\ (\A v \in Users : Waiting(v)' => Waiting(v)) /\ busy' \subseteq busy
    BY <1>1, DataSame
  <1>3. PICK c \in Calls : c.user = u /\ c.wish = w /\ Move(Bot, "cancel:dequeue", c)
    BY AskedMove DEF Cancel
  <1>4. Carry("cancel:dequeue", c) /\ "cancel:dequeue" \in Labels
    BY <1>3 DEF Carry, Labels
  <1> QED
    BY <1>1, <1>2, <1>3, <1>4, QuietMove DEF Searching

\* Taking the entry out makes nobody wait who did not.
LEMMA CancelDequeueKeeps == ASSUME RJInv, CancelDequeue PROVE Kept
  <1> USE TaskTypes, CommonMoves DEF RJInv
  <1>1. /\ UNCHANGED ledger
        /\ GoOn(Bot, "cancel:dequeue", "cancel:refund")
        /\ DataOK' /\ (\A v \in Users : Waiting(v)' => Waiting(v)) /\ busy' \subseteq busy
    BY DataWithout DEF CancelDequeue
  <1>2. Carry("cancel:refund", at[Bot]) /\ "cancel:refund" \in Labels
    BY <1>1 DEF Carry, Labels
  <1> QED
    BY <1>1, <1>2, QuietMove DEF Searching

\* A timeout job takes an entry out and pays back.
LEMMA TimeoutKeeps ==
  ASSUME RJInv, NEW t \in Timers, Timeout(t)
  PROVE  Kept
  <1> USE TaskTypes, CommonMoves DEF RJInv
  <1>1. CASE TimeoutFires(t)
    <2>1. /\ UNCHANGED ledger
          /\ DataOK' /\ (\A v \in Users : Waiting(v)' => Waiting(v)) /\ busy' \subseteq busy
      BY <1>1, DataSame DEF TimeoutFires
    <2>2. Carry("timeout:dequeue", at[t]) /\ "timeout:dequeue" \in Labels /\ "idle" \in Labels
      BY DEF Carry, Labels
    <2> QED
      BY <1>1, <2>1, <2>2, QuietMove DEF Searching, TimeoutFires
  <1>2. CASE TimeoutDequeue(t)
    <2>1. /\ UNCHANGED ledger
          /\ DataOK' /\ (\A v \in Users : Waiting(v)' => Waiting(v)) /\ busy' \subseteq busy
      BY <1>2, DataWithout DEF TimeoutDequeue
    <2>2. Carry("timeout:refund", at[t]) /\ "timeout:refund" \in Labels
      BY DEF Carry, Labels
    <2> QED
      BY <1>2, <2>1, <2>2, QuietMove DEF Searching, TimeoutDequeue
  <1>3. CASE TimeoutRefund(t)
    <2>1. /\ UNCHANGED ledger
          /\ DataOK' /\ (\A v \in Users : Waiting(v)' => Waiting(v)) /\ busy' \subseteq busy
      BY <1>3, DataSettled DEF TimeoutRefund
    <2>2. "idle" \in Labels
      BY DEF Labels
    <2> QED
      BY <1>3, <2>1, <2>2, QuietMove DEF Searching, TimeoutRefund
  <1> QED
    BY <1>1, <1>2, <1>3 DEF Timeout

-----------------------------------------------------------------------------
(* A join: granted under the row locks, then committed. *)

\* What a task has in hand after the checks of its join.
LEMMA JoinCheckMoves ==
  ASSUME TasksOK, NEW t \in Tasks, NEW from, NEW to \in Labels, JoinCheck(t, from, to)
  PROVE  \E c \in Calls :
           /\ c.user = at[t].user /\ c.room = at[t].room /\ c.wish = at[t].wish
           /\ c.error = JoinError(at[t].user, at[t].room)
           /\ pc[t] = from /\ Move(t, to, c)
           /\ RowsFree(at[t].user, at[t].room)
           /\ UNCHANGED ledger /\ UNCHANGED <<pref, waiting, busy, owed, crashes>>
  <1> DEFINE e == JoinError(at[t].user, at[t].room)
             c == [at[t] EXCEPT !.error = e]
  <1>1. e \in Errors \cup {None}
    BY DEF JoinError, Errors
  <1>2. /\ at' = [at EXCEPT ![t].error = e]
        /\ Step(t, from, to) /\ RowsFree(at[t].user, at[t].room)
        /\ UNCHANGED ledger /\ UNCHANGED <<pref, waiting, busy, owed, crashes>>
    BY DEF JoinCheck
  <1> HIDE DEF e
  <1>3. /\ c \in Calls /\ c.user = at[t].user /\ c.room = at[t].room /\ c.wish = at[t].wish
        /\ c.error = e
    BY <1>1 DEF TasksOK, Calls
  <1>4. pc[t] = from /\ Move(t, to, c)
    BY <1>2 DEF Step, Move
  <1> HIDE DEF c
  <1>5. c.error = JoinError(at[t].user, at[t].room)
    BY <1>3 DEF e
  <1> QED
    BY <1>2, <1>3, <1>4, <1>5

\* The other task that joins has another user and another room in hand, and
\* what this one has read is what the grant promises.
LEMMA GrantKeeps ==
  ASSUME RJInv, NEW t \in {Bot, Sweep}, NEW from, NEW to \in {"search:end", "fill:commit"},
         JoinCheck(t, from, to), at[t].user \in Users, at[t].room \in Rooms,
         to = "search:end" => at[t].wish \in Wishes,
         JoinError(at[t].user, at[t].room) = None,
         to \in Searching => from \in Searching
  PROVE  Kept
  <1> USE TaskTypes DEF RJInv
  <1>1. to \in Labels /\ t \in Tasks
    BY DEF Labels
  <1>2. PICK c \in Calls :
          /\ c.user = at[t].user /\ c.room = at[t].room /\ c.wish = at[t].wish
          /\ c.error = JoinError(at[t].user, at[t].room)
          /\ pc[t] = from /\ Move(t, to, c)
          /\ RowsFree(at[t].user, at[t].room)
          /\ UNCHANGED ledger /\ UNCHANGED <<pref, waiting, busy, owed, crashes>>
    BY <1>1, JoinCheckMoves
  <1>3. DataOK'
    BY <1>2, DataSame
  <1>4. TasksOK'
    <2>1. Carry(to, c)
      BY <1>2 DEF Carry
    <2> QED
      BY <1>1, <1>2, <2>1, MoveTasks
  <1>5. /\ HasSpace(at[t].room) /\ active[at[t].user] = None
        /\ at[t].user \notin busy
    BY ErrorsAssumption DEF JoinError, Errors
  <1>6. MembersActive'
    BY <1>2 DEF Grants, MembersActive, ledger
  <1>7. pc' = [pc EXCEPT ![t] = to] /\ at' = [at EXCEPT ![t] = c]
    BY <1>2 DEF Move
  <1>8. pc \in [Tasks -> Labels] /\ at \in [Tasks -> Calls]
    BY DEF TasksOK
  <1>9. \A x \in {Bot, Sweep} \ {t} : Committing(x)' =>
          Committing(x) /\ at'[x] = at[x] /\ at[x].user # at[t].user /\ at[x].room # at[t].room
    BY <1>1, <1>2, <1>7, <1>8 DEF Committing, RowsFree
  <1>10. at'[t].user = at[t].user /\ at'[t].room = at[t].room
    BY <1>1, <1>2, <1>7, <1>8
  <1>11. Granted'
    BY <1>2, <1>5, <1>9, <1>10 DEF Grants, Granted, HasSpace, ledger
  <1>12. OneGrant'
    BY <1>9, <1>10, TasksAssumption DEF OneGrant
  <1>13. WaitersAreFree' /\ SearcherFree'
    BY <1>1, <1>2, <1>5, <1>7, <1>8, <1>10 DEF Free, WaitersAreFree, SearcherFree, Waiting
  <1>14. EntrantNotWaiting'
    BY <1>1, <1>2, <1>7, <1>8 DEF Free, EntrantNotWaiting, Waiting
  <1> QED
    BY <1>2, <1>3, <1>4, <1>6, <1>11, <1>12, <1>13, <1>14 DEF Kept, Grants, Free

\* The COMMIT of a granted join is a Join of the ledger.
LEMMA JoinCommitKeeps ==
  ASSUME RJInv, NEW t \in {Bot, Sweep}, Committing(t), JoinCommit(t),
         NEW l \in {"idle", "fill:dequeue"}, NEW c \in Calls, Carry(l, c), Move(t, l, c)
  PROVE  Kept
  <1> USE TaskTypes DEF RJInv
  <1> DEFINE u == at[t].user
             r == at[t].room
  <1>1. u \in Users /\ r \in Rooms /\ t \in Tasks /\ l \in Labels
    BY DEF TasksOK, Carry, Committing, Labels
  <1>2. HasSpace(r) /\ active[u] = None
    BY DEF Grants, Granted
  <1>3. /\ AddMember(u, r) /\ Settle(u)
        /\ UNCHANGED <<pref, waiting, busy, crashes>>
    BY DEF JoinCommit
  <1> HIDE DEF u, r
  <1>4. LedgerTypeOK
    BY DEF LedgerInv
  <1>5. \A q \in Rooms : u \notin members[q]
    BY <1>1, <1>2, NoneAssumption DEF Grants, MembersActive
  <1>6. [Next]_ledger
    <2>1. Join(u, r)
      BY <1>1, <1>2, <1>3, <1>5 DEF Join, HasSpace
    <2> QED
      BY <1>1, <2>1 DEF Next
  <1>7. DataOK' /\ (\A v \in Users : Waiting(v)' => Waiting(v)) /\ busy' \subseteq busy
    BY <1>1, <1>3, DataSettled
  <1>8. TasksOK'
    BY <1>1, MoveTasks
  <1>9. pc' = [pc EXCEPT ![t] = l] /\ at' = [at EXCEPT ![t] = c]
        /\ pc \in [Tasks -> Labels] /\ at \in [Tasks -> Calls]
    BY DEF Move, TasksOK
  <1>10. /\ members' = [members EXCEPT ![r] = @ \cup {u}]
         /\ active' = [active EXCEPT ![u] = r]
         /\ UNCHANGED <<status, capacity>>
    BY <1>3 DEF AddMember
  <1>11. MembersActive'
    BY <1>1, <1>4, <1>5, <1>10 DEF Grants, MembersActive, LedgerTypeOK
  <1>12. ~ Committing(t)'
    BY <1>1, <1>9 DEF Committing
  <1>13. \A x \in {Bot, Sweep} : Committing(x)' =>
           /\ x # t /\ Committing(x) /\ at'[x] = at[x]
           /\ at[x].user # u /\ at[x].room # r
           /\ at[x].user \in Users /\ at[x].room \in Rooms
    BY <1>1, <1>9, <1>12 DEF Committing, Grants, OneGrant, TasksOK, Carry, u, r
  <1>14. Granted'
    BY <1>4, <1>10, <1>13 DEF Grants, Granted, HasSpace, LedgerTypeOK
  <1>15. OneGrant'
    BY <1>12 DEF OneGrant
  <1>16. WaitersAreFree' /\ SearcherFree' /\ EntrantNotWaiting'
    BY <1>1, <1>3, <1>9
    DEF Free, WaitersAreFree, SearcherFree, EntrantNotWaiting, Waiting, Searching
  <1> QED
    BY <1>6, <1>7, <1>8, <1>11, <1>14, <1>15, <1>16 DEF Kept, Grants, Free

\* A search starts with the question whether the user is free.
LEMMA SearchKeeps ==
  ASSUME RJInv, NEW u \in Users, NEW w \in Wishes, Search(u, w)
  PROVE  Kept
  <1> USE TaskTypes, CommonMoves DEF RJInv
  <1>1. /\ UNCHANGED ledger /\ UNCHANGED <<pref, waiting, busy, crashes>>
        /\ Charge(u) /\ MayStartRoomFlow(u)
    BY DEF Search
  <1>2. PICK c \in Calls : c.user = u /\ c.wish = w /\ Move(Bot, "search:find", c)
    BY AskedMove DEF Search
  <1>3. DataOK'
    BY <1>1, CoinTypes DEF DataOK
  <1>4. TasksOK'
    <2>1. Carry("search:find", c) /\ "search:find" \in Labels
      BY <1>2 DEF Carry, Labels
    <2> QED
      BY <1>2, <2>1, MoveTasks
  <1>5. /\ pc'[Bot] = "search:find" /\ at'[Bot].user = u
        /\ pc'[Sweep] = pc[Sweep] /\ at'[Sweep] = at[Sweep]
    BY <1>2, TasksAssumption DEF Move, TasksOK
  <1>6. MembersActive'
    BY <1>1 DEF Grants, MembersActive, ledger
  <1>7. Granted' /\ OneGrant'
    BY <1>1, <1>5 DEF Grants, Granted, OneGrant, Committing, HasSpace, ledger
  <1>8. WaitersAreFree' /\ SearcherFree' /\ EntrantNotWaiting'
    BY <1>1, <1>5
    DEF Free, WaitersAreFree, SearcherFree, EntrantNotWaiting, Waiting, MayStartRoomFlow
  <1> QED
    BY <1>1, <1>3, <1>4, <1>6, <1>7, <1>8 DEF Kept, Grants, Free

\* The checks of a search's join: a grant, or on to the queue.
LEMMA SearchJoinKeeps == ASSUME RJInv, SearchJoin PROVE Kept
  <1> USE TaskTypes, CommonMoves DEF RJInv
  <1> DEFINE e == JoinError(at[Bot].user, at[Bot].room)
  <1>1. pc[Bot] = "search:join"
    BY DEF SearchJoin
  <1>2. /\ at[Bot].user \in Users /\ at[Bot].room \in Rooms /\ at[Bot].wish \in Wishes
        /\ "search:end" \in Labels /\ "search:enqueue" \in Labels
    BY <1>1 DEF Carry, Labels
  <1>3. CASE e = None
    <2>1. JoinCheck(Bot, "search:join", "search:end")
      BY <1>3 DEF SearchJoin
    <2> QED
      BY <1>2, <1>3, <2>1, GrantKeeps DEF Searching
  <1>4. CASE e # None
    <2>1. PICK l \in {"search:end", "search:enqueue"} : JoinCheck(Bot, "search:join", l)
      BY DEF SearchJoin
    <2>2. PICK c \in Calls :
            /\ c.user = at[Bot].user /\ c.room = at[Bot].room /\ c.wish = at[Bot].wish
            /\ c.error = e /\ Move(Bot, l, c)
            /\ UNCHANGED ledger /\ UNCHANGED <<pref, waiting, busy, owed, crashes>>
      BY <1>2, <2>1, JoinCheckMoves
    <2>3. DataOK' /\ (\A v \in Users : Waiting(v)' => Waiting(v)) /\ busy' \subseteq busy
      BY <2>2, DataSame
    <2>4. TasksOK'
      <3>1. Carry(l, c)
        BY <1>1, <2>2 DEF Carry
      <3> QED
        BY <1>2, <2>2, <3>1, MoveTasks
    <2> HIDE DEF e
    <2>5. pc'[Bot] = l /\ at'[Bot] = c /\ pc'[Sweep] = pc[Sweep] /\ at'[Sweep] = at[Sweep]
      BY <2>2, TasksAssumption DEF Move, TasksOK
    <2>6. Quiet
      BY <1>1, <1>4, <2>2, <2>3, <2>5 DEF Quiet, Committing, Searching
    <2> QED
      BY <2>3, <2>4, <2>6, QuietKeeps
  <1> QED
    BY <1>3, <1>4

\* The seat of a search, or the coins back.
LEMMA SearchEndKeeps == ASSUME RJInv, SearchEnd PROVE Kept
  <1> USE TaskTypes, CommonMoves DEF RJInv
  <1>1. pc[Bot] = "search:end" /\ Move(Bot, "idle", NoCall) /\ "idle" \in Labels
    BY DEF SearchEnd, Labels
  <1>2. CASE Committing(Bot)
    BY <1>1, <1>2, JoinCommitKeeps DEF SearchEnd
  <1>3. CASE ~ Committing(Bot)
    <2>1. at[Bot].user \in Users
      BY <1>1 DEF Carry
    <2>2. /\ UNCHANGED ledger
          /\ DataOK' /\ (\A v \in Users : Waiting(v)' => Waiting(v)) /\ busy' \subseteq busy
      BY <1>3, <2>1, DataSettled DEF SearchEnd
    <2> QED
      BY <1>1, <2>2, QuietMove DEF Searching
  <1> QED
    BY <1>2, <1>3

\* Who is queued was asked before, and only the dispatcher enters a chat.
LEMMA EnqueueKeeps == ASSUME RJInv, Enqueue PROVE Kept
  <1> USE TaskTypes, CommonMoves DEF RJInv
  <1> DEFINE u == at[Bot].user
             w == at[Bot].wish
  <1>1. /\ GoOn(Bot, "search:enqueue", "search:schedule")
        /\ waiting' = Append(Without(<<u, w>>), <<u, w>>)
        /\ UNCHANGED ledger /\ UNCHANGED <<pref, busy, owed, crashes>>
    BY DEF Enqueue
  <1>2. pc[Bot] = "search:enqueue" /\ Move(Bot, "search:schedule", at[Bot])
    BY <1>1
  <1>3. u \in Users /\ w \in Wishes /\ u \notin busy
    BY <1>2 DEF Carry, Free, SearcherFree, Searching
  <1>4. TasksOK'
    <2>1. Carry("search:schedule", at[Bot]) /\ "search:schedule" \in Labels
      BY <1>2 DEF Carry, Labels
    <2> QED
      BY <1>2, <2>1, MoveTasks
  <1> HIDE DEF u, w
  <1>5. /\ waiting' \in Seq(Users \X Wishes)
        /\ \A e : Contains(waiting', e) => e = <<u, w>> \/ Contains(waiting, e)
    <2> DEFINE entry == <<u, w>>
    <2>1. entry \in Users \X Wishes /\ waiting \in Seq(Users \X Wishes)
      BY <1>3 DEF DataOK
    <2>2. waiting' = Append(Without(entry), entry)
      BY <1>1
    <2> HIDE DEF entry
    <2>3. /\ waiting' \in Seq(Users \X Wishes)
          /\ \A e : Contains(waiting', e) => e = entry \/ Contains(waiting, e)
      BY <2>1, <2>2, EnqueueAdds
    <2> QED
      BY <2>3 DEF entry
  <1>6. DataOK'
    BY <1>1, <1>5 DEF DataOK
  <1>7. /\ pc'[Bot] = "search:schedule" /\ at'[Bot] = at[Bot]
        /\ pc'[Sweep] = pc[Sweep] /\ at'[Sweep] = at[Sweep]
    BY <1>2, TasksAssumption DEF Move, TasksOK
  <1>8. MembersActive' /\ Granted' /\ OneGrant'
    BY <1>1, <1>7
    DEF Grants, MembersActive, Granted, OneGrant, Committing, HasSpace, ledger
  <1>9. WaitersAreFree'
    BY <1>1, <1>3, <1>5 DEF Free, WaitersAreFree, Waiting
  <1>10. SearcherFree' /\ EntrantNotWaiting'
    BY <1>7 DEF SearcherFree, EntrantNotWaiting, Searching
  <1> QED
    BY <1>1, <1>4, <1>6, <1>8, <1>9, <1>10 DEF Kept, Grants, Free

\* The timeout job becomes due and the update ends.
LEMMA ScheduleKeeps == ASSUME RJInv, Schedule PROVE Kept
  <1> USE TaskTypes, CommonMoves DEF RJInv
  <1>1. /\ pc[Bot] = "search:schedule"
        /\ UNCHANGED ledger /\ UNCHANGED <<pref, waiting, busy, owed, crashes>>
    BY DEF Schedule
  <1>2. PICK s \in Slots :
          LET t == <<at[Bot].user, s>>
          IN /\ pc' = [pc EXCEPT ![t] = "due", ![Bot] = "idle"]
             /\ at' = [at EXCEPT ![t] = [NoCall EXCEPT !.wish = at[Bot].wish], ![Bot] = NoCall]
    BY DEF Schedule
  <1> DEFINE t == <<at[Bot].user, s>>
             c == [NoCall EXCEPT !.wish = at[Bot].wish]
  <1>3. DataOK' /\ (\A v \in Users : Waiting(v)' => Waiting(v)) /\ busy' \subseteq busy
    BY <1>1, DataSame
  <1>4. at[Bot].user \in Users /\ at[Bot].wish \in Wishes
    BY <1>1 DEF Carry
  <1>5. t \in Timers /\ t \in Tasks
    BY <1>4 DEF Timers
  <1>6. c \in Calls
    BY <1>4 DEF NoCall, Calls
  <1>7. pc' = [pc EXCEPT ![t] = "due", ![Bot] = "idle"]
        /\ at' = [at EXCEPT ![t] = c, ![Bot] = NoCall]
    BY <1>2
  <1> HIDE DEF t, c
  <1>8. "due" \in Labels /\ "idle" \in Labels /\ Carry("due", c)
    BY DEF Labels, Carry
  <1>9. TasksOK'
    BY <1>5, <1>6, <1>7, <1>8 DEF TasksOK
  <1>10. pc'[Bot] = "idle" /\ pc'[Sweep] = pc[Sweep] /\ at'[Sweep] = at[Sweep]
    BY <1>5, <1>7, TasksAssumption DEF TasksOK
  <1>11. Quiet
    BY <1>1, <1>3, <1>10 DEF Quiet, Committing, Searching
  <1> QED
    BY <1>3, <1>9, <1>11, QuietKeeps

\* Cancelling the jobs of a user stops tasks and moves the caller on.
LEMMA CancelJobsKeeps ==
  ASSUME RJInv, DataOK', NEW t \in {Bot, Sweep}, NEW u,
         NEW l \in {"idle", "fill:peek"}, NEW c \in Calls, Carry(l, c), CancelJobs(t, u, l, c),
         UNCHANGED ledger,
         \A v \in Users : Waiting(v)' => Waiting(v),
         busy' \subseteq busy
  PROVE  Kept
  <1> USE TaskTypes, CommonMoves DEF RJInv
  <1> DEFINE stopped == {x \in Timers : x[1] = u /\ pc[x] = "due"}
  <1>1. /\ pc' = [x \in Tasks |-> IF x = t THEN l ELSE IF x \in stopped THEN "idle" ELSE pc[x]]
        /\ at' = [x \in Tasks |-> IF x = t THEN c ELSE IF x \in stopped THEN NoCall ELSE at[x]]
    BY DEF CancelJobs
  <1>2. Bot \notin stopped /\ Sweep \notin stopped
    BY TasksAssumption
  <1> HIDE DEF stopped
  <1>3. l \in Labels /\ "idle" \in Labels
    BY DEF Labels
  <1>4. TasksOK'
    BY <1>1, <1>3 DEF TasksOK
  <1>5. Quiet
    BY <1>1, <1>2 DEF Quiet, Committing, Searching
  <1> QED
    BY <1>4, <1>5, QuietKeeps

\* The refund of a cancelled search stops its jobs.
LEMMA CancelRefundKeeps == ASSUME RJInv, CancelRefund PROVE Kept
  <1> USE TaskTypes, CommonMoves DEF RJInv
  <1>1. pc[Bot] = "cancel:refund" /\ CancelJobs(Bot, at[Bot].user, "idle", NoCall)
    BY DEF CancelRefund
  <1>2. at[Bot].user \in Users
    BY <1>1 DEF Carry
  <1>3. /\ UNCHANGED ledger
        /\ DataOK' /\ (\A v \in Users : Waiting(v)' => Waiting(v)) /\ busy' \subseteq busy
    BY <1>2, DataSettled DEF CancelRefund
  <1> QED
    BY <1>1, <1>3, CancelJobsKeeps

-----------------------------------------------------------------------------
(* The fill of a room, and the sweep. *)

\* A fill that ends leaves its caller idle or with the rooms left to visit.
LEMMA FillEndsMoves ==
  ASSUME TasksOK, NEW t \in {Bot, Sweep}, NEW from, FillEnds(t, from)
  PROVE  \E l \in {"idle", "sweep:next"}, c \in Calls : Move(t, l, c)
  <1> USE TaskTypes
  <1> DEFINE c == [NoCall EXCEPT !.todo = at[t].todo]
  <1>1. c \in Calls
    BY DEF TasksOK, NoCall, Calls
  <1>2. at' = [at EXCEPT ![t] = c]
        /\ Step(t, from, IF t = Bot THEN "idle" ELSE "sweep:next")
    BY DEF FillEnds
  <1> HIDE DEF c
  <1> QED
    BY <1>1, <1>2 DEF Step, Move

\* The end of a fill keeps the invariant.
LEMMA FillEndsKeeps ==
  ASSUME RJInv, NEW t \in {Bot, Sweep}, NEW from, FillEnds(t, from), UNCHANGED ledger,
         UNCHANGED <<pref, waiting, busy, owed, crashes>>
  PROVE  Kept
  <1> USE TaskTypes DEF RJInv
  <1>1. PICK l \in {"idle", "sweep:next"}, c \in Calls : Move(t, l, c)
    BY FillEndsMoves
  <1>2. DataOK' /\ (\A v \in Users : Waiting(v)' => Waiting(v)) /\ busy' \subseteq busy
    BY DataSame
  <1>3. l \in Labels /\ Carry(l, c)
    BY DEF Labels, Carry
  <1> QED
    BY <1>1, <1>2, <1>3, QuietMove DEF Searching

\* Looking for a candidate only reads.
LEMMA FillPeekKeeps ==
  ASSUME RJInv, NEW t \in {Bot, Sweep}, FillPeek(t)
  PROVE  Kept
  <1> USE TaskTypes DEF RJInv
  <1>1. UNCHANGED ledger /\ UNCHANGED <<pref, waiting, busy, owed, crashes>>
    BY DEF FillPeek
  <1>2. CASE FillEnds(t, "fill:peek")
    BY <1>1, <1>2, FillEndsKeeps
  <1>3. ASSUME NEW i \in DOMAIN waiting, Step(t, "fill:peek", "fill:join"),
               Asked(t, waiting[i][1], waiting[i][2])
        PROVE  Kept
    <2>1. waiting[i][1] \in Users /\ waiting[i][2] \in Wishes
      BY Entries
    <2>2. PICK c \in Calls : /\ c.user = waiting[i][1] /\ c.room = at[t].room
                             /\ Move(t, "fill:join", c)
      BY <1>3, <2>1, AskedMove
    <2>3. Carry("fill:join", c) /\ "fill:join" \in Labels
      <3>1. at[t].room \in Rooms
        BY <1>3 DEF Step, TasksOK, Carry
      <3> QED
        BY <2>1, <2>2, <3>1 DEF Carry, Labels
    <2>4. DataOK' /\ (\A v \in Users : Waiting(v)' => Waiting(v)) /\ busy' \subseteq busy
      BY <1>1, DataSame
    <2> QED
      BY <1>1, <2>2, <2>3, <2>4, QuietMove DEF Searching
  <1> QED
    BY <1>2, <1>3 DEF FillPeek

\* The checks of a fill's join: a grant, a fault of the user's, or the end.
LEMMA FillJoinKeeps ==
  ASSUME RJInv, NEW t \in {Bot, Sweep}, FillJoin(t)
  PROVE  Kept
  <1> USE TaskTypes DEF RJInv
  <1> DEFINE e == JoinError(at[t].user, at[t].room)
  <1>1. pc[t] = "fill:join"
    BY DEF FillJoin
  <1>2. /\ at[t].user \in Users /\ at[t].room \in Rooms
        /\ "fill:commit" \in Labels /\ "fill:dequeue" \in Labels
    BY <1>1 DEF TasksOK, Carry, Labels
  <1>3. CASE e # "room" /\ e = None
    <2>1. JoinCheck(t, "fill:join", "fill:commit")
      BY <1>3 DEF FillJoin
    <2> QED
      BY <1>2, <1>3, <2>1, GrantKeeps DEF Searching
  <1>4. CASE e # "room" /\ e # None
    <2>1. JoinCheck(t, "fill:join", "fill:dequeue")
      BY <1>4 DEF FillJoin
    <2>2. PICK c \in Calls :
            /\ c.user = at[t].user /\ c.room = at[t].room /\ c.wish = at[t].wish
            /\ Move(t, "fill:dequeue", c)
            /\ UNCHANGED ledger /\ UNCHANGED <<pref, waiting, busy, owed, crashes>>
      BY <1>2, <2>1, JoinCheckMoves
    <2>3. DataOK' /\ (\A v \in Users : Waiting(v)' => Waiting(v)) /\ busy' \subseteq busy
      BY <2>2, DataSame
    <2>4. Carry("fill:dequeue", c)
      BY <1>2, <2>2 DEF Carry
    <2> QED
      BY <1>2, <2>2, <2>3, <2>4, QuietMove DEF Searching
  <1>5. CASE e = "room"
    <2>1. /\ FillEnds(t, "fill:join") /\ UNCHANGED ledger
          /\ UNCHANGED <<pref, waiting, busy, owed, crashes>>
      BY <1>5 DEF FillJoin
    <2> QED
      BY <2>1, FillEndsKeeps
  <1> QED
    BY <1>3, <1>4, <1>5

\* Every step of a fill, by the trigger or by the sweep.
LEMMA FillKeeps ==
  ASSUME RJInv, NEW t \in {Bot, Sweep}, Fill(t)
  PROVE  Kept
  <1> USE TaskTypes, CommonMoves DEF RJInv
  <1>1. CASE FillPeek(t)
    BY <1>1, FillPeekKeeps
  <1>2. CASE FillJoin(t)
    BY <1>2, FillJoinKeeps
  <1>3. CASE FillCommit(t)
    <2>1. pc[t] = "fill:commit" /\ Move(t, "fill:dequeue", at[t]) /\ JoinCommit(t)
      BY <1>3 DEF FillCommit
    <2>2. Carry("fill:dequeue", at[t])
      BY <2>1 DEF Carry
    <2>3. Committing(t)
      BY <2>1 DEF Carry, Committing
    <2> QED
      BY <2>1, <2>2, <2>3, JoinCommitKeeps
  <1>4. CASE FillDequeue(t)
    <2>1. /\ UNCHANGED ledger
          /\ GoOn(t, "fill:dequeue", "fill:settle")
          /\ DataOK' /\ (\A v \in Users : Waiting(v)' => Waiting(v)) /\ busy' \subseteq busy
      BY <1>4, DataWithout DEF FillDequeue
    <2>2. Carry("fill:settle", at[t]) /\ "fill:settle" \in Labels
      BY <2>1 DEF Carry, Labels
    <2> QED
      BY <2>1, <2>2, QuietMove DEF Searching
  <1>5. CASE FillSettle(t)
    <2> DEFINE c == [NoCall EXCEPT !.room = at[t].room, !.todo = at[t].todo]
    <2>1. pc[t] = "fill:settle" /\ CancelJobs(t, at[t].user, "fill:peek", c)
      BY <1>5 DEF FillSettle
    <2>2. at[t].user \in Users /\ at[t].room \in Rooms
      BY <2>1 DEF Carry
    <2>3. c \in Calls /\ c.room = at[t].room
      BY DEF NoCall, Calls
    <2>4. /\ UNCHANGED ledger
          /\ DataOK' /\ (\A v \in Users : Waiting(v)' => Waiting(v)) /\ busy' \subseteq busy
      BY <1>5, <2>2, DataSettled, DataSame DEF FillSettle
    <2> HIDE DEF c
    <2>5. Carry("fill:peek", c)
      BY <2>2, <2>3 DEF Carry
    <2> QED
      BY <2>1, <2>3, <2>4, <2>5, CancelJobsKeeps
  <1> QED
    BY <1>1, <1>2, <1>3, <1>4, <1>5 DEF Fill

\* Every step of the sweep.
LEMMA SweepKeeps ==
  ASSUME RJInv, Sweeping
  PROVE  Kept
  <1> USE TaskTypes, CommonMoves DEF RJInv
  <1>1. ASSUME NEW n \in 0 .. Len(waiting), PurgeStale(n)
        PROVE  Kept
    <2>1. /\ UNCHANGED ledger /\ UNCHANGED <<pref, busy, owed, crashes>>
          /\ Move(Sweep, "sweep:list", at[Sweep])
      BY <1>1 DEF PurgeStale
    <2>2. /\ waiting' \in Seq(Users \X Wishes)
          /\ \A e : Contains(waiting', e) => Contains(waiting, e)
      BY <1>1, PurgeShrinks DEF PurgeStale, DataOK
    <2>3. DataOK' /\ (\A v \in Users : Waiting(v)' => Waiting(v)) /\ busy' \subseteq busy
      BY <2>1, <2>2 DEF DataOK, Waiting
    <2>4. Carry("sweep:list", at[Sweep]) /\ "sweep:list" \in Labels
      BY DEF Carry, Labels
    <2> QED
      BY <2>1, <2>3, <2>4, QuietMove DEF Searching
  <1>2. CASE SweepList
    <2> DEFINE c == [at[Sweep] EXCEPT !.todo = {r \in Rooms : HasSpace(r)}]
    <2>1. c \in Calls
      BY DEF Calls
    <2>2. Move(Sweep, "sweep:next", c)
      BY <1>2 DEF SweepList, Step, Move
    <2> HIDE DEF c
    <2>3. UNCHANGED ledger /\ UNCHANGED <<pref, waiting, busy, owed, crashes>>
      BY <1>2 DEF SweepList
    <2>4. DataOK' /\ (\A v \in Users : Waiting(v)' => Waiting(v)) /\ busy' \subseteq busy
      BY <2>3, DataSame
    <2>5. Carry("sweep:next", c) /\ "sweep:next" \in Labels
      BY DEF Carry, Labels
    <2> QED
      BY <2>1, <2>2, <2>3, <2>4, <2>5, QuietMove DEF Searching
  <1>3. CASE SweepNext
    <2>1. UNCHANGED ledger /\ UNCHANGED <<pref, waiting, busy, owed, crashes>>
      BY <1>3 DEF SweepNext
    <2>2. DataOK' /\ (\A v \in Users : Waiting(v)' => Waiting(v)) /\ busy' \subseteq busy
      BY <2>1, DataSame
    <2>3. CASE Finish(Sweep, "sweep:next")
      <3>1. "idle" \in Labels
        BY DEF Labels
      <3> QED
        BY <2>1, <2>2, <2>3, <3>1, QuietMove DEF Searching
    <2>4. ASSUME NEW r \in at[Sweep].todo, Step(Sweep, "sweep:next", "fill:peek"),
                 at' = [at EXCEPT ![Sweep].room = r, ![Sweep].todo = @ \ {r}]
          PROVE  Kept
      <3> DEFINE b == [at[Sweep] EXCEPT !.room = r]
                 c == [b EXCEPT !.todo = @ \ {r}]
      <3>1. r \in Rooms /\ b \in Calls /\ b.room = r
        BY DEF Calls
      <3> DEFINE f == [at EXCEPT ![Sweep].room = r]
      <3>2. f = [at EXCEPT ![Sweep] = b] /\ f[Sweep] = b
        BY DEF TasksOK
      <3>3. at' = [f EXCEPT ![Sweep].todo = @ \ {r}]
        BY <2>4
      <3> HIDE DEF f, b
      <3>4. at' = [at EXCEPT ![Sweep] = c]
        BY <3>2, <3>3 DEF TasksOK
      <3>5. c \in Calls /\ c.room = r
        BY <3>1 DEF Calls
      <3> HIDE DEF c
      <3>6. Move(Sweep, "fill:peek", c)
        BY <2>4, <3>4 DEF Step, Move
      <3>7. Carry("fill:peek", c) /\ "fill:peek" \in Labels
        BY <3>1, <3>5 DEF Carry, Labels
      <3> QED
        BY <2>1, <2>2, <3>5, <3>6, <3>7, QuietMove DEF Searching
    <2> QED
      BY <1>3, <2>3, <2>4 DEF SweepNext
  <1>4. CASE Fill(Sweep)
    BY <1>4, FillKeeps
  <1> QED
    BY <1>1, <1>2, <1>3, <1>4 DEF Sweeping

-----------------------------------------------------------------------------
(* The 1:1 chat, and a crash. *)

\* An entry to the 1:1 chat starts with a read.
LEMMA BeginChatKeeps ==
  ASSUME RJInv, NEW u \in Users, BeginChat(u)
  PROVE  Kept
  <1> USE TaskTypes, CommonMoves DEF RJInv
  <1> DEFINE c == [at[Bot] EXCEPT !.user = u]
  <1>1. UNCHANGED ledger /\ UNCHANGED <<pref, waiting, busy, owed, crashes>>
    BY DEF BeginChat
  <1>2. DataOK' /\ (\A v \in Users : Waiting(v)' => Waiting(v)) /\ busy' \subseteq busy
    BY <1>1, DataSame
  <1>3. c \in Calls /\ c.user = u
    BY DEF Calls
  <1>4. Move(Bot, "chat:queue", c)
    BY DEF BeginChat, Step, Move
  <1> HIDE DEF c
  <1>5. Carry("chat:queue", c) /\ "chat:queue" \in Labels
    BY <1>3 DEF Carry, Labels
  <1> QED
    BY <1>1, <1>2, <1>3, <1>4, <1>5, QuietMove DEF Searching

\* Its second question is what EntrantNotWaiting records.
LEMMA AskQueueKeeps == ASSUME RJInv, AskQueue PROVE Kept
  <1> USE TaskTypes, CommonMoves DEF RJInv
  <1>1. UNCHANGED ledger /\ UNCHANGED <<pref, waiting, busy, owed, crashes>>
    BY DEF AskQueue
  <1>2. DataOK' /\ (\A v \in Users : Waiting(v)' => Waiting(v)) /\ busy' \subseteq busy
    BY <1>1, DataSame
  <1>3. CASE Finish(Bot, "chat:queue")
    <2>1. "idle" \in Labels
      BY DEF Labels
    <2> QED
      BY <1>1, <1>2, <1>3, <2>1, QuietMove DEF Searching
  <1>4. CASE ~ Waiting(at[Bot].user) /\ GoOn(Bot, "chat:queue", "chat:enter")
    <2>1. Move(Bot, "chat:enter", at[Bot]) /\ pc[Bot] = "chat:queue"
      BY <1>4
    <2>2. TasksOK'
      <3>1. Carry("chat:enter", at[Bot]) /\ "chat:enter" \in Labels
        BY <2>1 DEF Carry, Labels
      <3> QED
        BY <2>1, <3>1, MoveTasks
    <2>3. /\ pc'[Bot] = "chat:enter" /\ at'[Bot] = at[Bot]
          /\ pc'[Sweep] = pc[Sweep] /\ at'[Sweep] = at[Sweep]
      BY <2>1, TasksAssumption DEF Move, TasksOK
    <2>4. MembersActive' /\ Granted' /\ OneGrant'
      BY <1>1, <2>3
      DEF Grants, MembersActive, Granted, OneGrant, Committing, HasSpace, ledger
    <2>5. WaitersAreFree' /\ SearcherFree' /\ EntrantNotWaiting'
      BY <1>1, <1>4, <2>3
      DEF Free, WaitersAreFree, SearcherFree, EntrantNotWaiting, Waiting, Searching
    <2> QED
      BY <1>1, <1>2, <2>2, <2>4, <2>5 DEF Kept, Grants, Free
  <1> QED
    BY <1>3, <1>4 DEF AskQueue

\* Who enters a chat is not in the queue: the answer is still true.
LEMMA EnterChatKeeps == ASSUME RJInv, EnterChat PROVE Kept
  <1> USE TaskTypes, CommonMoves DEF RJInv
  <1> DEFINE u == at[Bot].user
  <1>1. /\ pc[Bot] = "chat:enter" /\ Move(Bot, "idle", NoCall)
        /\ UNCHANGED ledger /\ UNCHANGED <<pref, waiting, owed, crashes>>
        /\ busy' = busy \cup {u}
    BY DEF EnterChat
  <1>2. u \in Users /\ ~ Waiting(u)
    BY <1>1 DEF Carry, Free, EntrantNotWaiting
  <1> HIDE DEF u
  <1>3. DataOK'
    BY <1>1, <1>2 DEF DataOK
  <1>4. TasksOK'
    <2>1. "idle" \in Labels
      BY DEF Labels
    <2> QED
      BY <1>1, <2>1, MoveTasks
  <1>5. pc'[Bot] = "idle" /\ pc'[Sweep] = pc[Sweep] /\ at'[Sweep] = at[Sweep]
    BY <1>1, TasksAssumption DEF Move, TasksOK
  <1>6. MembersActive' /\ Granted' /\ OneGrant'
    BY <1>1, <1>5
    DEF Grants, MembersActive, Granted, OneGrant, Committing, HasSpace, ledger
  <1>7. WaitersAreFree' /\ SearcherFree' /\ EntrantNotWaiting'
    BY <1>1, <1>2, <1>5
    DEF Free, WaitersAreFree, SearcherFree, EntrantNotWaiting, Waiting, Searching
  <1> QED
    BY <1>1, <1>3, <1>4, <1>6, <1>7 DEF Kept, Grants, Free

\* Who leaves a chat sets nobody waiting.
LEMMA LeaveChatKeeps ==
  ASSUME RJInv, NEW u \in Users, LeaveChat(u)
  PROVE  Kept
  <1>1. /\ UNCHANGED ledger /\ UNCHANGED <<pref, waiting, owed, pc, at, crashes>>
        /\ busy' = busy \ {u}
    BY DEF LeaveChat
  <1>2. DataOK' /\ TasksOK'
    BY <1>1 DEF RJInv, DataOK, TasksOK
  <1>3. Quiet
    BY <1>1 DEF Quiet, Committing, Waiting
  <1> QED
    BY <1>2, <1>3, QuietKeeps

\* After a crash no task has a grant or an answer in hand.
LEMMA CrashKeeps == ASSUME RJInv, Crash PROVE Kept
  <1> USE TaskTypes, CommonMoves DEF RJInv
  <1>1. /\ UNCHANGED ledger /\ UNCHANGED <<pref, waiting, busy, owed>>
        /\ pc' = [t \in Tasks |-> "idle"] /\ at' = [t \in Tasks |-> NoCall]
    BY DEF Crash
  <1>2. DataOK'
    BY <1>1, BoundsAssumption DEF Crash, DataOK
  <1>3. TasksOK'
    BY <1>1 DEF TasksOK, Labels
  <1>4. Quiet
    BY <1>1 DEF Quiet, Committing, Waiting, Searching
  <1> QED
    BY <1>2, <1>3, <1>4, QuietKeeps

-----------------------------------------------------------------------------
(* Commands of the members: operations of the ledger that wait for the row *)
(* locks of a join about to commit.                                        *)

\* Such an operation changes one room, which no granted join has in hand,
\* and gives no granted user another room.
LEMMA CommandKeeps ==
  ASSUME RJInv, [Next]_ledger, DataOK', TasksOK', MembersActive',
         NEW r \in Rooms,
         \A q \in Rooms \ {r} :
           status'[q] = status[q] /\ capacity'[q] = capacity[q] /\ members'[q] = members[q],
         \A x \in {Bot, Sweep} : Committing(x) =>
           at[x].room # r /\ active'[at[x].user] = None,
         \A x \in {Bot, Sweep} : Committing(x)' => Committing(x) /\ at'[x] = at[x],
         pc'[Bot] \in {"idle", "fill:peek"},
         UNCHANGED <<waiting, busy>>
  PROVE  Kept
  <1>1. \A x \in {Bot, Sweep} : Committing(x) => at[x].room \in Rooms \ {r}
    BY TaskTypes DEF RJInv, TasksOK, Carry, Committing
  <1>2. Granted'
    BY <1>1 DEF RJInv, Grants, Granted, HasSpace
  <1>3. OneGrant'
    BY DEF RJInv, Grants, OneGrant
  <1>4. WaitersAreFree' /\ SearcherFree' /\ EntrantNotWaiting'
    BY DEF RJInv, Free, WaitersAreFree, SearcherFree, EntrantNotWaiting, Waiting, Searching
  <1> QED
    BY <1>2, <1>3, <1>4 DEF Kept, Grants, Free

\* A granted user and room are not the ones of a command that goes on.
LEMMA RowsFreeOthers ==
  ASSUME NEW u, NEW r, RowsFree(u, r), NEW x \in {Bot, Sweep}, Committing(x)
  PROVE  at[x].user # u /\ at[x].room # r
  BY DEF RowsFree

\* A new room has its owner for its only member.
LEMMA CreateRoomKeeps ==
  ASSUME RJInv, NEW u \in Users, NEW r \in Rooms, NEW c \in Requests, NEW p \in Prefs,
         CreateRoom(u, r, c, p)
  PROVE  Kept
  <1> USE TaskTypes, CommonMoves DEF RJInv
  <1> DEFINE d == [at[Bot] EXCEPT !.room = r]
  <1>1. /\ Create(u, r, c) /\ RowsFree(u, r)
        /\ pref' = [pref EXCEPT ![r] = p]
        /\ UNCHANGED <<waiting, busy, owed, crashes>>
    BY DEF CreateRoom
  <1>2. d \in Calls /\ d.room = r
    BY DEF Calls
  <1>3. Move(Bot, "fill:peek", d) /\ pc[Bot] = "idle"
    BY DEF CreateRoom, Step, Move
  <1> HIDE DEF d
  <1>4. LedgerTypeOK
    BY DEF LedgerInv
  <1>5. [Next]_ledger
    BY <1>1 DEF Next
  <1>6. DataOK'
    BY <1>1 DEF DataOK
  <1>7. TasksOK'
    <2>1. Carry("fill:peek", d) /\ "fill:peek" \in Labels
      BY <1>2 DEF Carry, Labels
    <2> QED
      BY <1>2, <1>3, <2>1, MoveTasks
  <1>8. active[u] = None /\ members' = [members EXCEPT ![r] = {u}]
        /\ active' = [active EXCEPT ![u] = r] /\ status' = [status EXCEPT ![r] = "open"]
        /\ capacity' = [capacity EXCEPT ![r] = Clamp(c)]
    BY <1>1 DEF Create, OpenNewRoom
  <1>9. MembersActive'
    BY <1>4, <1>8, NoneAssumption DEF Grants, MembersActive, LedgerTypeOK
  <1>10. \A x \in {Bot, Sweep} : Committing(x) =>
           at[x].room # r /\ active'[at[x].user] = None
    <2> SUFFICES ASSUME NEW x \in {Bot, Sweep}, Committing(x)
                 PROVE  at[x].room # r /\ active'[at[x].user] = None
      OBVIOUS
    <2>1. at[x].user # u /\ at[x].room # r
      BY <1>1, RowsFreeOthers
    <2>2. active[at[x].user] = None /\ at[x].user \in Users
      BY DEF Grants, Granted, TasksOK, Carry, Committing
    <2> QED
      BY <1>4, <1>8, <2>1, <2>2 DEF LedgerTypeOK
  <1>11. /\ pc'[Bot] = "fill:peek" /\ pc'[Sweep] = pc[Sweep] /\ at'[Sweep] = at[Sweep]
    BY <1>3, TasksAssumption DEF Move, TasksOK
  <1>12. \A x \in {Bot, Sweep} : Committing(x)' => Committing(x) /\ at'[x] = at[x]
    BY <1>11 DEF Committing
  <1>13. \A q \in Rooms \ {r} :
           status'[q] = status[q] /\ capacity'[q] = capacity[q] /\ members'[q] = members[q]
    BY <1>4, <1>8 DEF LedgerTypeOK
  <1> QED
    BY <1>1, <1>5, <1>6, <1>7, <1>9, <1>10, <1>11, <1>12, <1>13, CommandKeeps

\* Nobody else's seat is touched, and whoever is freed has no room left.
LEMMA DissolveEffect ==
  ASSUME LedgerTypeOK, MembersActive, NEW r \in Rooms, NEW freed, members[r] \subseteq freed,
         \A u \in freed : u \in Users => active[u] = r, Dissolve(r, freed)
  PROVE  /\ MembersActive'
         /\ \A q \in Rooms \ {r} :
              status'[q] = status[q] /\ capacity'[q] = capacity[q] /\ members'[q] = members[q]
         /\ \A v \in Users : active[v] = None => active'[v] = None
  <1>1. /\ status' = [status EXCEPT ![r] = "deleted"]
        /\ members' = [members EXCEPT ![r] = {}]
        /\ active' = [v \in Users |-> IF v \in freed THEN None ELSE active[v]]
        /\ UNCHANGED capacity
    BY DEF Dissolve
  <1>2. MembersActive'
    <2> SUFFICES ASSUME NEW q \in Rooms, NEW v \in members'[q] PROVE active'[v] = q
      BY DEF MembersActive
    <2>1. q # r /\ v \in members[q]
      BY <1>1 DEF LedgerTypeOK
    <2>2. v \in Users /\ active[v] = q
      BY <2>1 DEF MembersActive, LedgerTypeOK
    <2> QED
      BY <1>1, <2>1, <2>2
  <1> QED
    BY <1>1, <1>2 DEF LedgerTypeOK

\* A member goes: the seat, or the whole room, is freed.
LEMMA MemberGoesKeeps ==
  ASSUME RJInv, NEW u \in Users, MemberGoes(u)
  PROVE  Kept
  <1> USE TaskTypes, CommonMoves DEF RJInv
  <1> DEFINE r == active[u]
             d == [at[Bot] EXCEPT !.room = r]
  <1>1. /\ pc[Bot] = "idle" /\ r # None /\ RowsFree(u, r) /\ Depart(u, r)
        /\ UNCHANGED <<pref, waiting, busy, owed, crashes>>
        /\ \/ UNCHANGED <<pc, at>>
           \/ pc' = [pc EXCEPT ![Bot] = "fill:peek"] /\ at' = [at EXCEPT ![Bot].room = r]
    BY DEF MemberGoes
  <1>2. LedgerTypeOK /\ MembersActive
    BY DEF LedgerInv, Grants
  <1>3. r \in Rooms
    BY <1>1, <1>2 DEF LedgerTypeOK
  <1>4. d \in Calls /\ d.room = r
    BY <1>3 DEF Calls
  <1>5. \/ UNCHANGED <<pc, at>>
        \/ Move(Bot, "fill:peek", d)
    BY <1>1 DEF Move
  <1> HIDE DEF d
  <1>6. TasksOK' /\ pc'[Bot] \in {"idle", "fill:peek"}
        /\ \A x \in {Bot, Sweep} : Committing(x)' => Committing(x) /\ at'[x] = at[x]
    <2>1. CASE UNCHANGED <<pc, at>>
      BY <1>1, <2>1 DEF TasksOK, Committing
    <2>2. CASE Move(Bot, "fill:peek", d)
      <3>1. Carry("fill:peek", d) /\ "fill:peek" \in Labels
        BY <1>3, <1>4 DEF Carry, Labels
      <3>2. TasksOK'
        BY <1>4, <2>2, <3>1, MoveTasks
      <3>3. pc'[Bot] = "fill:peek" /\ pc'[Sweep] = pc[Sweep] /\ at'[Sweep] = at[Sweep]
        BY <2>2, TasksAssumption DEF Move, TasksOK
      <3> QED
        BY <3>2, <3>3 DEF Committing
    <2> QED
      BY <1>5, <2>1, <2>2
  <1>7. DataOK'
    BY <1>1, DataSame
  <1>8. [Next]_ledger
    BY <1>1, <1>3 DEF Next
  <1>9. /\ MembersActive'
        /\ \A q \in Rooms \ {r} :
             status'[q] = status[q] /\ capacity'[q] = capacity[q] /\ members'[q] = members[q]
        /\ \A v \in Users : active[v] = None => active'[v] = None
    <2>1. CASE Dissolve(r, (members[r] \ {u}) \cup {u})
      <3>1. \A v \in (members[r] \ {u}) \cup {u} : v \in Users => active[v] = r
        BY <1>2, <1>3 DEF MembersActive
      <3>2. members[r] \subseteq (members[r] \ {u}) \cup {u}
        OBVIOUS
      <3> HIDE DEF r
      <3> QED
        BY <1>2, <1>3, <2>1, <3>1, <3>2, DissolveEffect
    <2>2. CASE /\ ~ (Cardinality(members[r] \ {u}) <= 1)
               /\ RemoveMember(u, r, members[r] \ {u}, "deleted")
      <3>1. /\ status' = status /\ capacity' = capacity
            /\ members' = [members EXCEPT ![r] = @ \ {u}]
            /\ active' = [active EXCEPT ![u] = None]
        BY <1>2, <1>3, <2>2 DEF RemoveMember, LedgerTypeOK
      <3>2. MembersActive'
        <4> SUFFICES ASSUME NEW q \in Rooms, NEW v \in members'[q] PROVE active'[v] = q
          BY DEF MembersActive
        <4>1. v \in members[q] /\ v # u
          BY <1>2, <1>3, <3>1 DEF MembersActive, LedgerTypeOK
        <4> QED
          BY <1>2, <3>1, <4>1 DEF MembersActive, LedgerTypeOK
      <3> QED
        BY <1>2, <1>3, <3>1, <3>2 DEF LedgerTypeOK
    <2> QED
      BY <1>1, <2>1, <2>2 DEF Depart, DepartAs
  <1>10. \A x \in {Bot, Sweep} : Committing(x) =>
           at[x].room # r /\ active'[at[x].user] = None
    BY <1>1, <1>9, RowsFreeOthers DEF Grants, Granted, TasksOK, Carry, Committing
  <1> HIDE DEF r
  <1> QED
    BY <1>1, <1>3, <1>6, <1>7, <1>8, <1>9, <1>10, CommandKeeps

\* A deleted room lets its members go.
LEMMA DeleteRoomKeeps ==
  ASSUME RJInv, NEW r \in Rooms, DeleteRoom(r)
  PROVE  Kept
  <1> USE TaskTypes DEF RJInv
  <1>1. /\ pc[Bot] = "idle" /\ Delete(r) /\ RowsFree(owner[r], r)
        /\ UNCHANGED <<pref, waiting, busy, owed, pc, at, crashes>>
    BY DEF DeleteRoom
  <1>2. LedgerTypeOK /\ MembersActive
    BY DEF LedgerInv, Grants
  <1>3. /\ MembersActive'
        /\ \A q \in Rooms \ {r} :
             status'[q] = status[q] /\ capacity'[q] = capacity[q] /\ members'[q] = members[q]
        /\ \A v \in Users : active[v] = None => active'[v] = None
    BY <1>1, <1>2, DissolveEffect DEF Delete, MembersActive
  <1>4. \A x \in {Bot, Sweep} : Committing(x) =>
          at[x].room # r /\ active'[at[x].user] = None
    BY <1>1, <1>3, RowsFreeOthers DEF Grants, Granted, TasksOK, Carry, Committing
  <1>5. DataOK' /\ TasksOK' /\ [Next]_ledger
        /\ \A x \in {Bot, Sweep} : Committing(x)' => Committing(x) /\ at'[x] = at[x]
    BY <1>1, DataSame DEF TasksOK, Next, Committing
  <1> QED
    BY <1>1, <1>3, <1>4, <1>5, CommandKeeps

\* Opening and closing touch no member, and not the rows of a grant.
LEMMA SetRoomStatusKeeps ==
  ASSUME RJInv, NEW r \in Rooms, NEW s \in {"open", "closed"}, SetRoomStatus(r, s)
  PROVE  Kept
  <1> USE TaskTypes DEF RJInv
  <1>1. /\ pc[Bot] = "idle" /\ SetOpen(r, s) /\ RowsFree(owner[r], r)
        /\ UNCHANGED <<pref, waiting, busy, owed, pc, at, crashes>>
    BY DEF SetRoomStatus
  <1>2. LedgerTypeOK /\ MembersActive
    BY DEF LedgerInv, Grants
  <1>3. status' = [status EXCEPT ![r] = s] /\ UNCHANGED <<capacity, members, active>>
    BY <1>1 DEF SetOpen, SetStatus
  <1>4. /\ MembersActive'
        /\ \A q \in Rooms \ {r} :
             status'[q] = status[q] /\ capacity'[q] = capacity[q] /\ members'[q] = members[q]
    BY <1>2, <1>3 DEF MembersActive, LedgerTypeOK
  <1>5. \A x \in {Bot, Sweep} : Committing(x) =>
          at[x].room # r /\ active'[at[x].user] = None
    BY <1>1, <1>3, RowsFreeOthers DEF Grants, Granted
  <1>6. DataOK' /\ TasksOK' /\ [Next]_ledger
        /\ \A x \in {Bot, Sweep} : Committing(x)' => Committing(x) /\ at'[x] = at[x]
    BY <1>1, DataSame DEF TasksOK, Next, Committing
  <1> QED
    BY <1>1, <1>4, <1>5, <1>6, CommandKeeps

-----------------------------------------------------------------------------
(* The theorems. *)

\* It holds at the start.
LEMMA InitKeeps == RJInit => RJInv
  <1> SUFFICES ASSUME RJInit PROVE RJInv
    OBVIOUS
  <1> USE TaskTypes DEF RJInit
  <1>1. LedgerInv
    BY InitLedger
  <1>2. DataOK
    BY BoundsAssumption DEF DataOK
  <1>3. TasksOK
    BY DEF TasksOK, NoCall, Calls, Labels, Carry
  <1>4. Grants
    BY DEF Init, Grants, MembersActive, Granted, OneGrant, Committing
  <1>5. Free
    BY DEF Free, WaitersAreFree, SearcherFree, EntrantNotWaiting, Searching, Waiting, Contains
  <1> QED
    BY <1>1, <1>2, <1>3, <1>4, <1>5 DEF RJInv

\* Every step of the search, its jobs and the sweep keeps the invariant and is
\* an operation of the ledger or leaves it alone.
LEMMA StepKeeps == RJInv /\ [RJNext]_vars => RJInv' /\ [Next]_ledger
  <1> SUFFICES ASSUME RJInv, [RJNext]_vars PROVE RJInv' /\ [Next]_ledger
    OBVIOUS
  <1>1. Kept => RJInv' /\ [Next]_ledger
    BY NextKeeps DEF Kept, RJInv
  <1>2. CASE Update
    <2>1. ASSUME NEW u \in Users, NEW w \in Wishes, Search(u, w) \/ Cancel(u, w)
          PROVE  Kept
      BY <2>1, SearchKeeps, CancelKeeps
    <2>2. ASSUME NEW u \in Users, NEW r \in Rooms, NEW c \in Requests, NEW p \in Prefs,
                 CreateRoom(u, r, c, p)
          PROVE  Kept
      BY <2>2, CreateRoomKeeps
    <2>3. ASSUME NEW u \in Users, MemberGoes(u) \/ BeginChat(u)
          PROVE  Kept
      BY <2>3, MemberGoesKeeps, BeginChatKeeps
    <2>4. ASSUME NEW r \in Rooms,
                 DeleteRoom(r) \/ SetRoomStatus(r, "open") \/ SetRoomStatus(r, "closed")
          PROVE  Kept
      BY <2>4, DeleteRoomKeeps, SetRoomStatusKeeps
    <2> QED
      BY <1>1, <1>2, <2>1, <2>2, <2>3, <2>4 DEF Update
  <1>3. CASE Continue
    <2>1. CASE FindRoom \/ SearchJoin \/ SearchEnd \/ Enqueue \/ Schedule
      BY <2>1, <1>1, FindRoomKeeps, SearchJoinKeeps, SearchEndKeeps, EnqueueKeeps,
         ScheduleKeeps
    <2>2. CASE CancelDequeue \/ CancelRefund \/ AskQueue \/ EnterChat
      BY <2>2, <1>1, CancelDequeueKeeps, CancelRefundKeeps, AskQueueKeeps, EnterChatKeeps
    <2>3. CASE Fill(Bot)
      BY <2>3, <1>1, FillKeeps
    <2> QED
      BY <1>3, <2>1, <2>2, <2>3 DEF Continue
  <1>4. ASSUME NEW t \in Timers, Timeout(t)
        PROVE  Kept
    BY <1>4, TimeoutKeeps
  <1>5. CASE Sweeping
    BY <1>1, <1>5, SweepKeeps
  <1>6. ASSUME NEW u \in Users, LeaveChat(u)
        PROVE  Kept
    BY <1>6, LeaveChatKeeps
  <1>7. CASE Crash
    BY <1>1, <1>7, CrashKeeps
  <1>8. CASE UNCHANGED vars
    <2>1. UNCHANGED ledger /\ UNCHANGED <<pref, waiting, busy, owed, pc, at, crashes>>
      BY <1>8 DEF vars
    <2>2. DataOK' /\ TasksOK'
      BY <2>1 DEF RJInv, DataOK, TasksOK
    <2>3. Quiet
      BY <2>1 DEF Quiet, Committing, Waiting
    <2> QED
      BY <1>1, <2>2, <2>3, QuietKeeps
  <1> QED
    BY <1>1, <1>2, <1>3, <1>4, <1>5, <1>6, <1>7, <1>8 DEF RJNext

\* The inductive invariant.
THEOREM SearchCorrect == RJSpec => []RJInv
  BY InitKeeps, StepKeeps, PTL DEF RJSpec

\* The room search, with everything that may come between its awaits, does to
\* the rooms what the indivisible operations of the ledger do.
THEOREM SearchImplementsLedger == RJSpec => ImplementsLedger
  <1>1. RJInit => Init
    BY DEF RJInit
  <1> QED
    BY <1>1, StepKeeps, SearchCorrect, PTL DEF RJSpec, ImplementsLedger, Spec

\* Who waits for a room is in no 1:1 chat and in no queue for one.
THEOREM WaitersAlwaysFree == RJSpec => []WaitersAreFree
  <1>1. RJInv => WaitersAreFree
    BY DEF RJInv, Free
  <1> QED
    BY <1>1, SearchCorrect, PTL

\* Type correctness.
THEOREM SearchTypesAlwaysOK == RJSpec => []TypeOK
  <1>1. RJInv => TypeOK
    BY DEF RJInv, LedgerInv, DataOK, TasksOK, TypeOK
  <1> QED
    BY <1>1, SearchCorrect, PTL

\* A searcher's seat is a seat: the room of an active_room_id is live and has
\* the user's member row, and no room is over its capacity.
THEOREM SearchKeepsRooms == RJSpec => [](ActiveIsMember /\ CapacityRespected)
  <1>1. RJInv => ActiveIsMember /\ CapacityRespected
    BY DEF RJInv, LedgerInv
  <1> QED
    BY <1>1, SearchCorrect, PTL
=============================================================================

-------------------------- MODULE ChatRequestsProofs --------------------------
(***************************************************************************)
(* For any users, requests, limit and number of crashes: nobody has more   *)
(* requests than the limit and those that a crash has left uncounted, a    *)
(* request is answered once, and an accepted one makes a pair of two who   *)
(* are free.                                                               *)
(*                                                                         *)
(* All of it rests on what a handler has read before an await and is still *)
(* so when it acts, for only handlers, one at a time, answer requests and  *)
(* put users in chats (InHand, Free); the expiry job, which runs between   *)
(* any two steps, only takes requests away.                                *)
(***************************************************************************)
EXTENDS ChatRequests, FiniteSetTheorems, TLAPS

Drawn(r) == r \in Requests /\ parties[r] # None

Creating == {"zadd", "sadd"}
Clearing == {"clear:get", "clear:del", "clear:zrem", "clear:srem"}
Accepting == {"accept", "busy", "dequeue", "pair:user", "pair:other", "session"}
Rejecting == {"reject", "refund"}

\* What the handler, and the run of the job, are about.
InHand ==
  /\ pc # "idle" => call.user \in Users /\ call.other \in Users /\ call.user # call.other
  /\ pc \in Creating \cup {"notify"} \cup Clearing \cup Accepting \cup Rejecting => Drawn(call.id)
  /\ pc \in Accepting => call.command = "accept"
  /\ pc \in Rejecting => call.command = "reject"
  /\ pc \in Clearing => call.command \in {"accept", "reject"}
  /\ pc \in Creating => parties[call.id].from = call.user
  /\ job.at \in {"del", "zrem", "srem"} => Drawn(job.id)
  /\ \A r \in job.todo : Drawn(r)

\* The keys and the messages are of requests that have been made.
KeysDrawn ==
  \A r \in Requests :
    /\ r \in open \cup pending \cup counted => Drawn(r)
    /\ shown[r] # "nothing" => Drawn(r)
    /\ parties[r] # None => parties[r].from # parties[r].to
    /\ parties[r] = None => answers[r] = 0

\* What has been answered cannot be read again: the handler that is about to
\* answer has deleted what it has read.
Unanswered ==
  /\ \A r \in open : answers[r] = 0
  /\ pc \in {"busy", "dequeue", "pair:user"} => answers[call.id] = 0
  /\ pc \in Clearing \cup {"refund"} /\ (call.command = "accept" \/ call.free) => answers[call.id] = 0
  /\ pc \in {"clear:zrem", "clear:srem", "dequeue", "pair:user", "refund"} => call.id \notin open
  /\ AnsweredOnce

\* The ids that a target could accept and that do not count.
Uncounted == (open \ counted) \ (IF pc \in Creating THEN {call.id} ELSE {})

\* A creation passed the count with a place to spare, and still has it.
Counts ==
  /\ \A u \in Users : Cardinality(counted \cap RequestsOf(u)) <= MaxActive
  /\ pc \in {"ask", "deduct", "set"} \cup Creating =>
       Cardinality(counted \cap RequestsOf(call.user)) < MaxActive
  /\ pc \in Creating => call.id \notin counted
  /\ Cardinality(Uncounted) <= crashes
  /\ job.at \in {"zrem", "srem"} => job.id \notin open

\* The two whom an accept has found free are free until it pairs them.
Free ==
  /\ pc \in {"dequeue", "pair:user"} \/ (pc \in Clearing /\ call.command = "accept" /\ call.free) =>
       \A u \in {call.user, call.other} : u \notin waiting \cup rooms /\ partner[u] = None
  /\ pc = "pair:other" =>
       /\ partner[call.user] = call.other /\ partner[call.other] = None
       /\ call.user \notin waiting /\ call.other \notin waiting
  /\ pc = "session" => partner[call.user] = call.other /\ partner[call.other] = call.user

\* PairsAreWhole, and what is missing while a pair is being made.
Whole ==
  crashes = 0 =>
    \A u \in Users : partner[u] # None =>
      /\ partner[u] # u /\ u \notin waiting
      /\ partner[partner[u]] = u \/ (pc = "pair:other" /\ u = call.user)
      /\ \/ {u, partner[u]} \in sessions
         \/ pc \in {"pair:other", "session"} /\ u \in {call.user, call.other}

CInv == TypeOK /\ InHand /\ KeysDrawn /\ Unanswered /\ Counts /\ Free /\ Whole

LEMMA InitCInv == ASSUME Init PROVE CInv
  <1> USE ChatRequestsAssumption DEF Init
  <1>1. TypeOK
    BY DEF TypeOK, KeyTypes, OtherTypes, Labels, Calls, Jobs, Commands, Shown, NoCall, NoJob
  <1>2. InHand /\ KeysDrawn
    BY DEF InHand, KeysDrawn, Drawn, Creating, Clearing, Accepting, Rejecting, NoJob
  <1>3. Unanswered /\ Free /\ Whole
    BY DEF Unanswered, AnsweredOnce, Free, Whole, Clearing
  <1>4. Counts
    <2>1. Uncounted = {} /\ \A u \in Users : counted \cap RequestsOf(u) = {}
      BY DEF Uncounted
    <2> QED
      BY <2>1, FS_EmptySet DEF Counts, Creating, NoJob
  <1> QED
    BY <1>1, <1>2, <1>3, <1>4 DEF CInv

-----------------------------------------------------------------------------
(* What a handler has in hand. *)

LEMMA CallsChange ==
  ASSUME NEW c \in Calls
  PROVE  /\ NoCall \in Calls
         /\ \A b \in BOOLEAN : [c EXCEPT !.data = b] \in Calls /\ [c EXCEPT !.free = b] \in Calls
         /\ \A r \in Requests : [c EXCEPT !.id = r] \in Calls
  BY DEF Calls, Commands, NoCall

LEMMA AnswerCall ==
  ASSUME NEW command \in Commands, NEW r \in Requests, NEW u \in Users, NEW v \in Users
  PROVE  [NoCall EXCEPT !.command = command, !.id = r, !.user = u, !.other = v] \in Calls
  BY DEF Calls, Commands, NoCall

LEMMA ButtonCall ==
  ASSUME NEW u \in Users, NEW v \in Users
  PROVE  [NoCall EXCEPT !.user = u, !.other = v] \in Calls
  BY DEF Calls, Commands, NoCall

LEMMA JobTakes ==
  ASSUME NEW j \in Jobs, NEW r \in Requests, NEW b \in BOOLEAN, NEW S \in SUBSET Requests
  PROVE  /\ [j EXCEPT !.at = "get", !.todo = S] \in Jobs
         /\ [j EXCEPT !.at = "del", !.todo = S, !.id = r, !.data = b] \in Jobs
         /\ [NoJob EXCEPT !.at = "get", !.todo = j.todo, !.refunds = S] \in Jobs
         /\ [j EXCEPT !.at = "zrem"] \in Jobs /\ [j EXCEPT !.at = "srem"] \in Jobs
  BY DEF Jobs, NoJob

LEMMA JobPays ==
  ASSUME NEW j \in Jobs, NEW S \in SUBSET Requests
  PROVE  [j EXCEPT !.refunds = S] \in Jobs
  BY DEF Jobs

LEMMA JobHolds ==
  ASSUME NEW j \in Jobs
  PROVE  NoJob \in Jobs /\ j.todo \subseteq Requests /\ j.refunds \subseteq Requests
  BY DEF Jobs, NoJob

\* The steps that keep what they have read, each under a condition.
LEMMA Readings ==
  ASSUME CInv, ClearGet \/ AcceptBusy \/ RejectGet
  PROVE  /\ call' \in Calls
         /\ call'.command = call.command /\ call'.id = call.id
         /\ call'.user = call.user /\ call'.other = call.other
         /\ ClearGet => call'.free = call.free /\ (call.id \in open => call'.data)
         /\ AcceptBusy => (call'.free => /\ call.user \notin waiting \cup rooms /\ partner[call.user] = None
                                         /\ call.other \notin waiting \cup rooms /\ partner[call.other] = None)
         /\ RejectGet => (call'.free => call.id \in open)
  <1> call \in Calls
    BY DEF CInv, TypeOK
  <1>1. CASE ClearGet
    <2> DEFINE found == call.id \in open
    <2>1. ClearGet /\ ~AcceptBusy /\ ~RejectGet
      BY <1>1 DEF ClearGet, AcceptBusy, RejectGet
    <2>2. call' = [call EXCEPT !.data = found]
      BY <1>1 DEF ClearGet, Goto
    <2>5. found \in BOOLEAN
      OBVIOUS
    <2> HIDE DEF found
    <2>3. CASE found
      <3>1. call' = [call EXCEPT !.data = TRUE]
        BY <2>2, <2>3, <2>5
      <3> QED
        BY <2>1, <2>3, <3>1, CallsChange DEF Calls, found
    <2>4. CASE ~found
      <3>1. call' = [call EXCEPT !.data = FALSE]
        BY <2>2, <2>4, <2>5
      <3> QED
        BY <2>1, <2>4, <3>1, CallsChange DEF Calls, found
    <2> QED
      BY <2>3, <2>4
  <1>2. CASE AcceptBusy
    <2> DEFINE both == {call.user, call.other}
               allFree == \A u \in both : u \notin waiting \cup rooms /\ partner[u] = None
    <2>1. AcceptBusy /\ ~ClearGet /\ ~RejectGet
      BY <1>2 DEF ClearGet, AcceptBusy, RejectGet
    <2>2. call' = [call EXCEPT !.free = allFree]
      BY <1>2 DEF AcceptBusy, AcceptGo
    <2>5. allFree \in BOOLEAN
      OBVIOUS
    <2> HIDE DEF allFree
    <2>3. CASE allFree
      <3>1. call' = [call EXCEPT !.free = TRUE]
        BY <2>2, <2>3, <2>5
      <3> QED
        BY <2>1, <2>3, <3>1, CallsChange DEF Calls, allFree
    <2>4. CASE ~allFree
      <3>1. call' = [call EXCEPT !.free = FALSE]
        BY <2>2, <2>4, <2>5
      <3> QED
        BY <2>1, <2>4, <3>1, CallsChange DEF Calls, allFree
    <2> QED
      BY <2>3, <2>4
  <1>3. CASE RejectGet
    <2> DEFINE found == call.id \in open
    <2>1. RejectGet /\ ~ClearGet /\ ~AcceptBusy
      BY <1>3 DEF ClearGet, AcceptBusy, RejectGet
    <2>2. call' = [call EXCEPT !.free = found]
      BY <1>3 DEF RejectGet, AcceptGo
    <2>5. found \in BOOLEAN
      OBVIOUS
    <2> HIDE DEF found
    <2>3. CASE found
      <3>1. call' = [call EXCEPT !.free = TRUE]
        BY <2>2, <2>3, <2>5
      <3> QED
        BY <2>1, <2>3, <3>1, CallsChange DEF Calls, found
    <2>4. CASE ~found
      <3>1. call' = [call EXCEPT !.free = FALSE]
        BY <2>2, <2>4, <2>5
      <3> QED
        BY <2>1, <2>4, <3>1, CallsChange DEF Calls, found
    <2> QED
      BY <2>3, <2>4
  <1> QED
    BY <1>1, <1>2, <1>3

\* The expiry job takes requests away, and does nothing else that a handler reads.
LEMMA ExpiryOnlyTakes ==
  ASSUME Expire
  PROVE  /\ UNCHANGED <<pc, call, parties, shown, answers>>
         /\ open' \subseteq open /\ pending' \subseteq pending /\ counted' \subseteq counted
  BY DEF Expire, ExpireScan, ExpireGet, ExpireDel, ExpireZrem, ExpireSrem, ExpireRefund, keys,
         history, chats

-----------------------------------------------------------------------------
(* Each part of the invariant is kept by every step. *)

\* The keys of redis.
LEMMA KeyTypesKeep ==
  ASSUME CInv, [Next]_vars
  PROVE  KeyTypes'
  <1> USE DEF CInv, TypeOK, keys, history, chats, Goto, KeyTypes, Shown, Calls, InHand, Drawn,
          Creating, Clearing, Accepting
  <1>1. ASSUME NEW u \in Users, NEW v \in Users, Button(u, v), UNCHANGED <<job, crashes>>
        PROVE  KeyTypes'
    BY <1>1
       DEF Button
  <1>2. ASSUME NEW r \in Requests, View(r), UNCHANGED <<job, crashes>>
        PROVE  KeyTypes'
    BY <1>2
       DEF View
  <1>3. ASSUME NEW r \in Requests, NEW command \in {"accept", "reject"}, Answer(r, command),
               UNCHANGED <<job, crashes>>
        PROVE  KeyTypes'
    BY <1>3
       DEF Answer
  <1>4. ASSUME CountActive \/ Ask \/ AcceptGet, UNCHANGED <<job, crashes>>
        PROVE  KeyTypes'
    BY <1>4
       DEF CountActive, Ask, AcceptGet, Require, Done
  <1>5. ASSUME ClearGet \/ AcceptBusy \/ RejectGet, UNCHANGED <<job, crashes>>
        PROVE  KeyTypes'
    BY <1>5
       DEF ClearGet, AcceptBusy, RejectGet, AcceptGo
  <1>6. ASSUME Deduct \/ Create \/ Notify, UNCHANGED <<job, crashes>>
        PROVE  KeyTypes'
    BY <1>6
       DEF Deduct, Create, Notify, Done
  <1>7. ASSUME ClearDel \/ ClearZrem \/ ClearSrem, UNCHANGED <<job, crashes>>
        PROVE  KeyTypes'
    BY <1>7
       DEF ClearDel, ClearZrem, ClearSrem, AfterClear, Done
  <1>8. ASSUME AcceptDequeue \/ AcceptPair \/ AcceptSession, UNCHANGED <<job, crashes>>
        PROVE  KeyTypes'
    BY <1>8
       DEF AcceptDequeue, AcceptPair, AcceptSession, Done
  <1>9. ASSUME RejectRefund, UNCHANGED <<job, crashes>>
        PROVE  KeyTypes'
    BY <1>9
       DEF RejectRefund, Done
  <1>10. ASSUME Expire, UNCHANGED crashes
        PROVE  KeyTypes'
    BY <1>10
       DEF Expire, ExpireScan, Overdue, ExpireGet, ExpireDel, ExpireZrem, ExpireSrem,
           ExpireRefund, NextExpired
  <1>11. ASSUME OtherHandlers
        PROVE  KeyTypes'
    BY <1>11
       DEF OtherHandlers, Chat, Stop, Enter, Leave, Elsewhere
  <1>12. ASSUME Crash
        PROVE  KeyTypes'
    BY <1>12
       DEF Crash
  <1>13. ASSUME UNCHANGED vars
        PROVE  KeyTypes'
    BY <1>13
       DEF vars
  <1> QED
    BY <1>1, <1>2, <1>3, <1>4, <1>5, <1>6, <1>7, <1>8, <1>9, <1>10, <1>11, <1>12, <1>13
       DEF Next, Update, Handle

\* Answers, coins and chats.
LEMMA OtherTypesKeep ==
  ASSUME CInv, [Next]_vars
  PROVE  OtherTypes'
  <1> USE DEF CInv, TypeOK, keys, history, chats, Goto, KeyTypes, OtherTypes, InHand, Accepting,
          Calls, Count, Pay
  <1>1. ASSUME NEW u \in Users, NEW v \in Users, Button(u, v), UNCHANGED <<job, crashes>>
        PROVE  OtherTypes'
    BY <1>1
       DEF Button
  <1>2. ASSUME NEW r \in Requests, View(r), UNCHANGED <<job, crashes>>
        PROVE  OtherTypes'
    BY <1>2
       DEF View
  <1>3. ASSUME NEW r \in Requests, NEW command \in {"accept", "reject"}, Answer(r, command),
               UNCHANGED <<job, crashes>>
        PROVE  OtherTypes'
    BY <1>3
       DEF Answer
  <1>4. ASSUME CountActive \/ Ask \/ AcceptGet, UNCHANGED <<job, crashes>>
        PROVE  OtherTypes'
    BY <1>4
       DEF CountActive, Ask, AcceptGet, Require, Done
  <1>5. ASSUME ClearGet \/ AcceptBusy \/ RejectGet, UNCHANGED <<job, crashes>>
        PROVE  OtherTypes'
    BY <1>5
       DEF ClearGet, AcceptBusy, RejectGet, AcceptGo
  <1>6. ASSUME Deduct \/ Create \/ Notify, UNCHANGED <<job, crashes>>
        PROVE  OtherTypes'
    BY <1>6
       DEF Deduct, Create, Notify, Done
  <1>7. ASSUME ClearDel \/ ClearZrem \/ ClearSrem, UNCHANGED <<job, crashes>>
        PROVE  OtherTypes'
    BY <1>7
       DEF ClearDel, ClearZrem, ClearSrem, AfterClear, Done
  <1>8. ASSUME AcceptDequeue \/ AcceptPair \/ AcceptSession, UNCHANGED <<job, crashes>>
        PROVE  OtherTypes'
    BY <1>8
       DEF AcceptDequeue, AcceptPair, AcceptSession, Done
  <1>9. ASSUME RejectRefund, UNCHANGED <<job, crashes>>
        PROVE  OtherTypes'
    BY <1>9
       DEF RejectRefund, Done
  <1>10. ASSUME Expire, UNCHANGED crashes
        PROVE  OtherTypes'
    <2>1. CASE ExpireScan \/ ExpireGet \/ ExpireDel \/ ExpireZrem \/ ExpireSrem
      BY <1>10, <2>1
         DEF ExpireScan, Overdue, ExpireGet, ExpireDel, ExpireZrem, NextExpired, ExpireSrem,
             NextExpired, Expire
    <2>2. CASE ExpireRefund
      BY <1>10, <2>2
         DEF ExpireRefund, Expire
    <2> QED
      BY <1>10, <2>1, <2>2 DEF Expire
  <1>11. ASSUME OtherHandlers
        PROVE  OtherTypes'
    BY <1>11
       DEF OtherHandlers, Chat, Stop, Enter, Leave, Elsewhere
  <1>12. ASSUME Crash
        PROVE  OtherTypes'
    BY <1>12
       DEF Crash
  <1>13. ASSUME UNCHANGED vars
        PROVE  OtherTypes'
    BY <1>13
       DEF vars
  <1> QED
    BY <1>1, <1>2, <1>3, <1>4, <1>5, <1>6, <1>7, <1>8, <1>9, <1>10, <1>11, <1>12, <1>13
       DEF Next, Update, Handle

\* The handler.
LEMMA CallTypeKeeps ==
  ASSUME CInv, [Next]_vars
  PROVE  (pc \in Labels /\ call \in Calls)'
  <1> USE CallsChange DEF CInv, TypeOK, keys, history, chats, Goto, Labels
  <1>1. ASSUME NEW u \in Users, NEW v \in Users, Button(u, v), UNCHANGED <<job, crashes>>
        PROVE  (pc \in Labels /\ call \in Calls)'
    <2>1. pc' = "count" /\ call' \in Calls
      BY <1>1, ButtonCall DEF Button
    <2> QED
      BY <2>1
  <1>2. ASSUME NEW r \in Requests, View(r), UNCHANGED <<job, crashes>>
        PROVE  (pc \in Labels /\ call \in Calls)'
    BY <1>2
       DEF View
  <1>3. ASSUME NEW r \in Requests, NEW command \in {"accept", "reject"}, Answer(r, command),
               UNCHANGED <<job, crashes>>
        PROVE  (pc \in Labels /\ call \in Calls)'
    <2>1. parties[r] \in [from : Users, to : Users]
      BY <1>3 DEF Answer, KeysDrawn, Drawn, KeyTypes
    <2> QED
      BY <1>3, <2>1, AnswerCall DEF Answer, Commands
  <1>4. ASSUME CountActive \/ Ask \/ AcceptGet, UNCHANGED <<job, crashes>>
        PROVE  (pc \in Labels /\ call \in Calls)'
    BY <1>4
       DEF CountActive, Ask, AcceptGet, Require, Done
  <1>5. ASSUME ClearGet \/ AcceptBusy \/ RejectGet, UNCHANGED <<job, crashes>>
        PROVE  (pc \in Labels /\ call \in Calls)'
    BY <1>5, Readings DEF ClearGet, AcceptBusy, RejectGet, AcceptGo
  <1>6. ASSUME Deduct \/ Create \/ Notify, UNCHANGED <<job, crashes>>
        PROVE  (pc \in Labels /\ call \in Calls)'
    BY <1>6
       DEF Deduct, Create, Notify, Done
  <1>7. ASSUME ClearDel \/ ClearZrem \/ ClearSrem, UNCHANGED <<job, crashes>>
        PROVE  (pc \in Labels /\ call \in Calls)'
    BY <1>7
       DEF ClearDel, ClearZrem, ClearSrem, AfterClear, Done
  <1>8. ASSUME AcceptDequeue \/ AcceptPair \/ AcceptSession, UNCHANGED <<job, crashes>>
        PROVE  (pc \in Labels /\ call \in Calls)'
    BY <1>8
       DEF AcceptDequeue, AcceptPair, AcceptSession, Done
  <1>9. ASSUME RejectRefund, UNCHANGED <<job, crashes>>
        PROVE  (pc \in Labels /\ call \in Calls)'
    BY <1>9
       DEF RejectRefund, Done
  <1>10. ASSUME Expire, UNCHANGED crashes
        PROVE  (pc \in Labels /\ call \in Calls)'
    BY <1>10 DEF Expire
  <1>11. ASSUME OtherHandlers
        PROVE  (pc \in Labels /\ call \in Calls)'
    BY <1>11
       DEF OtherHandlers, Chat, Stop, Enter, Leave, Elsewhere
  <1>12. ASSUME Crash
        PROVE  (pc \in Labels /\ call \in Calls)'
    BY <1>12
       DEF Crash
  <1>13. ASSUME UNCHANGED vars
        PROVE  (pc \in Labels /\ call \in Calls)'
    BY <1>13
       DEF vars
  <1> QED
    BY <1>1, <1>2, <1>3, <1>4, <1>5, <1>6, <1>7, <1>8, <1>9, <1>10, <1>11, <1>12, <1>13
       DEF Next, Update, Handle

\* The run of the job.
LEMMA JobTypeKeeps ==
  ASSUME CInv, [Next]_vars
  PROVE  (job \in Jobs /\ crashes \in 0 .. Crashes)'
  <1> USE DEF CInv, TypeOK, keys, history, chats, Goto, KeyTypes
  <1>1. ASSUME NEW u \in Users, NEW v \in Users, Button(u, v), UNCHANGED <<job, crashes>>
        PROVE  (job \in Jobs /\ crashes \in 0 .. Crashes)'
    BY <1>1
       DEF Button
  <1>2. ASSUME NEW r \in Requests, View(r), UNCHANGED <<job, crashes>>
        PROVE  (job \in Jobs /\ crashes \in 0 .. Crashes)'
    BY <1>2
       DEF View
  <1>3. ASSUME NEW r \in Requests, NEW command \in {"accept", "reject"}, Answer(r, command),
               UNCHANGED <<job, crashes>>
        PROVE  (job \in Jobs /\ crashes \in 0 .. Crashes)'
    BY <1>3
       DEF Answer
  <1>4. ASSUME CountActive \/ Ask \/ AcceptGet, UNCHANGED <<job, crashes>>
        PROVE  (job \in Jobs /\ crashes \in 0 .. Crashes)'
    BY <1>4
       DEF CountActive, Ask, AcceptGet, Require, Done
  <1>5. ASSUME ClearGet \/ AcceptBusy \/ RejectGet, UNCHANGED <<job, crashes>>
        PROVE  (job \in Jobs /\ crashes \in 0 .. Crashes)'
    BY <1>5
       DEF ClearGet, AcceptBusy, RejectGet, AcceptGo
  <1>6. ASSUME Deduct \/ Create \/ Notify, UNCHANGED <<job, crashes>>
        PROVE  (job \in Jobs /\ crashes \in 0 .. Crashes)'
    BY <1>6
       DEF Deduct, Create, Notify, Done
  <1>7. ASSUME ClearDel \/ ClearZrem \/ ClearSrem, UNCHANGED <<job, crashes>>
        PROVE  (job \in Jobs /\ crashes \in 0 .. Crashes)'
    BY <1>7
       DEF ClearDel, ClearZrem, ClearSrem, AfterClear, Done
  <1>8. ASSUME AcceptDequeue \/ AcceptPair \/ AcceptSession, UNCHANGED <<job, crashes>>
        PROVE  (job \in Jobs /\ crashes \in 0 .. Crashes)'
    BY <1>8
       DEF AcceptDequeue, AcceptPair, AcceptSession, Done
  <1>9. ASSUME RejectRefund, UNCHANGED <<job, crashes>>
        PROVE  (job \in Jobs /\ crashes \in 0 .. Crashes)'
    BY <1>9
       DEF RejectRefund, Done
  <1>10. ASSUME Expire, UNCHANGED crashes
        PROVE  (job \in Jobs /\ crashes \in 0 .. Crashes)'
    <2> UNCHANGED crashes
      BY <1>10
    <2>1. CASE ExpireScan
      <3>1. PICK overdue \in SUBSET Overdue : job' = [job EXCEPT !.at = "get", !.todo = overdue]
        BY <2>1 DEF ExpireScan
      <3>2. overdue \in SUBSET Requests /\ TRUE \in BOOLEAN
        BY DEF Overdue
      <3>3. [job EXCEPT !.at = "get", !.todo = overdue] \in Jobs
        BY <3>2 DEF Jobs
      <3> QED
        BY <3>1, <3>3
    <2>2. CASE ExpireGet
      <3>1. PICK r \in job.todo : job' = [job EXCEPT !.at = "del", !.todo = job.todo \ {r}, !.id = r,
                                                   !.data = r \in open]
        BY <2>2 DEF ExpireGet
      <3> DEFINE found == r \in open
      <3>2. found \in BOOLEAN /\ job' = [job EXCEPT !.at = "del", !.todo = job.todo \ {r}, !.id = r,
                                                    !.data = found]
        BY <3>1
      <3> HIDE DEF found
      <3>3. r \in Requests /\ job.todo \ {r} \in SUBSET Requests
        BY JobHolds
      <3> QED
        BY <3>2, <3>3, JobTakes, ZenonT(60)
    <2>3. CASE ExpireDel
      BY <2>3, JobTakes, ZenonT(60) DEF ExpireDel, InHand, Drawn
    <2>4. CASE ExpireZrem
      <3>1. job.id \in Requests /\ job.refunds \in SUBSET Requests
        BY <2>4, JobHolds DEF ExpireZrem, InHand, Drawn
      <3> QED
        BY <2>4, <3>1, JobTakes, ZenonT(60) DEF ExpireZrem, NextExpired
    <2>5. CASE ExpireSrem
      <3>1. job.refunds \cup {job.id} \in SUBSET Requests
        BY <2>5, JobHolds DEF ExpireSrem, InHand, Drawn
      <3> QED
        BY <2>5, <3>1, JobTakes, ZenonT(60) DEF ExpireSrem, NextExpired
    <2>6. CASE ExpireRefund
      <3>1. job' = NoJob \/ \E r \in job.refunds : job' = [job EXCEPT !.refunds = job.refunds \ {r}]
        BY <2>6 DEF ExpireRefund
      <3>2. ASSUME NEW r PROVE job.refunds \ {r} \in SUBSET Requests
        BY JobHolds
      <3>3. CASE job' = NoJob
        BY <3>3, JobHolds
      <3>4. ASSUME NEW r \in job.refunds, job' = [job EXCEPT !.refunds = job.refunds \ {r}]
            PROVE  job' \in Jobs
        BY <3>2, <3>4, JobPays
      <3> QED
        BY <3>1, <3>3, <3>4
    <2> QED
      BY <1>10, <2>1, <2>2, <2>3, <2>4, <2>5, <2>6 DEF Expire
  <1>11. ASSUME OtherHandlers
        PROVE  (job \in Jobs /\ crashes \in 0 .. Crashes)'
    BY <1>11
       DEF OtherHandlers, Chat, Stop, Enter, Leave, Elsewhere
  <1>12. ASSUME Crash
        PROVE  (job \in Jobs /\ crashes \in 0 .. Crashes)'
    BY <1>12, JobHolds, ChatRequestsAssumption DEF Crash
  <1>13. ASSUME UNCHANGED vars
        PROVE  (job \in Jobs /\ crashes \in 0 .. Crashes)'
    BY <1>13
       DEF vars
  <1> QED
    BY <1>1, <1>2, <1>3, <1>4, <1>5, <1>6, <1>7, <1>8, <1>9, <1>10, <1>11, <1>12, <1>13
       DEF Next, Update, Handle

\* What is drawn stays drawn, and a handler keeps its command and its users.
LEMMA InHandKeeps ==
  ASSUME CInv, [Next]_vars
  PROVE  InHand'
  <1> USE ChatRequestsAssumption DEF CInv, TypeOK, keys, history, chats, Goto, KeyTypes, Calls,
          NoJob, InHand, Drawn, Creating, Clearing, Accepting, Rejecting
  <1>1. ASSUME NEW u \in Users, NEW v \in Users, Button(u, v), UNCHANGED <<job, crashes>>
        PROVE  InHand'
    BY <1>1
       DEF Button, NoCall
  <1>2. ASSUME NEW r \in Requests, View(r), UNCHANGED <<job, crashes>>
        PROVE  InHand'
    BY <1>2
       DEF View
  <1>3. ASSUME NEW r \in Requests, NEW command \in {"accept", "reject"}, Answer(r, command),
               UNCHANGED <<job, crashes>>
        PROVE  InHand'
    BY <1>3
       DEF Answer, NoCall, KeysDrawn
  <1>4. ASSUME CountActive \/ Ask \/ AcceptGet, UNCHANGED <<job, crashes>>
        PROVE  InHand'
    BY <1>4
       DEF CountActive, Ask, AcceptGet, Require, Done
  <1>5. ASSUME ClearGet \/ AcceptBusy \/ RejectGet, UNCHANGED <<job, crashes>>
        PROVE  InHand'
    BY <1>5, Readings DEF ClearGet, AcceptBusy, RejectGet, AcceptGo
  <1>6. ASSUME Deduct \/ Create \/ Notify, UNCHANGED <<job, crashes>>
        PROVE  InHand'
    BY <1>6
       DEF Deduct, Create, Notify, Done
  <1>7. ASSUME ClearDel \/ ClearZrem \/ ClearSrem, UNCHANGED <<job, crashes>>
        PROVE  InHand'
    BY <1>7
       DEF ClearDel, ClearZrem, ClearSrem, AfterClear, Done
  <1>8. ASSUME AcceptDequeue \/ AcceptPair \/ AcceptSession, UNCHANGED <<job, crashes>>
        PROVE  InHand'
    BY <1>8
       DEF AcceptDequeue, AcceptPair, AcceptSession, Done
  <1>9. ASSUME RejectRefund, UNCHANGED <<job, crashes>>
        PROVE  InHand'
    BY <1>9
       DEF RejectRefund, Done
  <1>10. ASSUME Expire, UNCHANGED crashes
        PROVE  InHand'
    <2>1. UNCHANGED <<pc, call, parties>>
      BY <1>10 DEF Expire, ExpireScan, ExpireGet, ExpireDel, ExpireZrem, ExpireSrem, ExpireRefund
    <2>2. (job'.at \in {"del", "zrem", "srem"} => Drawn(job'.id)) /\ \A r \in job'.todo : Drawn(r)
      <3>1. CASE ExpireScan
        BY <1>10, <3>1
           DEF ExpireScan, Overdue, KeysDrawn
      <3>2. CASE ExpireGet
        BY <1>10, <3>2
           DEF ExpireGet
      <3>3. CASE ExpireDel
        BY <1>10, <3>3
           DEF ExpireDel
      <3>4. CASE ExpireZrem
        BY <1>10, <3>4
           DEF ExpireZrem, NextExpired
      <3>5. CASE ExpireSrem
        BY <1>10, <3>5
           DEF ExpireSrem, NextExpired
      <3>6. CASE ExpireRefund
        BY <1>10, <3>6
           DEF ExpireRefund, Jobs
      <3> QED
        BY <1>10, <3>1, <3>2, <3>3, <3>4, <3>5, <3>6 DEF Expire
    <2> QED
      BY <2>1, <2>2
  <1>11. ASSUME OtherHandlers
        PROVE  InHand'
    BY <1>11
       DEF OtherHandlers, Chat, Stop, Enter, Leave, Elsewhere
  <1>12. ASSUME Crash
        PROVE  InHand'
    BY <1>12
       DEF Crash
  <1>13. ASSUME UNCHANGED vars
        PROVE  InHand'
    BY <1>13
       DEF vars
  <1> QED
    BY <1>1, <1>2, <1>3, <1>4, <1>5, <1>6, <1>7, <1>8, <1>9, <1>10, <1>11, <1>12, <1>13
       DEF Next, Update, Handle

\* Only what has been drawn gets keys, messages and answers.
LEMMA KeysDrawnKeep ==
  ASSUME CInv, [Next]_vars
  PROVE  KeysDrawn'
  <1> USE ChatRequestsAssumption DEF CInv, TypeOK, keys, history, chats, Goto, KeyTypes,
          OtherTypes, KeysDrawn, Calls, InHand, Drawn, Creating, Clearing, Accepting, Rejecting
  <1>1. ASSUME NEW u \in Users, NEW v \in Users, Button(u, v), UNCHANGED <<job, crashes>>
        PROVE  KeysDrawn'
    BY <1>1
       DEF Button
  <1>2. ASSUME NEW r \in Requests, View(r), UNCHANGED <<job, crashes>>
        PROVE  KeysDrawn'
    BY <1>2
       DEF View
  <1>3. ASSUME NEW r \in Requests, NEW command \in {"accept", "reject"}, Answer(r, command),
               UNCHANGED <<job, crashes>>
        PROVE  KeysDrawn'
    BY <1>3
       DEF Answer
  <1>4. ASSUME CountActive \/ Ask \/ AcceptGet, UNCHANGED <<job, crashes>>
        PROVE  KeysDrawn'
    BY <1>4
       DEF CountActive, Ask, AcceptGet, Require, Done
  <1>5. ASSUME ClearGet \/ AcceptBusy \/ RejectGet, UNCHANGED <<job, crashes>>
        PROVE  KeysDrawn'
    BY <1>5
       DEF ClearGet, AcceptBusy, RejectGet, AcceptGo
  <1>6. ASSUME Deduct \/ Create \/ Notify, UNCHANGED <<job, crashes>>
        PROVE  KeysDrawn'
    BY <1>6
       DEF Deduct, Create, Notify, Done
  <1>7. ASSUME ClearDel \/ ClearZrem \/ ClearSrem, UNCHANGED <<job, crashes>>
        PROVE  KeysDrawn'
    BY <1>7
       DEF ClearDel, ClearZrem, ClearSrem, AfterClear, Done
  <1>8. ASSUME AcceptDequeue \/ AcceptPair \/ AcceptSession, UNCHANGED <<job, crashes>>
        PROVE  KeysDrawn'
    BY <1>8
       DEF AcceptDequeue, AcceptPair, AcceptSession, Done
  <1>9. ASSUME RejectRefund, UNCHANGED <<job, crashes>>
        PROVE  KeysDrawn'
    BY <1>9
       DEF RejectRefund, Done
  <1>10. ASSUME Expire, UNCHANGED crashes
        PROVE  KeysDrawn'
    BY <1>10, ExpiryOnlyTakes
  <1>11. ASSUME OtherHandlers
        PROVE  KeysDrawn'
    BY <1>11
       DEF OtherHandlers, Chat, Stop, Enter, Leave, Elsewhere
  <1>12. ASSUME Crash
        PROVE  KeysDrawn'
    BY <1>12
       DEF Crash
  <1>13. ASSUME UNCHANGED vars
        PROVE  KeysDrawn'
    BY <1>13
       DEF vars
  <1> QED
    BY <1>1, <1>2, <1>3, <1>4, <1>5, <1>6, <1>7, <1>8, <1>9, <1>10, <1>11, <1>12, <1>13
       DEF Next, Update, Handle

\* Answers.
LEMMA UnansweredKeep ==
  ASSUME CInv, [Next]_vars
  PROVE  Unanswered'
  <1> USE DEF CInv, TypeOK, keys, history, chats, Goto, KeyTypes, OtherTypes, Calls, KeysDrawn,
          Count, Unanswered, AnsweredOnce, InHand, Drawn, Creating, Clearing, Accepting,
          Rejecting
  <1>1. ASSUME NEW u \in Users, NEW v \in Users, Button(u, v), UNCHANGED <<job, crashes>>
        PROVE  Unanswered'
    BY <1>1
       DEF Button
  <1>2. ASSUME NEW r \in Requests, View(r), UNCHANGED <<job, crashes>>
        PROVE  Unanswered'
    BY <1>2
       DEF View
  <1>3. ASSUME NEW r \in Requests, NEW command \in {"accept", "reject"}, Answer(r, command),
               UNCHANGED <<job, crashes>>
        PROVE  Unanswered'
    BY <1>3
       DEF Answer
  <1>4. ASSUME CountActive \/ Ask \/ AcceptGet, UNCHANGED <<job, crashes>>
        PROVE  Unanswered'
    BY <1>4
       DEF CountActive, Ask, AcceptGet, Require, Done
  <1>5. ASSUME ClearGet \/ AcceptBusy \/ RejectGet, UNCHANGED <<job, crashes>>
        PROVE  Unanswered'
    BY <1>5, Readings DEF ClearGet, AcceptBusy, RejectGet, AcceptGo
  <1>6. ASSUME Deduct \/ Create \/ Notify, UNCHANGED <<job, crashes>>
        PROVE  Unanswered'
    BY <1>6
       DEF Deduct, Create, Notify, Done
  <1>7. ASSUME ClearDel \/ ClearZrem \/ ClearSrem, UNCHANGED <<job, crashes>>
        PROVE  Unanswered'
    BY <1>7
       DEF ClearDel, ClearZrem, ClearSrem, AfterClear, Done
  <1>8. ASSUME AcceptDequeue \/ AcceptPair \/ AcceptSession, UNCHANGED <<job, crashes>>
        PROVE  Unanswered'
    BY <1>8
       DEF AcceptDequeue, AcceptPair, AcceptSession, Done
  <1>9. ASSUME RejectRefund, UNCHANGED <<job, crashes>>
        PROVE  Unanswered'
    BY <1>9
       DEF RejectRefund, Done
  <1>10. ASSUME Expire, UNCHANGED crashes
        PROVE  Unanswered'
    BY <1>10, ExpiryOnlyTakes
  <1>11. ASSUME OtherHandlers
        PROVE  Unanswered'
    BY <1>11
       DEF OtherHandlers, Chat, Stop, Enter, Leave, Elsewhere
  <1>12. ASSUME Crash
        PROVE  Unanswered'
    BY <1>12
       DEF Crash
  <1>13. ASSUME UNCHANGED vars
        PROVE  Unanswered'
    BY <1>13
       DEF vars
  <1> QED
    BY <1>1, <1>2, <1>3, <1>4, <1>5, <1>6, <1>7, <1>8, <1>9, <1>10, <1>11, <1>12, <1>13
       DEF Next, Update, Handle

\* The two who are to be paired.
LEMMA FreeKeep ==
  ASSUME CInv, [Next]_vars
  PROVE  Free'
  <1> USE DEF CInv, TypeOK, keys, history, chats, Goto, OtherTypes, Calls, Free, InHand,
          Clearing, Accepting, Rejecting
  <1>1. ASSUME NEW u \in Users, NEW v \in Users, Button(u, v), UNCHANGED <<job, crashes>>
        PROVE  Free'
    BY <1>1
       DEF Button
  <1>2. ASSUME NEW r \in Requests, View(r), UNCHANGED <<job, crashes>>
        PROVE  Free'
    BY <1>2
       DEF View
  <1>3. ASSUME NEW r \in Requests, NEW command \in {"accept", "reject"}, Answer(r, command),
               UNCHANGED <<job, crashes>>
        PROVE  Free'
    BY <1>3
       DEF Answer
  <1>4. ASSUME CountActive \/ Ask \/ AcceptGet, UNCHANGED <<job, crashes>>
        PROVE  Free'
    BY <1>4
       DEF CountActive, Ask, AcceptGet, Require, Done
  <1>5. ASSUME ClearGet \/ AcceptBusy \/ RejectGet, UNCHANGED <<job, crashes>>
        PROVE  Free'
    BY <1>5, Readings DEF ClearGet, AcceptBusy, RejectGet, AcceptGo
  <1>6. ASSUME Deduct \/ Create \/ Notify, UNCHANGED <<job, crashes>>
        PROVE  Free'
    BY <1>6
       DEF Deduct, Create, Notify, Done
  <1>7. ASSUME ClearDel \/ ClearZrem \/ ClearSrem, UNCHANGED <<job, crashes>>
        PROVE  Free'
    BY <1>7
       DEF ClearDel, ClearZrem, ClearSrem, AfterClear, Done
  <1>8. ASSUME AcceptDequeue \/ AcceptPair \/ AcceptSession, UNCHANGED <<job, crashes>>
        PROVE  Free'
    BY <1>8
       DEF AcceptDequeue, AcceptPair, AcceptSession, Done
  <1>9. ASSUME RejectRefund, UNCHANGED <<job, crashes>>
        PROVE  Free'
    BY <1>9
       DEF RejectRefund, Done
  <1>10. ASSUME Expire, UNCHANGED crashes
        PROVE  Free'
    BY <1>10
       DEF Expire, ExpireScan, Overdue, ExpireGet, ExpireDel, ExpireZrem, ExpireSrem,
           ExpireRefund, NextExpired
  <1>11. ASSUME OtherHandlers
        PROVE  Free'
    BY <1>11
       DEF OtherHandlers, Chat, Stop, Enter, Leave, Elsewhere
  <1>12. ASSUME Crash
        PROVE  Free'
    BY <1>12
       DEF Crash
  <1>13. ASSUME UNCHANGED vars
        PROVE  Free'
    BY <1>13
       DEF vars
  <1> QED
    BY <1>1, <1>2, <1>3, <1>4, <1>5, <1>6, <1>7, <1>8, <1>9, <1>10, <1>11, <1>12, <1>13
       DEF Next, Update, Handle

\* Pairs.
LEMMA WholeKeeps ==
  ASSUME CInv, [Next]_vars
  PROVE  Whole'
  <1> USE DEF CInv, TypeOK, keys, history, chats, Goto
  <1>1. ASSUME NEW u \in Users, NEW v \in Users, Button(u, v), UNCHANGED <<job, crashes>>
        PROVE  Whole'
    BY <1>1
       DEF Whole, Button
  <1>2. ASSUME NEW r \in Requests, View(r), UNCHANGED <<job, crashes>>
        PROVE  Whole'
    BY <1>2
       DEF Whole, View
  <1>3. ASSUME NEW r \in Requests, NEW command \in {"accept", "reject"}, Answer(r, command),
               UNCHANGED <<job, crashes>>
        PROVE  Whole'
    BY <1>3
       DEF Whole, Answer
  <1>4. ASSUME CountActive \/ Ask \/ AcceptGet, UNCHANGED <<job, crashes>>
        PROVE  Whole'
    BY <1>4
       DEF Whole, CountActive, Ask, AcceptGet, Require, Done
  <1>5. ASSUME ClearGet \/ AcceptBusy \/ RejectGet, UNCHANGED <<job, crashes>>
        PROVE  Whole'
    BY <1>5 DEF Whole, ClearGet, AcceptBusy, RejectGet, AcceptGo
  <1>6. ASSUME Deduct \/ Create \/ Notify, UNCHANGED <<job, crashes>>
        PROVE  Whole'
    BY <1>6
       DEF Whole, Deduct, Create, Notify, Done
  <1>7. ASSUME ClearDel \/ ClearZrem \/ ClearSrem, UNCHANGED <<job, crashes>>
        PROVE  Whole'
    BY <1>7
       DEF Whole, ClearDel, ClearZrem, ClearSrem, AfterClear, Done
  <1>8. ASSUME AcceptDequeue \/ AcceptPair \/ AcceptSession, UNCHANGED <<job, crashes>>
        PROVE  Whole'
    <2> SUFFICES ASSUME crashes = 0, NEW w \in Users, partner'[w] # None
                 PROVE  /\ partner'[w] # w /\ w \notin waiting'
                        /\ partner'[partner'[w]] = w \/ (pc' = "pair:other" /\ w = call'.user)
                        /\ \/ {w, partner'[w]} \in sessions'
                           \/ pc' \in {"pair:other", "session"} /\ w \in {call'.user, call'.other}
      BY <1>8 DEF Whole
    <2>1. /\ call.user \in Users /\ call.other \in Users /\ call.user # call.other
          /\ partner \in [Users -> Users \cup {None}] /\ None \notin Users
      BY <1>8, ChatRequestsAssumption DEF InHand, OtherTypes, AcceptDequeue, AcceptPair, AcceptSession
    <2>2. CASE AcceptDequeue
      BY <1>8, <2>1, <2>2 DEF AcceptDequeue, Whole
    <2>3. CASE AcceptPair /\ pc = "pair:user"
      <3>1. /\ partner' = [partner EXCEPT ![call.user] = call.other]
            /\ pc' = "pair:other" /\ call' = call /\ waiting' = waiting /\ sessions' = sessions
            /\ partner[call.user] = None /\ call.user \notin waiting
        BY <2>3 DEF AcceptPair, Free
      <3>2. CASE w = call.user
        BY <2>1, <3>1, <3>2
      <3>3. CASE w # call.user
        <4>1. /\ partner[w] # None /\ partner[w] # w /\ w \notin waiting
              /\ partner[partner[w]] = w /\ {w, partner[w]} \in sessions
          BY <2>1, <2>3, <3>1, <3>3 DEF Whole
        <4>2. partner[w] # call.user
          BY <2>1, <3>1, <4>1
        <4> QED
          BY <2>1, <3>1, <3>3, <4>1, <4>2
      <3> QED
        BY <3>2, <3>3
    <2>4. CASE AcceptPair /\ pc = "pair:other"
      <3>1. /\ partner' = [partner EXCEPT ![call.other] = call.user]
            /\ pc' = "session" /\ call' = call /\ waiting' = waiting /\ sessions' = sessions
            /\ partner[call.user] = call.other /\ partner[call.other] = None
            /\ call.user \notin waiting /\ call.other \notin waiting
        BY <2>4 DEF AcceptPair, Free
      <3>2. CASE w \in {call.user, call.other}
        BY <2>1, <3>1, <3>2
      <3>3. CASE w \notin {call.user, call.other}
        <4>1. /\ partner[w] # None /\ partner[w] # w /\ w \notin waiting
              /\ partner[partner[w]] = w /\ {w, partner[w]} \in sessions
          BY <2>1, <2>4, <3>1, <3>3 DEF Whole
        <4>2. partner[w] # call.other
          BY <2>1, <3>1, <4>1
        <4> QED
          BY <2>1, <3>1, <3>3, <4>1, <4>2
      <3> QED
        BY <3>2, <3>3
    <2>5. CASE AcceptSession
      <3>1. /\ partner' = partner /\ pc' = "idle" /\ waiting' = waiting
            /\ sessions' = sessions \cup {{call.user, call.other}}
            /\ partner[call.user] = call.other /\ partner[call.other] = call.user
        BY <2>5 DEF AcceptSession, Done, Free
      <3>2. {call.other, call.user} = {call.user, call.other}
        OBVIOUS
      <3>3. /\ partner[w] # w /\ w \notin waiting /\ partner[partner[w]] = w
            /\ {w, partner[w]} \in sessions \/ w \in {call.user, call.other}
        BY <2>5, <3>1 DEF AcceptSession, Whole
      <3> QED
        BY <2>1, <3>1, <3>2, <3>3
    <2> QED
      BY <1>8, <2>2, <2>3, <2>4, <2>5 DEF AcceptPair
  <1>9. ASSUME RejectRefund, UNCHANGED <<job, crashes>>
        PROVE  Whole'
    BY <1>9
       DEF Whole, RejectRefund, Done
  <1>10. ASSUME Expire, UNCHANGED crashes
        PROVE  Whole'
    BY <1>10
       DEF Whole, Expire, ExpireScan, Overdue, ExpireGet, ExpireDel, ExpireZrem, ExpireSrem,
           ExpireRefund, NextExpired
  <1>11. ASSUME OtherHandlers
        PROVE  Whole'
    <2> SUFFICES ASSUME crashes = 0, NEW w \in Users, partner'[w] # None
                 PROVE  /\ partner'[w] # w /\ w \notin waiting'
                        /\ partner'[partner'[w]] = w \/ (pc' = "pair:other" /\ w = call'.user)
                        /\ \/ {w, partner'[w]} \in sessions'
                           \/ pc' \in {"pair:other", "session"} /\ w \in {call'.user, call'.other}
      BY <1>11 DEF Whole, OtherHandlers
    <2>1. /\ partner \in [Users -> Users \cup {None}] /\ None \notin Users
          /\ UNCHANGED <<pc, call>>
      BY <1>11, ChatRequestsAssumption DEF OtherTypes, OtherHandlers
    <2>2. ASSUME NEW u \in Users, NEW v \in Users, Chat(u, v)
          PROVE  /\ partner'[w] # w /\ w \notin waiting'
                 /\ partner'[partner'[w]] = w /\ {w, partner'[w]} \in sessions'
      <3>1. /\ pc = "idle" /\ u # v /\ partner[u] = None /\ partner[v] = None
            /\ u \notin waiting /\ v \notin waiting /\ waiting' = waiting
            /\ partner' = [partner EXCEPT ![u] = v, ![v] = u] /\ sessions' = sessions \cup {{u, v}}
        BY <2>2 DEF Chat, Elsewhere
      <3>2. CASE w \in {u, v}
        <4>1. {v, u} = {u, v}
          OBVIOUS
        <4> QED
          BY <2>1, <3>1, <3>2, <4>1
      <3>3. CASE w \notin {u, v}
        <4>1. /\ partner[w] # None /\ partner[w] # w /\ w \notin waiting
              /\ partner[partner[w]] = w /\ {w, partner[w]} \in sessions
          BY <2>1, <3>1, <3>3 DEF Whole
        <4>2. partner[w] \notin {u, v}
          BY <2>1, <3>1, <4>1
        <4> QED
          BY <2>1, <3>1, <3>3, <4>1, <4>2
      <3> QED
        BY <3>2, <3>3
    <2>3. ASSUME NEW u \in Users, Stop(u)
          PROVE  /\ partner'[w] # w /\ w \notin waiting'
                 /\ partner'[partner'[w]] = w /\ {w, partner'[w]} \in sessions'
      <3>1. /\ pc = "idle" /\ partner[u] # None /\ waiting' = waiting
            /\ partner' = [partner EXCEPT ![u] = None, ![partner[u]] = None]
            /\ sessions' = sessions \ {{u, partner[u]}}
        BY <2>3 DEF Stop
      <3>2. w # u /\ w # partner[u] /\ partner'[w] = partner[w]
        BY <2>1, <3>1
      <3>3. /\ partner[w] # w /\ w \notin waiting
            /\ partner[partner[w]] = w /\ {w, partner[w]} \in sessions
            /\ partner[u] \in Users /\ partner[partner[u]] = u
        BY <2>1, <3>1, <3>2 DEF Whole
      <3>4. partner[w] \notin {u, partner[u]}
        BY <2>1, <3>1, <3>2, <3>3
      <3>5. {w, partner[w]} # {u, partner[u]}
        BY <3>2
      <3> QED
        BY <2>1, <3>1, <3>2, <3>3, <3>4, <3>5
    <2>4. ASSUME NEW u \in Users, Enter(u) \/ Leave(u)
          PROVE  /\ UNCHANGED <<partner, sessions>>
                 /\ w \in waiting' => w \in waiting \/ (pc = "idle" /\ partner[w] = None)
      BY <2>4 DEF Enter, Leave, Elsewhere
    <2>5. ASSUME UNCHANGED <<partner, sessions>>,
                 w \in waiting' => w \in waiting \/ (pc = "idle" /\ partner[w] = None)
          PROVE  /\ partner'[w] # w /\ w \notin waiting'
                 /\ partner'[partner'[w]] = w \/ (pc' = "pair:other" /\ w = call'.user)
                 /\ \/ {w, partner'[w]} \in sessions'
                    \/ pc' \in {"pair:other", "session"} /\ w \in {call'.user, call'.other}
      BY <2>1, <2>5 DEF Whole
    <2>6. \/ \E u \in Users : \E v \in Users : Chat(u, v)
          \/ \E u \in Users : Stop(u)
          \/ \E u \in Users : Enter(u) \/ Leave(u)
      BY <1>11 DEF OtherHandlers
    <2> QED
      BY <2>2, <2>3, <2>4, <2>5, <2>6
  <1>12. ASSUME Crash
        PROVE  Whole'
    BY <1>12
       DEF Whole, Crash
  <1>13. ASSUME UNCHANGED vars
        PROVE  Whole'
    BY <1>13
       DEF Whole, vars
  <1> QED
    BY <1>1, <1>2, <1>3, <1>4, <1>5, <1>6, <1>7, <1>8, <1>9, <1>10, <1>11, <1>12, <1>13
       DEF Next, Update, Handle

-----------------------------------------------------------------------------
(* The limit. *)

LEMMA RequestsFinite ==
  ASSUME NEW S \in SUBSET Requests
  PROVE  IsFiniteSet(S) /\ Cardinality(S) \in Nat
  BY FS_Subset, FS_CardinalityType, ChatRequestsAssumption

LEMMA FewerCount ==
  ASSUME NEW S \in SUBSET Requests, NEW T \in SUBSET S
  PROVE  Cardinality(T) <= Cardinality(S)
  BY FS_Subset, ChatRequestsAssumption

LEMMA OneMoreCounts ==
  ASSUME NEW S \in SUBSET Requests, NEW x, NEW T \in SUBSET (S \cup {x})
  PROVE  Cardinality(T) <= Cardinality(S) + 1
  <1>1. IsFiniteSet(S) /\ Cardinality(S) \in Nat
    BY RequestsFinite
  <1>2. IsFiniteSet(S \cup {x}) /\ Cardinality(S \cup {x}) \in {Cardinality(S), Cardinality(S) + 1}
    BY <1>1, FS_AddElement
  <1>3. Cardinality(T) <= Cardinality(S \cup {x}) /\ Cardinality(T) \in Nat
    BY <1>2, FS_Subset, FS_CardinalityType
  <1> QED
    BY <1>1, <1>2, <1>3

\* A step that counts no request, makes none that a target could accept
\* without counting, and comes to no creation without a place to spare.
LEMMA CountsFewer ==
  ASSUME CInv, crashes' = crashes,
         \A u \in Users : counted' \cap RequestsOf(u)' \subseteq counted \cap RequestsOf(u),
         Uncounted' \subseteq Uncounted,
         pc' \in {"ask", "deduct", "set"} \cup Creating =>
           /\ call'.user = call.user /\ call.user \in Users
           /\ Cardinality(counted \cap RequestsOf(call.user)) < MaxActive,
         pc' \in Creating => call'.id \notin counted',
         job'.at \in {"zrem", "srem"} => job'.id \notin open'
  PROVE  Counts'
  <1> DEFINE Taken(u) == counted \cap RequestsOf(u)
  <1> USE ChatRequestsAssumption
  <1>1. ASSUME NEW u \in Users
        PROVE  Cardinality(Taken(u)') <= Cardinality(Taken(u)) /\ Cardinality(Taken(u)) \in Nat
               /\ Cardinality(Taken(u)) <= MaxActive
               /\ Cardinality(Taken(u)') \in Nat
    <2>1. Taken(u)' \in SUBSET Taken(u) /\ Taken(u) \in SUBSET Requests
          /\ Cardinality(Taken(u)) <= MaxActive
      BY DEF RequestsOf, CInv, Counts
    <2> HIDE DEF Taken
    <2> QED
      BY <2>1, FewerCount, RequestsFinite
  <1>2. ASSUME NEW u \in Users PROVE Cardinality(Taken(u)') <= MaxActive
    <2> HIDE DEF Taken
    <2> QED
      BY <1>1
  <1>3. ASSUME NEW u \in Users, u = call'.user, pc' \in {"ask", "deduct", "set"} \cup Creating
        PROVE  Cardinality(Taken(u)') < MaxActive
    <2>1. Cardinality(Taken(u)) < MaxActive
      BY <1>3
    <2> HIDE DEF Taken
    <2> QED
      BY <1>1, <2>1
  <1>4. Cardinality(Uncounted') <= crashes'
    <2>1. Uncounted \in SUBSET Requests /\ Uncounted' \in SUBSET Uncounted
      BY DEF CInv, TypeOK, KeyTypes, Uncounted
    <2>2. Cardinality(Uncounted) <= crashes /\ crashes \in Nat
      BY DEF CInv, Counts, TypeOK
    <2>3. Cardinality(Uncounted') <= Cardinality(Uncounted) /\ Cardinality(Uncounted) \in Nat
          /\ Cardinality(Uncounted') \in Nat
      BY <2>1, FewerCount, RequestsFinite
    <2> QED
      BY <2>2, <2>3
  <1> QED
    BY <1>2, <1>3, <1>4 DEF Counts, RequestsOf

\* A creation counts its request in the place it had to spare.
LEMMA CountsKeep ==
  ASSUME CInv, [Next]_vars
  PROVE  Counts'
  <1> USE DEF CInv, TypeOK, keys, history, chats, Goto, KeyTypes
  <1>1. ASSUME NEW u \in Users, NEW v \in Users, Button(u, v), UNCHANGED <<job, crashes>>
        PROVE  Counts'
    BY <1>1, CountsFewer
       DEF Button, Counts, Uncounted, RequestsOf, Creating, InHand
  <1>2. ASSUME NEW r \in Requests, View(r), UNCHANGED <<job, crashes>>
        PROVE  Counts'
    BY <1>2, CountsFewer
       DEF View, Counts, Uncounted, RequestsOf, Creating, InHand
  <1>3. ASSUME NEW r \in Requests, NEW command \in {"accept", "reject"}, Answer(r, command),
               UNCHANGED <<job, crashes>>
        PROVE  Counts'
    BY <1>3, CountsFewer
       DEF Answer, Counts, Uncounted, RequestsOf, Creating, InHand
  <1>4. ASSUME CountActive \/ Ask \/ AcceptGet, UNCHANGED <<job, crashes>>
        PROVE  Counts'
    BY <1>4, CountsFewer
       DEF CountActive, Ask, AcceptGet, Require, Done, Counts, Uncounted, RequestsOf, Creating,
           InHand
  <1>5. ASSUME ClearGet \/ AcceptBusy \/ RejectGet, UNCHANGED <<job, crashes>>
        PROVE  Counts'
    BY <1>5, Readings, CountsFewer
       DEF ClearGet, AcceptBusy, RejectGet, AcceptGo, Counts, Uncounted, RequestsOf, Creating
  <1>6. ASSUME Deduct \/ Create \/ Notify, UNCHANGED <<job, crashes>>
        PROVE  Counts'
    <2>1. CASE Deduct
      BY <1>6, <2>1, CountsFewer DEF Deduct, Done, Counts, Uncounted, RequestsOf, Creating, InHand
    <2>2. CASE Create /\ pc = "set"
      <3>1. PICK r \in {x \in Requests : parties[x] = None} :
              /\ parties' = [parties EXCEPT ![r] = [from |-> call.user, to |-> call.other]]
              /\ open' = open \cup {r} /\ call' = [call EXCEPT !.id = r] /\ pc' = "zadd"
              /\ UNCHANGED counted
        BY <2>2 DEF Create
      <3>2. r \in Requests /\ r \notin counted /\ call' \in Calls /\ call'.id = r
            /\ call'.user = call.user /\ call.user \in Users
        BY <2>2, <3>1, CallsChange DEF KeysDrawn, Drawn, Calls, InHand
      <3>3. \A u \in Users : counted' \cap RequestsOf(u)' \subseteq counted \cap RequestsOf(u)
        BY <3>1, <3>2 DEF RequestsOf, KeyTypes
      <3>4. Uncounted' \subseteq Uncounted
        BY <2>2, <3>1, <3>2 DEF Uncounted, Creating
      <3>5. job'.at \in {"zrem", "srem"} => job'.id \notin open'
        BY <1>6, <3>1, <3>2 DEF Counts, InHand, Drawn
      <3>6. Cardinality(counted \cap RequestsOf(call.user)) < MaxActive
        BY <2>2 DEF Counts
      <3> QED
        BY <1>6, <3>1, <3>2, <3>3, <3>4, <3>5, <3>6, CountsFewer
    <2>3. CASE Create /\ pc = "zadd"
      <3>1. pc' = "sadd" /\ UNCHANGED <<open, counted, parties, call, job, crashes>>
        BY <1>6, <2>3 DEF Create
      <3>2. Uncounted' = Uncounted
        BY <2>3, <3>1 DEF Uncounted, Creating
      <3>3. \A u \in Users : RequestsOf(u)' = RequestsOf(u)
        BY <3>1 DEF RequestsOf
      <3>4. /\ call.user \in Users /\ call.id \notin counted
            /\ Cardinality(counted \cap RequestsOf(call.user)) < MaxActive
            /\ job.at \in {"zrem", "srem"} => job.id \notin open
        BY <2>3 DEF Counts, Creating, InHand
      <3> QED
        BY <3>1, <3>2, <3>3, <3>4, CountsFewer
    <2>4. CASE Create /\ pc = "sadd"
      <3>1. /\ counted' = counted \cup {call.id} /\ pc' = "notify"
            /\ UNCHANGED <<open, parties, call, job, crashes>>
        BY <1>6, <2>4 DEF Create
      <3>2. ASSUME NEW u \in Users
            PROVE  Cardinality(counted' \cap RequestsOf(u)') <= MaxActive
        <4> DEFINE taken == counted \cap RequestsOf(u)
                   after == counted' \cap RequestsOf(u)'
        <4>1. taken \in SUBSET Requests /\ after \in SUBSET (taken \cup {call.id})
              /\ Cardinality(taken) <= MaxActive
          BY <3>1 DEF RequestsOf, Counts
        <4>2. u = call.user => Cardinality(taken) < MaxActive
          BY <2>4 DEF Counts, Creating
        <4>3. u # call.user => after \in SUBSET taken
          BY <2>4, <3>1 DEF RequestsOf, InHand, Creating
        <4>4. taken \in SUBSET Requests /\ after \in SUBSET Requests
          BY <3>1 DEF RequestsOf
        <4> HIDE DEF taken, after
        <4>5. Cardinality(taken) \in Nat /\ Cardinality(after) \in Nat /\ MaxActive \in Nat
          BY <4>4, RequestsFinite, ChatRequestsAssumption
        <4>6. Cardinality(after) <= Cardinality(taken) + 1
          BY <4>1, OneMoreCounts
        <4>7. u # call.user => Cardinality(after) <= Cardinality(taken)
          BY <4>3, <4>4, FewerCount
        <4>8. Cardinality(after) <= MaxActive
          BY <4>1, <4>2, <4>5, <4>6, <4>7
        <4> QED
          BY <4>8 DEF after
      <3>3. Uncounted' = Uncounted
        BY <2>4, <3>1 DEF Uncounted, Creating
      <3> QED
        BY <3>1, <3>2, <3>3 DEF Counts, Creating
    <2>5. CASE Notify
      BY <1>6, <2>5, CountsFewer DEF Notify, Done, Counts, Uncounted, RequestsOf, Creating
    <2> QED
      BY <1>6, <2>1, <2>2, <2>3, <2>4, <2>5 DEF Create
  <1>7. ASSUME ClearDel \/ ClearZrem \/ ClearSrem, UNCHANGED <<job, crashes>>
        PROVE  Counts'
    <2>1. CASE ClearDel
      BY <1>7, <2>1, CountsFewer
         DEF ClearDel, Counts, Uncounted, RequestsOf, Creating, InHand, Unanswered, Clearing
    <2>2. CASE ClearZrem
      BY <1>7, <2>2, CountsFewer
         DEF ClearZrem, AfterClear, Done, Counts, Uncounted, RequestsOf, Creating, InHand, Unanswered, Clearing
    <2>3. CASE ClearSrem
      BY <1>7, <2>3, CountsFewer
         DEF ClearSrem, AfterClear, Done, Counts, Uncounted, RequestsOf, Creating, InHand, Unanswered, Clearing
    <2> QED
      BY <1>7, <2>1, <2>2, <2>3
  <1>8. ASSUME AcceptDequeue \/ AcceptPair \/ AcceptSession, UNCHANGED <<job, crashes>>
        PROVE  Counts'
    BY <1>8, CountsFewer
       DEF AcceptDequeue, AcceptPair, AcceptSession, Done, Counts, Uncounted, RequestsOf,
           Creating, InHand
  <1>9. ASSUME RejectRefund, UNCHANGED <<job, crashes>>
        PROVE  Counts'
    BY <1>9, CountsFewer
       DEF RejectRefund, Done, Counts, Uncounted, RequestsOf, Creating, InHand
  <1>10. ASSUME Expire, UNCHANGED crashes
        PROVE  Counts'
    <2>1. UNCHANGED <<pc, call, parties, crashes>>
      BY <1>10, ExpiryOnlyTakes
    <2>2. CASE ExpireScan
      BY <2>1, <2>2, CountsFewer
         DEF ExpireScan, Overdue, NoJob, Jobs, Counts, Uncounted, RequestsOf, Creating, InHand
    <2>3. CASE ExpireGet
      BY <2>1, <2>3, CountsFewer
         DEF ExpireGet, NoJob, Jobs, Counts, Uncounted, RequestsOf, Creating, InHand
    <2>4. CASE ExpireDel
      <3>1. /\ open' = open \ {job.id} /\ UNCHANGED <<pc, call, counted, parties, crashes>>
            /\ job' = [job EXCEPT !.at = "zrem"] /\ job'.id = job.id
        BY <2>1, <2>4 DEF ExpireDel, Jobs
      <3> QED
        BY <3>1, CountsFewer DEF Counts, Uncounted, RequestsOf, Creating, InHand
    <2>5. CASE ExpireZrem
      BY <2>1, <2>5, CountsFewer
         DEF ExpireZrem, NextExpired, NoJob, Jobs, Counts, Uncounted, RequestsOf, Creating, InHand
    <2>6. CASE ExpireSrem
      <3>1. /\ counted' = counted \ {job.id} /\ UNCHANGED <<open, pc, call, parties, crashes>>
            /\ job'.at = "get" /\ job.id \notin open
        BY <2>1, <2>6 DEF ExpireSrem, NextExpired, NoJob, Counts
      <3> QED
        BY <3>1, CountsFewer DEF Counts, Uncounted, RequestsOf, Creating, InHand
    <2>7. CASE ExpireRefund
      BY <2>1, <2>7, CountsFewer
         DEF ExpireRefund, NoJob, Jobs, Counts, Uncounted, RequestsOf, Creating, InHand
    <2> QED
      BY <1>10, <2>2, <2>3, <2>4, <2>5, <2>6, <2>7 DEF Expire
  <1>11. ASSUME OtherHandlers
        PROVE  Counts'
    BY <1>11, CountsFewer
       DEF OtherHandlers, Chat, Stop, Enter, Leave, Elsewhere, Counts, Uncounted, RequestsOf,
           Creating, InHand
  <1>12. ASSUME Crash
        PROVE  Counts'
    <2>1. /\ pc' = "idle" /\ job'.at = "off" /\ parties' = parties /\ crashes' = crashes + 1
          /\ counted' \subseteq counted /\ open' \ counted' \subseteq open \ counted
      BY <1>12 DEF Crash, NoJob
    <2>2. ASSUME NEW u \in Users
          PROVE  Cardinality(counted' \cap RequestsOf(u)') <= MaxActive
      <3> DEFINE taken == counted \cap RequestsOf(u)
                 after == counted' \cap RequestsOf(u)'
      <3>1. taken \in SUBSET Requests /\ after \in SUBSET taken /\ Cardinality(taken) <= MaxActive
        BY <2>1 DEF RequestsOf, Counts
      <3> HIDE DEF taken, after
      <3>2. Cardinality(after) <= MaxActive
        BY <3>1, FewerCount, RequestsFinite, ChatRequestsAssumption
      <3> QED
        BY <3>2 DEF after
    <2>3. Cardinality(Uncounted') <= crashes'
      <3>1. Uncounted \in SUBSET Requests /\ Uncounted' \in SUBSET (Uncounted \cup {call.id})
        BY <2>1 DEF KeyTypes, Uncounted, Creating
      <3>2. Uncounted' \in SUBSET Requests
        BY <2>1 DEF Uncounted, Creating, KeyTypes
      <3>3. Cardinality(Uncounted') <= Cardinality(Uncounted) + 1
        BY <3>1, OneMoreCounts
      <3>4. Cardinality(Uncounted') \in Nat /\ Cardinality(Uncounted) \in Nat /\ crashes \in Nat
            /\ Cardinality(Uncounted) <= crashes
        BY <3>1, <3>2, RequestsFinite DEF Counts
      <3> QED
        BY <2>1, <3>3, <3>4
    <2> QED
      BY <2>1, <2>2, <2>3 DEF Counts, Creating
  <1>13. ASSUME UNCHANGED vars
        PROVE  Counts'
    BY <1>13, CountsFewer
       DEF vars, Counts, Uncounted, RequestsOf, Creating, InHand
  <1> QED
    BY <1>1, <1>2, <1>3, <1>4, <1>5, <1>6, <1>7, <1>8, <1>9, <1>10, <1>11, <1>12, <1>13
       DEF Next, Update, Handle

LEMMA StepKeepsCInv == ASSUME CInv, [Next]_vars PROVE CInv'
  <1>1. TypeOK'
    BY KeyTypesKeep, OtherTypesKeep, CallTypeKeeps, JobTypeKeeps DEF TypeOK
  <1> QED
    BY <1>1, InHandKeeps, KeysDrawnKeep, UnansweredKeep, CountsKeep, FreeKeep, WholeKeeps DEF CInv

-----------------------------------------------------------------------------
(* The theorems. *)

\* However the handlers, the expiry job and the crashes of the bot interleave,
\* what a handler has read is still so when it acts on it (public_profile.py).
THEOREM RequestsCorrect == Spec => []CInv
  BY InitCInv, StepKeepsCInv, PTL DEF Spec

\* Every key, reading and counter has its type.
THEOREM RequestTypesAlwaysOK == Spec => []TypeOK
  <1>1. CInv => TypeOK
    BY DEF CInv
  <1> QED
    BY <1>1, RequestsCorrect, PTL

LEMMA LimitFromCounts == ASSUME CInv PROVE LimitHolds
  <1> SUFFICES ASSUME NEW u \in Users
               PROVE  Cardinality((open \cup counted) \cap RequestsOf(u)) <= MaxActive + crashes
    BY DEF LimitHolds
  <1> USE DEF CInv, TypeOK, KeyTypes
  <1> DEFINE mine == (open \cup counted) \cap RequestsOf(u)
             taken == counted \cap RequestsOf(u)
             creating == IF pc \in Creating /\ call.user = u THEN {call.id} ELSE {}
  <1>1. taken \in SUBSET Requests /\ Uncounted \in SUBSET Requests
    BY DEF RequestsOf, Uncounted
  <1>2. mine \subseteq (taken \cup creating) \cup Uncounted
    BY DEF RequestsOf, Uncounted, InHand
  <1>3. creating \subseteq Requests
    BY DEF InHand, Drawn
  <1>4. Cardinality(taken) <= MaxActive /\ (creating # {} => Cardinality(taken) < MaxActive)
    BY DEF Counts
  <1>5. Cardinality(Uncounted) <= crashes
    BY DEF Counts
  <1>6. creating = {} \/ creating = {call.id}
    OBVIOUS
  <1> HIDE DEF mine, taken, creating
  <1>7. Cardinality(taken \cup creating) <= MaxActive
    <2>1. Cardinality(taken) \in Nat /\ taken \cup creating \in SUBSET Requests
      BY <1>1, <1>3, RequestsFinite
    <2>2. CASE creating = {}
      BY <2>2, <1>4
    <2>3. CASE creating # {}
      <3>1. Cardinality(taken \cup creating) <= Cardinality(taken) + 1
        BY <1>1, <1>6, <2>3, OneMoreCounts
      <3>2. Cardinality(taken \cup creating) \in Nat
        BY <2>1, RequestsFinite
      <3> QED
        BY <1>4, <2>1, <2>3, <3>1, <3>2, ChatRequestsAssumption
    <2> QED
      BY <2>2, <2>3
  <1>8. /\ IsFiniteSet(taken \cup creating) /\ IsFiniteSet(Uncounted)
        /\ Cardinality(taken \cup creating) \in Nat /\ Cardinality(Uncounted) \in Nat
    BY <1>1, <1>3, RequestsFinite
  <1>9. /\ Cardinality((taken \cup creating) \cup Uncounted)
             = Cardinality(taken \cup creating) + Cardinality(Uncounted)
               - Cardinality((taken \cup creating) \cap Uncounted)
        /\ Cardinality((taken \cup creating) \cap Uncounted) \in Nat
    BY <1>1, <1>3, <1>8, FS_Union, RequestsFinite
  <1>10. (taken \cup creating) \cup Uncounted \in SUBSET Requests /\ mine \in SUBSET Requests
    BY <1>1, <1>2, <1>3
  <1>11. Cardinality(mine) <= Cardinality((taken \cup creating) \cup Uncounted)
         /\ Cardinality(mine) \in Nat
    BY <1>2, <1>10, FewerCount, RequestsFinite
  <1>12. Cardinality(mine) <= MaxActive + crashes
    BY <1>5, <1>7, <1>8, <1>9, <1>11, ChatRequestsAssumption
  <1> QED
    BY <1>12 DEF mine

\* count_active_chat_requests is read two awaits and three writes before the
\* SADD that it should see: still nobody has more requests that a target could
\* accept, or that count, than the limit and one for each crash.
THEOREM LimitAlwaysHolds == Spec => []LimitHolds
  BY LimitFromCounts, RequestsCorrect, PTL

\* Whatever the order of presses, deletes and expiries, at most one answer to a
\* request takes effect.
THEOREM AlwaysAnsweredOnce == Spec => []AnsweredOnce
  <1>1. CInv => AnsweredOnce
    BY DEF CInv, Unanswered
  <1> QED
    BY <1>1, RequestsCorrect, PTL

\* Between two updates, and unless the bot has crashed, a pair is mutual, has
\* its session, and neither of the two waits for another.
THEOREM PairsAlwaysWhole == Spec => []PairsAreWhole
  <1>1. CInv => PairsAreWhole
    BY DEF CInv, Whole, PairsAreWhole
  <1> QED
    BY <1>1, RequestsCorrect, PTL

\* No step puts a user who has a partner into another chat, with crashes too:
\* accept reads both users before it clears the request, and pairs them after.
THEOREM NobodyEverTakenAway == Spec => NobodyTakenAway
  <1>1. ASSUME CInv, [Next]_vars, NEW u \in Users, partner[u] # None
        PROVE  partner'[u] \in {partner[u], None}
    <2> USE DEF CInv, TypeOK, OtherTypes
    <2>1. CASE AcceptPair
      BY <1>1, <2>1 DEF AcceptPair, Free, InHand, Accepting
    <2>2. ASSUME NEW v \in Users, NEW w \in Users, Chat(v, w)
          PROVE  partner'[u] \in {partner[u], None}
      BY <1>1, <2>2 DEF Chat, Elsewhere
    <2>3. ASSUME NEW v \in Users, Stop(v)
          PROVE  partner'[u] \in {partner[u], None}
      BY <1>1, <2>3 DEF Stop
    <2>4. CASE UNCHANGED partner
      BY <2>4
    <2>5. \/ AcceptPair \/ UNCHANGED partner
          \/ \E v \in Users : \E w \in Users : Chat(v, w)
          \/ \E v \in Users : Stop(v)
      <3> USE DEF chats
      <3>1. CASE Update
        BY <3>1, ZenonT(60) DEF Update, Button, View, Answer
      <3>2. CASE Handle
        BY <3>2, ZenonT(60)
           DEF Handle, CountActive, Ask, Deduct, Create, Notify, Require, ClearGet, ClearDel, ClearZrem,
               ClearSrem, AcceptGet, AcceptBusy, AcceptGo, AcceptDequeue, AcceptSession, RejectGet,
               RejectRefund
      <3>3. CASE Expire
        BY <3>3 DEF Expire
      <3>4. CASE OtherHandlers
        BY <3>4 DEF OtherHandlers, Enter, Leave
      <3>5. CASE Crash
        BY <3>5 DEF Crash
      <3>6. CASE UNCHANGED vars
        BY <3>6 DEF vars
      <3> QED
        BY <1>1, <3>1, <3>2, <3>3, <3>4, <3>5, <3>6, ZenonT(60) DEF Next
    <2> QED
      BY <2>1, <2>2, <2>3, <2>4, <2>5
  <1>2. ASSUME CInv, [Next]_vars
        PROVE  [\A u \in Users : partner[u] # None => partner'[u] \in {partner[u], None}]_vars
    BY <1>1, <1>2
  <1> QED
    BY <1>2, RequestsCorrect, PTL DEF Spec, NobodyTakenAway
=============================================================================

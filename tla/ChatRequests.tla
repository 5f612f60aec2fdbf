---------------------------- MODULE ChatRequests ----------------------------
(***************************************************************************)
(* Chat requests: handlers/public_profile.py over the three redis keys of  *)
(* a request (redis_client.py), and the job of main.py that expires them,  *)
(* one redis command or one Postgres transaction to a step.                *)
(*                                                                         *)
(* The bot handles one update at a time; between any two of its awaits the *)
(* expiry job, every 30 seconds, may run.  What other handlers do to the   *)
(* chats, the queues and the rooms is one step each: OneToOne and          *)
(* RoomJoinQueue have the detail.  A crash of the bot leaves redis as it   *)
(* is and loses the handler and the run of the job; one that lasts a day   *)
(* outlives the keys that have a time to live.                             *)
(*                                                                         *)
(* Time is not modelled: a pending request may be found older than         *)
(* CHAT_REQUEST_TIMEOUT_SECONDS at any moment after its creation.          *)
(***************************************************************************)
EXTENDS Naturals, FiniteSets

CONSTANTS Users, None,
          Requests,      \* bound: the ids create_chat_request may draw
          MaxActive,     \* MAX_ACTIVE_CHAT_REQUESTS_PER_USER
          InitialCoins,  \* in units of CHAT_COIN_COST
          Others,        \* what else happens, of "chat", "wait", "room"
          Crashes        \* bound: the number of crashes of the bot

ASSUME ChatRequestsAssumption ==
  /\ None \notin Users \cup [from : Users, to : Users]
  /\ IsFiniteSet(Requests)
  /\ MaxActive \in Nat /\ InitialCoins \in Nat /\ Crashes \in Nat

VARIABLES open,      \* the ids with a chatreq key
          pending,   \* the ids in the sorted set chatreq_pending
          counted,   \* the ids in a chatreq_by_requester set
          parties,   \* id -> [from, to], None before the id is drawn
          shown,     \* id -> the message the target has
          answers,   \* history: id -> answers that took effect
          expiries,  \* history: id -> refunds of the expiry job
          coins,     \* user -> users.coins
          partner,   \* user -> partner key, or None
          sessions,  \* the pairs with session_id keys
          waiting,   \* the users in the queue of the 1:1 chat
          rooms,     \* the users in a room or in the room queue
          pc,        \* the handler's next step
          call,      \* what the handler has read
          job,       \* the expiry job: its next step and what it has read
          crashes    \* crashes so far

keys == <<open, pending, counted, parties, shown>>
history == <<answers, expiries>>
chats == <<partner, sessions, waiting, rooms>>
vars == <<keys, history, coins, chats, pc, call, job, crashes>>

Commands == {"button", "accept", "reject"}
Shown == {"nothing", "notice", "profile"}

NoCall == [command |-> "button", user |-> None, other |-> None, id |-> None,
           data |-> FALSE, free |-> FALSE]
NoJob == [at |-> "off", todo |-> {}, id |-> None, data |-> FALSE, refunds |-> {}]

Init ==
  /\ open = {} /\ pending = {} /\ counted = {}
  /\ parties = [r \in Requests |-> None]
  /\ shown = [r \in Requests |-> "nothing"]
  /\ answers = [r \in Requests |-> 0] /\ expiries = [r \in Requests |-> 0]
  /\ coins = [u \in Users |-> InitialCoins]
  /\ partner = [u \in Users |-> None]
  /\ sessions = {} /\ waiting = {} /\ rooms = {}
  /\ pc = "idle" /\ call = NoCall /\ job = NoJob
  /\ crashes = 0

RequestsOf(u) == {r \in Requests : parties[r] # None /\ parties[r].from = u}

-----------------------------------------------------------------------------
(* Steps of a handler. *)

Goto(label) == pc' = label
Done == pc' = "idle" /\ call' = NoCall

\* A step that only reads: on to the next one, or an early return.
Require(condition, label) ==
  /\ IF condition THEN Goto(label) /\ UNCHANGED call ELSE Done
  /\ UNCHANGED <<keys, history, coins, chats>>

Pay(u) == coins' = [coins EXCEPT ![u] = @ + 1]

\* Answers and refunds are counted up to 2, which no property tells from more.
Count(n) == IF n < 2 THEN n + 1 ELSE n

-----------------------------------------------------------------------------
(* handle_chat_request_button *)

Button(u, v) ==
  /\ pc = "idle" /\ u # v
  /\ Goto("count")
  /\ call' = [NoCall EXCEPT !.user = u, !.other = v]
  /\ UNCHANGED <<keys, history, coins, chats>>

\* Mutant: the limit is off by one.
CountOneMore ==
  /\ pc = "count"
  /\ Require(Cardinality(counted \cap RequestsOf(call.user)) <= MaxActive, "ask")

CountActive ==
  /\ pc = "count"
  /\ Require(Cardinality(counted \cap RequestsOf(call.user)) < MaxActive, "ask")

\* The other questions are about what only handlers write, or, the requester's
\* room, about what meanwhile can only end.  The target may have blocked the
\* requester or be silent.
Ask ==
  /\ pc = "ask"
  /\ \E refused \in BOOLEAN :
       Require(/\ partner[call.user] = None /\ call.user \notin rooms
               /\ partner[call.other] = None /\ ~refused, "deduct")

\* Mutant: the coin is taken whether there is one or not.
DeductBlindly ==
  /\ pc = "deduct"
  /\ coins' = [coins EXCEPT ![call.user] = @ - 1]
  /\ Goto("set")
  /\ UNCHANGED <<keys, history, chats, call>>

Deduct ==
  /\ pc = "deduct"
  /\ IF coins[call.user] = 0
     THEN Done /\ UNCHANGED coins
     ELSE /\ coins' = [coins EXCEPT ![call.user] = @ - 1]
          /\ Goto("set")
          /\ UNCHANGED call
  /\ UNCHANGED <<keys, history, chats>>

\* create_chat_request: SET, ZADD and SADD; then the notice to the target.
Create ==
  /\ \/ /\ pc = "set"
        /\ \E r \in {x \in Requests : parties[x] = None} :
             /\ parties' = [parties EXCEPT ![r] = [from |-> call.user, to |-> call.other]]
             /\ open' = open \cup {r}
             /\ call' = [call EXCEPT !.id = r]
        /\ Goto("zadd")
        /\ UNCHANGED <<pending, counted, shown>>
     \/ /\ pc = "zadd"
        /\ pending' = pending \cup {call.id}
        /\ Goto("sadd")
        /\ UNCHANGED <<open, counted, parties, shown, call>>
     \/ /\ pc = "sadd"
        /\ counted' = counted \cup {call.id}
        /\ Goto("notify")
        /\ UNCHANGED <<open, pending, parties, shown, call>>
  /\ UNCHANGED <<history, coins, chats>>

\* The send may fail, which is only logged.
Notify ==
  /\ pc = "notify"
  /\ \E message \in {"notice", "nothing"} : shown' = [shown EXCEPT ![call.id] = message]
  /\ Done
  /\ UNCHANGED <<open, pending, counted, parties, history, coins, chats>>

\* handle_view_chat_request: the notice becomes the profile with its buttons.
View(r) ==
  /\ pc = "idle" /\ shown[r] = "notice"
  /\ shown' = [shown EXCEPT ![r] = IF r \in open THEN "profile" ELSE "nothing"]
  /\ UNCHANGED <<open, pending, counted, parties, history, coins, chats, pc, call>>

-----------------------------------------------------------------------------
(* clear_chat_request, for accept and reject *)

ClearGet ==
  /\ pc = "clear:get"
  /\ call' = [call EXCEPT !.data = call.id \in open]
  /\ Goto("clear:del")
  /\ UNCHANGED <<keys, history, coins, chats>>

\* Mutant: the request stays readable.
ClearNothing ==
  /\ pc = "clear:del"
  /\ Goto("clear:zrem")
  /\ UNCHANGED <<keys, history, coins, chats, call>>

ClearDel ==
  /\ pc = "clear:del"
  /\ open' = open \ {call.id}
  /\ Goto("clear:zrem")
  /\ UNCHANGED <<pending, counted, parties, shown, history, coins, chats, call>>

\* What follows clear_chat_request: the pairing of an accept, the end of an
\* accept refused, the refund of a reject.
AfterClear ==
  \/ call.command = "accept" /\ call.free /\ Goto("dequeue") /\ UNCHANGED <<call, answers>>
  \/ /\ call.command = "accept" /\ ~call.free
     /\ answers' = [answers EXCEPT ![call.id] = Count(@)]
     /\ Done
  \/ /\ call.command = "reject"
     /\ Goto("refund")
     /\ UNCHANGED <<call, answers>>

ClearZrem ==
  /\ pc = "clear:zrem"
  /\ pending' = pending \ {call.id}
  /\ IF call.data THEN Goto("clear:srem") /\ UNCHANGED <<call, answers>> ELSE AfterClear
  /\ UNCHANGED <<open, counted, parties, shown, expiries, coins, chats>>

ClearSrem ==
  /\ pc = "clear:srem"
  /\ counted' = counted \ {call.id}
  /\ AfterClear
  /\ UNCHANGED <<open, pending, parties, shown, expiries, coins, chats>>

-----------------------------------------------------------------------------
(* handle_chat_request_accept and handle_chat_request_reject *)

\* One of the two buttons under the profile; it may be pressed again.
Answer(r, command) ==
  /\ pc = "idle" /\ shown[r] = "profile"
  /\ Goto(command)
  /\ call' = [NoCall EXCEPT !.command = command, !.id = r,
                            !.user = parties[r].to, !.other = parties[r].from]
  /\ UNCHANGED <<keys, history, coins, chats>>

AcceptGet == pc = "accept" /\ Require(call.id \in open, "busy")

AcceptGo(free) ==
  /\ call' = [call EXCEPT !.free = free]
  /\ Goto("clear:get")
  /\ UNCHANGED <<keys, history, coins, chats>>

\* Mutant: only the acceptor is asked about.
AcceptAskOne ==
  /\ pc = "busy"
  /\ AcceptGo(call.user \notin waiting \cup rooms /\ partner[call.user] = None)

\* get_partner, is_waiting and check_room_conflict of both.
AcceptBusy ==
  /\ pc = "busy"
  /\ AcceptGo(\A u \in {call.user, call.other} : u \notin waiting \cup rooms /\ partner[u] = None)

AcceptDequeue ==
  /\ pc = "dequeue"
  /\ waiting' = waiting \ {call.user, call.other}
  /\ Goto("pair:user")
  /\ UNCHANGED <<keys, history, coins, partner, sessions, rooms, call>>

\* Mutant: set_partner sets one key only.
AcceptPairOneSide ==
  /\ pc = "pair:user"
  /\ partner' = [partner EXCEPT ![call.user] = call.other]
  /\ answers' = [answers EXCEPT ![call.id] = Count(@)]
  /\ Goto("session")
  /\ UNCHANGED <<keys, expiries, coins, sessions, waiting, rooms, call>>

AcceptPair ==
  /\ \/ /\ pc = "pair:user"
        /\ partner' = [partner EXCEPT ![call.user] = call.other]
        /\ answers' = [answers EXCEPT ![call.id] = Count(@)]
        /\ Goto("pair:other")
     \/ /\ pc = "pair:other"
        /\ partner' = [partner EXCEPT ![call.other] = call.user]
        /\ Goto("session")
        /\ UNCHANGED answers
  /\ UNCHANGED <<keys, expiries, coins, sessions, waiting, rooms, call>>

AcceptSession ==
  /\ pc = "session"
  /\ sessions' = sessions \cup {{call.user, call.other}}
  /\ Done
  /\ UNCHANGED <<keys, history, coins, partner, waiting, rooms>>

\* reject clears whatever it has read, and refunds if it has read something.
RejectGet ==
  /\ pc = "reject"
  /\ AcceptGo(call.id \in open)

RejectRefund ==
  /\ pc = "refund"
  /\ IF call.free
     THEN Pay(call.other) /\ answers' = [answers EXCEPT ![call.id] = Count(@)]
     ELSE UNCHANGED <<coins, answers>>
  /\ Done
  /\ UNCHANGED <<keys, expiries, chats>>

Update ==
  \/ \E u, v \in Users : Button(u, v)
  \/ \E r \in Requests : View(r) \/ \E command \in {"accept", "reject"} : Answer(r, command)

Handle ==
  \/ CountActive \/ Ask \/ Deduct \/ Create \/ Notify
  \/ ClearGet \/ ClearDel \/ ClearZrem \/ ClearSrem
  \/ AcceptGet \/ AcceptBusy \/ AcceptDequeue \/ AcceptPair \/ AcceptSession
  \/ RejectGet \/ RejectRefund

-----------------------------------------------------------------------------
(* _expire_chat_requests_job *)

\* ZRANGEBYSCORE up to the cutoff: not those whose creation is under way.
Overdue == {r \in pending : pc = "sadd" => r # call.id}

ExpireScan ==
  /\ job.at = "off"
  /\ \E S \in SUBSET Overdue \ {{}} : job' = [job EXCEPT !.at = "get", !.todo = S]
  /\ UNCHANGED <<keys, history, coins>>

NextExpired(refunds) == [NoJob EXCEPT !.at = "get", !.todo = job.todo, !.refunds = refunds]

ExpireGet ==
  /\ job.at = "get" /\ job.todo # {}
  /\ \E r \in job.todo :
       job' = [job EXCEPT !.at = "del", !.todo = @ \ {r}, !.id = r, !.data = r \in open]
  /\ UNCHANGED <<keys, history, coins>>

ExpireDel ==
  /\ job.at = "del"
  /\ open' = open \ {job.id}
  /\ job' = [job EXCEPT !.at = "zrem"]
  /\ UNCHANGED <<pending, counted, parties, shown, history, coins>>

\* Mutant: a request that was answered meanwhile is left in the sorted set.
ExpireZremOnlyOpen ==
  /\ job.at = "zrem"
  /\ IF job.data THEN pending' = pending \ {job.id} ELSE UNCHANGED pending
  /\ job' = IF job.data THEN [job EXCEPT !.at = "srem"] ELSE NextExpired(job.refunds)
  /\ UNCHANGED <<open, counted, parties, shown, history, coins>>

ExpireZrem ==
  /\ job.at = "zrem"
  /\ pending' = pending \ {job.id}
  /\ job' = IF job.data THEN [job EXCEPT !.at = "srem"] ELSE NextExpired(job.refunds)
  /\ UNCHANGED <<open, counted, parties, shown, history, coins>>

ExpireSrem ==
  /\ job.at = "srem"
  /\ counted' = counted \ {job.id}
  /\ job' = NextExpired(job.refunds \cup {job.id})
  /\ UNCHANGED <<open, pending, parties, shown, history, coins>>

\* When all are gone from redis, the refunds, one transaction each.
ExpireRefund ==
  /\ job.at = "get" /\ job.todo = {}
  /\ \/ job.refunds = {} /\ job' = NoJob /\ UNCHANGED <<coins, expiries>>
     \/ \E r \in job.refunds :
          /\ Pay(parties[r].from)
          /\ expiries' = [expiries EXCEPT ![r] = Count(@)]
          /\ job' = [job EXCEPT !.refunds = @ \ {r}]
  /\ UNCHANGED <<keys, answers>>

Expire ==
  /\ \/ ExpireScan \/ ExpireGet \/ ExpireDel \/ ExpireZrem \/ ExpireSrem \/ ExpireRefund
  /\ UNCHANGED <<chats, pc, call>>

-----------------------------------------------------------------------------
(* Other handlers and jobs. *)

Elsewhere(u) == u \in waiting \cup rooms \/ partner[u] # None

Chat(u, v) ==
  /\ "chat" \in Others /\ pc = "idle"
  /\ u # v /\ ~Elsewhere(u) /\ ~Elsewhere(v)
  /\ partner' = [partner EXCEPT ![u] = v, ![v] = u]
  /\ sessions' = sessions \cup {{u, v}}
  /\ UNCHANGED <<waiting, rooms>>

Stop(u) ==
  /\ "chat" \in Others /\ pc = "idle" /\ partner[u] # None
  /\ partner' = [partner EXCEPT ![u] = None, ![partner[u]] = None]
  /\ sessions' = sessions \ {{u, partner[u]}}
  /\ UNCHANGED <<waiting, rooms>>

\* A search begins with an update; it may end, and a room be left, at any time.
Enter(u) ==
  /\ pc = "idle" /\ ~Elsewhere(u)
  /\ \/ "wait" \in Others /\ waiting' = waiting \cup {u} /\ UNCHANGED rooms
     \/ "room" \in Others /\ rooms' = rooms \cup {u} /\ UNCHANGED waiting
  /\ UNCHANGED <<partner, sessions>>

Leave(u) ==
  /\ u \in waiting \cup rooms
  /\ waiting' = waiting \ {u} /\ rooms' = rooms \ {u}
  /\ UNCHANGED <<partner, sessions>>

OtherHandlers ==
  /\ \/ \E u, v \in Users : Chat(u, v)
     \/ \E u \in Users : Stop(u) \/ Enter(u) \/ Leave(u)
  /\ UNCHANGED <<keys, history, coins, pc, call, job, crashes>>

\* The bot stops and is started again, at once or after a day.
Crash ==
  /\ crashes < Crashes
  /\ crashes' = crashes + 1
  /\ pc' = "idle" /\ call' = NoCall /\ job' = NoJob
  /\ \/ UNCHANGED <<open, counted>>
     \/ open' = {} /\ counted' = {}
  /\ UNCHANGED <<pending, parties, shown, history, coins, chats>>

Next ==
  \/ (Update \/ Handle) /\ UNCHANGED <<job, crashes>>
  \/ Expire /\ UNCHANGED crashes
  \/ OtherHandlers \/ Crash

Spec == Init /\ [][Next]_vars

\* A handler and a run of the job go on to their end, and as long as there are
\* pending requests some run of the job finds some of them overdue.
FairSpec ==
  /\ Spec
  /\ WF_vars(Handle /\ UNCHANGED <<job, crashes>>)
  /\ WF_vars(Expire /\ UNCHANGED crashes)

-----------------------------------------------------------------------------
(* Properties *)

Labels ==
  {"idle", "count", "ask", "deduct", "set", "zadd", "sadd", "notify",
   "clear:get", "clear:del", "clear:zrem", "clear:srem",
   "accept", "busy", "dequeue", "pair:user", "pair:other", "session", "reject", "refund"}

Calls == [command : Commands, user : Users \cup {None}, other : Users \cup {None},
          id : Requests \cup {None}, data : BOOLEAN, free : BOOLEAN]
Jobs == [at : {"off", "get", "del", "zrem", "srem"}, todo : SUBSET Requests,
         id : Requests \cup {None}, data : BOOLEAN, refunds : SUBSET Requests]

KeyTypes ==
  /\ open \subseteq Requests /\ pending \subseteq Requests
  /\ counted \subseteq Requests
  /\ parties \in [Requests -> [from : Users, to : Users] \cup {None}]
  /\ shown \in [Requests -> Shown]

OtherTypes ==
  /\ answers \in [Requests -> 0 .. 2] /\ expiries \in [Requests -> 0 .. 2]
  /\ coins \in [Users -> Nat]
  /\ partner \in [Users -> Users \cup {None}]
  /\ sessions \subseteq SUBSET Users
  /\ waiting \subseteq Users /\ rooms \subseteq Users

TypeOK ==
  /\ KeyTypes /\ OtherTypes
  /\ pc \in Labels /\ call \in Calls /\ job \in Jobs
  /\ crashes \in 0 .. Crashes

\* However creations, answers and expiries interleave, nobody has more than
\* MAX_ACTIVE_CHAT_REQUESTS_PER_USER requests that a target could accept or
\* that count; a crash between SET and SADD lets one through uncounted.
LimitHolds ==
  \A u \in Users :
    Cardinality((open \cup counted) \cap RequestsOf(u)) <= MaxActive + crashes

\* Buttons pressed twice, or both: one answer at most takes effect, whatever
\* the expiry job does between the reads and the deletes of clear_chat_request.
AnsweredOnce == \A r \in Requests : answers[r] <= 1

\* An accepted request makes a pair of two free users: nobody is taken out of
\* a chat to be put into another.
NobodyTakenAway ==
  [][\A u \in Users : partner[u] # None => partner'[u] \in {partner[u], None}]_vars

\* Between two updates the pairs are mutual and have their session; a crash
\* may come between the steps that make a pair.
PairsAreWhole ==
  pc = "idle" /\ crashes = 0 =>
    \A u \in Users : partner[u] # None =>
      /\ partner[u] # u /\ partner[partner[u]] = u
      /\ {u, partner[u]} \in sessions
      /\ u \notin waiting

\* Every request leaves the sorted set, crash or no crash; without a crash it
\* frees its requester's slot and is answered or paid back.
EveryRequestEnds ==
  \A r \in Requests :
    parties[r] # None ~>
      /\ r \notin pending
      /\ crashes = 0 => r \notin counted /\ answers[r] + expiries[r] > 0

\* What the docstring of pop_expired_chat_requests says: who was answered is
\* not refunded by the expiry.
SettledOnce == \A r \in Requests : answers[r] + expiries[r] <= 1
=============================================================================

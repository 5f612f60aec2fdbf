----------------------------- MODULE OneToOne -----------------------------
(***************************************************************************)
(* The anonymous 1:1 chat: handlers/chat/matching.py, handlers/chat/       *)
(* session.py and handlers/search.py over the keys of redis_client.py, and *)
(* the chat's end in ban_enforcement.py, one redis command, one coin       *)
(* transaction or one change of the job queue to a step.                   *)
(*                                                                         *)
(* The bot handles one update at a time (the task Bot); while a handler    *)
(* awaits, the timeout jobs of queued users run, the purge of the queue    *)
(* runs, and a verdict of the worker process closes a chat.  A crash of    *)
(* the bot leaves redis as it is and loses the handler and every job.      *)
(*                                                                         *)
(* Time is not modelled: a timeout may fire, and an entry of the queue may *)
(* count as expired, at any moment.  Of several compatible candidates any  *)
(* may be claimed.  A chat has had 3 messages or it has not (talked).      *)
(***************************************************************************)
EXTENDS Naturals

CONSTANTS Users, None,
          Bot,           \* the dispatcher of updates
          Verdicts,      \* verdicts of the worker under way
          Men,           \* the users whose profile says male; the others female
          Events,        \* what happens, of "start", "search", "next", "stop", "talk",
                         \* "timeout", "purge"
          Wishes,        \* the desired genders users ask for; AnyGender is the free search
          AnyGender,
          AskFirst,      \* no preference is saved, so /next only asks for one
          InitialCoins,  \* in units of CHAT_COIN_COST
          CoinBound,     \* bound: refunds beyond it are not counted
          Slots,         \* bound: the timeout jobs a user may have at a time
          Crashes        \* bound: the number of crashes of the bot

Genders == {"male", "female"}

ASSUME OneToOneAssumption ==
  /\ None \notin Users
  /\ Men \subseteq Users
  /\ Bot \notin Verdicts
  /\ Wishes \subseteq Genders
  /\ InitialCoins \in Nat /\ CoinBound \in Nat /\ InitialCoins <= CoinBound
  /\ Crashes \in Nat

Tasks == {Bot} \cup Verdicts
Commands == {"start", "search", "next", "stop"}
Gender(u) == IF u \in Men THEN "male" ELSE "female"

VARIABLES queue,     \* the users in waiting_queue:male or :female
          desired,   \* user -> desired_gender key, or None
          partner,   \* user -> partner key, or None
          payer,     \* the users with a chat_payer key
          talked,    \* the pairs whose chat_msg_count has reached 3
          coins,     \* user -> users.coins
          served,    \* history: the users who paid for a chat of 3 messages
          banned,    \* the users with is_banned
          job,       \* user -> slot -> state of a queue_timeout job
          pc,        \* task -> its next step
          call,      \* task -> what its handler has read
          crashes    \* crashes so far

redis == <<queue, desired, partner, payer, talked>>
money == <<coins, served>>
vars == <<redis, money, banned, job, pc, call, crashes>>

BotLabels ==
  {"idle", "has:partner", "is:waiting", "charge", "flag", "match", "schedule",
   "unpin:user", "unpin:other", "pair:user", "pair:other",
   "leaves:queue", "cancel:zrem", "cancel:wish", "cancel:unpin", "cancel:paid", "cancel:refund",
   "cancel:flag", "end:read", "clear:get", "clear:user", "clear:other", "clear:flags", "refund",
   "next:zrem", "next:wish",
   "scan", "claim:zrem", "claim:wish", "claim:partner", "self:zrem", "self:wish"}

JobStates == {"off", "scheduled", "zrem", "wish", "unpin", "paid", "refund", "flag"}

\* command, the user who gave it, the other user, the desired gender, what
\* stop and next read before clear_partner, the result of dequeue.
NoCall == [command |-> None, user |-> None, other |-> None, wish |-> AnyGender,
           talked |-> FALSE, paid |-> {}, claimed |-> FALSE]

Called(command, u, wish) ==
  [NoCall EXCEPT !.command = command, !.user = u, !.wish = wish]

Init ==
  /\ queue = {} /\ payer = {} /\ talked = {} /\ served = {} /\ banned = {}
  /\ desired = [u \in Users |-> None]
  /\ partner = [u \in Users |-> None]
  /\ coins = [u \in Users |-> InitialCoins]
  /\ job = [u \in Users |-> [s \in Slots |-> "off"]]
  /\ pc = [t \in Tasks |-> "idle"]
  /\ call = [t \in Tasks |-> NoCall]
  /\ crashes = 0

-----------------------------------------------------------------------------
(* Redis commands and their like. *)

Goto(t, label) == pc' = [pc EXCEPT ![t] = label]
Find(t, v) == call' = [call EXCEPT ![t].other = v]

Done(t) ==
  /\ Goto(t, "idle")
  /\ call' = [call EXCEPT ![t] = NoCall]

\* The two halves of dequeue: ZREM on both queues, DEL of the wish.
Zrem(u) == queue' = queue \ {u} /\ UNCHANGED <<desired, partner, payer, talked>>
DelWish(u) == desired' = [desired EXCEPT ![u] = None] /\ UNCHANGED <<queue, partner, payer, talked>>

SetPartner(u, v) ==
  partner' = [partner EXCEPT ![u] = v] /\ UNCHANGED <<queue, desired, payer, talked>>

SetFlags(users) == payer' = users /\ UNCHANGED <<queue, desired, partner, talked>>

\* get_jobs_by_name and schedule_removal: a running job is not stopped.
CancelJobs(u) ==
  job' = [job EXCEPT ![u] = [s \in Slots |-> IF @[s] = "scheduled" THEN "off" ELSE @[s]]]

Refund(users) ==
  coins' = [u \in Users |->
              IF u \in users /\ coins[u] < CoinBound THEN coins[u] + 1 ELSE coins[u]]

-----------------------------------------------------------------------------
(* start_chat with a saved preference, handle_desired_gender_callback and  *)
(* run_search, up to the coins.  The room conflict check is in its own     *)
(* module.                                                                 *)

FirstLabel(command) ==
  CASE command \in {"start", "search"} -> "has:partner"
    [] command = "stop" -> "leaves:queue"
    [] command = "next" -> "end:read"

\* reject_banned_users lets the update through, or stops it.
Update(t) ==
  /\ t = Bot /\ pc[t] = "idle"
  /\ \E u \in Users \ banned : \E command \in Events \cap Commands :
     \E wish \in Wishes \cup {AnyGender, AskFirst} :
       /\ command = "stop" => wish = AnyGender
       /\ wish = AskFirst => command = "next"
       /\ command # "stop" => \E s \in Slots : job[u][s] = "off"
       /\ Goto(t, FirstLabel(command))
       /\ call' = [call EXCEPT ![t] = Called(command, u, wish)]
  /\ UNCHANGED <<redis, money, banned, job, crashes>>

\* Mutant: a paired user may search on.
IgnorePartner(t) ==
  /\ pc[t] = "has:partner"
  /\ Goto(t, IF call[t].command = "start" THEN "is:waiting" ELSE "charge")
  /\ UNCHANGED <<redis, money, job, call>>

HasPartner(t) ==
  /\ pc[t] = "has:partner"
  /\ IF partner[call[t].user] # None
     THEN Done(t)
     ELSE /\ Goto(t, IF call[t].command = "start" THEN "is:waiting" ELSE "charge")
          /\ UNCHANGED call
  /\ UNCHANGED <<redis, money, job>>

IsWaiting(t) ==
  /\ pc[t] = "is:waiting"
  /\ IF call[t].user \in queue THEN Done(t) ELSE Goto(t, "charge") /\ UNCHANGED call
  /\ UNCHANGED <<redis, money, job>>

AfterCharge(t) == IF call[t].command = "search" THEN "scan" ELSE "match"

\* deduct_coins, when a gender is asked for.
Charge(t) ==
  LET u == call[t].user
  IN  /\ pc[t] = "charge"
      /\ \/ call[t].wish = AnyGender /\ Goto(t, AfterCharge(t)) /\ UNCHANGED <<call, coins>>
         \/ call[t].wish # AnyGender /\ coins[u] = 0 /\ Done(t) /\ UNCHANGED coins
         \/ /\ call[t].wish # AnyGender /\ coins[u] > 0
            /\ coins' = [coins EXCEPT ![u] = @ - 1]
            /\ Goto(t, "flag")
            /\ UNCHANGED call
      /\ UNCHANGED <<redis, served, job>>

SetChatPayer(t) ==
  /\ pc[t] = "flag"
  /\ SetFlags(payer \cup {call[t].user})
  /\ Goto(t, AfterCharge(t))
  /\ UNCHANGED <<money, job, call>>

-----------------------------------------------------------------------------
(* try_match *)

\* The Lua script looks in the queue of the desired gender, or in both, for
\* another user who wants anyone or the searcher's gender.
Candidates(u, wish) ==
  {v \in queue \ {u} : /\ wish = AnyGender \/ Gender(v) = wish
                       /\ desired[v] \in {None, Gender(u)}}

\* Mutant: the free search stores its "any" as a desired gender.
EnqueueAny(t) ==
  LET u == call[t].user
  IN  /\ pc[t] = "match" /\ Candidates(u, call[t].wish) = {}
      /\ queue' = queue \cup {u}
      /\ desired' = [desired EXCEPT ![u] = call[t].wish]
      /\ Goto(t, "schedule")
      /\ UNCHANGED <<partner, payer, talked, money, job, call>>

Enqueue(t) ==
  LET u == call[t].user
      wish == call[t].wish
  IN  /\ pc[t] = "match" /\ Candidates(u, wish) = {}
      /\ queue' = queue \cup {u}
      /\ desired' = [desired EXCEPT ![u] = IF wish = AnyGender THEN None ELSE wish]
      /\ Goto(t, "schedule")
      /\ UNCHANGED <<partner, payer, talked, money, job, call>>

\* Mutant: the matched candidate stays in the queue.
MatchKeeping(t) ==
  /\ pc[t] = "match"
  /\ \E v \in Candidates(call[t].user, call[t].wish) : DelWish(v) /\ Find(t, v)
  /\ Goto(t, "unpin:user")
  /\ UNCHANGED <<money, job>>

Match(t) ==
  /\ pc[t] = "match"
  /\ \E v \in Candidates(call[t].user, call[t].wish) :
       /\ queue' = queue \ {v}
       /\ desired' = [desired EXCEPT ![v] = None]
       /\ Find(t, v)
  /\ Goto(t, "unpin:user")
  /\ UNCHANGED <<partner, payer, talked, money, job>>

\* _MATCH_OR_ENQUEUE_LUA, one step either way.
MatchOrEnqueue(t) == Match(t) \/ Enqueue(t)

\* job_queue.run_once, after the message was sent and pinned.
ScheduleTimeout(t) ==
  LET u == call[t].user
  IN  /\ pc[t] = "schedule"
      /\ \E s \in Slots : job[u][s] = "off" /\ job' = [job EXCEPT ![u][s] = "scheduled"]
      /\ Done(t)
      /\ UNCHANGED <<redis, money>>

Unpin(t) ==
  /\ \/ pc[t] = "unpin:user" /\ CancelJobs(call[t].user) /\ Goto(t, "unpin:other")
     \/ pc[t] = "unpin:other" /\ CancelJobs(call[t].other) /\ Goto(t, "pair:user")
  /\ UNCHANGED <<redis, money, call>>

\* set_partner: two SETs.
PairUp(t) ==
  LET u == call[t].user
      v == call[t].other
  IN  /\ \/ pc[t] = "pair:user" /\ SetPartner(u, v) /\ Goto(t, "pair:other") /\ UNCHANGED call
         \/ pc[t] = "pair:other" /\ SetPartner(v, u) /\ Done(t)
      /\ UNCHANGED <<money, job>>

-----------------------------------------------------------------------------
(* stop_chat of a queued user *)

LeavesQueue(t) ==
  /\ pc[t] = "leaves:queue"
  /\ Goto(t, IF call[t].user \in queue THEN "cancel:zrem" ELSE "end:read")
  /\ UNCHANGED <<redis, money, job, call>>

CancelDequeue(t) ==
  /\ \/ pc[t] = "cancel:zrem" /\ Zrem(call[t].user) /\ Goto(t, "cancel:wish")
     \/ pc[t] = "cancel:wish" /\ DelWish(call[t].user) /\ Goto(t, "cancel:unpin")
  /\ UNCHANGED <<money, job, call>>

CancelUnpin(t) ==
  /\ pc[t] = "cancel:unpin"
  /\ CancelJobs(call[t].user)
  /\ Goto(t, "cancel:paid")
  /\ UNCHANGED <<redis, money, call>>

CancelPaid(t) ==
  /\ pc[t] = "cancel:paid"
  /\ IF call[t].user \in payer THEN Goto(t, "cancel:refund") /\ UNCHANGED call ELSE Done(t)
  /\ UNCHANGED <<redis, money, job>>

CancelRefund(t) ==
  \/ /\ pc[t] = "cancel:refund"
     /\ Refund({call[t].user})
     /\ Goto(t, "cancel:flag")
     /\ UNCHANGED <<redis, served, job, call>>
  \/ /\ pc[t] = "cancel:flag"
     /\ SetFlags(payer \ {call[t].user})
     /\ Done(t)
     /\ UNCHANGED <<money, job>>

-----------------------------------------------------------------------------
(* stop_chat and next_chat of a paired user *)

ReadBeforeEnd(t) ==
  LET u == call[t].user
      v == partner[u]
  IN  /\ pc[t] = "end:read"
      /\ call' = [call EXCEPT ![t].talked = v # None /\ {u, v} \in talked,
                              ![t].paid = payer \cap {u, v}]
      /\ Goto(t, "clear:get")
      /\ UNCHANGED <<redis, money, job>>

\* What comes after clear_partner and, for a chat that was ended, its coins.
AfterEnd(t) == IF call[t].command = "next" THEN Goto(t, "next:zrem") /\ UNCHANGED call ELSE Done(t)

\* clear_partner, of a handler or of enforce_ban.
ClearGet(t) ==
  /\ pc[t] = "clear:get"
  /\ Find(t, partner[call[t].user])
  /\ Goto(t, "clear:user")
  /\ UNCHANGED <<redis, money, job>>

ClearUser(t) ==
  /\ pc[t] = "clear:user"
  /\ SetPartner(call[t].user, None)
  /\ IF call[t].other = None THEN AfterEnd(t) ELSE Goto(t, "clear:other") /\ UNCHANGED call
  /\ UNCHANGED <<money, job>>

\* Mutant: only one's own partner key is deleted.
ClearNoOther(t) ==
  /\ pc[t] = "clear:other"
  /\ Goto(t, "clear:flags")
  /\ UNCHANGED <<redis, money, job, call>>

ClearOther(t) ==
  /\ pc[t] = "clear:other"
  /\ SetPartner(call[t].other, None)
  /\ Goto(t, "clear:flags")
  /\ UNCHANGED <<money, job, call>>

\* The payer keys of both and the counter of the pair.
ClearFlags(t) ==
  LET both == {call[t].user, call[t].other}
  IN  /\ pc[t] = "clear:flags"
      /\ payer' = payer \ both
      /\ talked' = talked \ {both}
      /\ IF t = Bot THEN Goto(t, "refund") /\ UNCHANGED call ELSE Done(t)
      /\ UNCHANGED <<queue, desired, partner, money, job>>

\* failed_chat_refund
RefundFailedChat(t) ==
  /\ pc[t] = "refund"
  /\ IF call[t].talked
     THEN served' = served \cup call[t].paid /\ UNCHANGED coins
     ELSE Refund(call[t].paid) /\ UNCHANGED served
  /\ AfterEnd(t)
  /\ UNCHANGED <<redis, job>>

-----------------------------------------------------------------------------
(* next_chat goes on: dequeue, without looking whether the user waits *)

NextZrem(t) ==
  /\ pc[t] = "next:zrem"
  /\ Zrem(call[t].user)
  /\ Goto(t, "next:wish")
  /\ UNCHANGED <<money, job, call>>

NextWish(t) ==
  /\ pc[t] = "next:wish"
  /\ DelWish(call[t].user)
  /\ IF call[t].wish = AskFirst THEN Done(t) ELSE Goto(t, "charge") /\ UNCHANGED call
  /\ UNCHANGED <<money, job>>

-----------------------------------------------------------------------------
(* run_search goes on: the queue is read, filtered by Postgres and claimed *)

\* The first match of the filters; None when there is no filter or no match.
Scan(t) ==
  /\ pc[t] = "scan"
  /\ \E v \in {w \in queue \ {call[t].user} : call[t].wish \in {AnyGender, Gender(w)}} \cup {None} :
       /\ Find(t, v)
       /\ Goto(t, IF v = None THEN "match" ELSE "claim:zrem")
  /\ UNCHANGED <<redis, money, job>>

Claim(t) ==
  LET v == call[t].other
  IN  \/ /\ pc[t] = "claim:zrem"
         /\ Zrem(v)
         /\ call' = [call EXCEPT ![t].claimed = v \in queue]
         /\ Goto(t, "claim:wish")
         /\ UNCHANGED <<money, job>>
      \/ /\ pc[t] = "claim:wish"
         /\ DelWish(v)
         /\ Goto(t, IF call[t].claimed THEN "claim:partner" ELSE "match")
         /\ UNCHANGED <<money, job, call>>
      \/ /\ pc[t] = "claim:partner"
         /\ Goto(t, IF partner[v] # None THEN "match" ELSE "self:zrem")
         /\ UNCHANGED <<redis, money, job, call>>

DequeueSelf(t) ==
  /\ \/ pc[t] = "self:zrem" /\ Zrem(call[t].user) /\ Goto(t, "self:wish")
     \/ pc[t] = "self:wish" /\ DelWish(call[t].user) /\ Goto(t, "pair:user")
  /\ UNCHANGED <<money, job, call>>

Handle(t) ==
  /\ \/ HasPartner(t) \/ IsWaiting(t) \/ Charge(t) \/ SetChatPayer(t)
     \/ MatchOrEnqueue(t) \/ ScheduleTimeout(t) \/ Unpin(t) \/ PairUp(t)
     \/ LeavesQueue(t) \/ CancelDequeue(t) \/ CancelUnpin(t) \/ CancelPaid(t) \/ CancelRefund(t)
     \/ ReadBeforeEnd(t) \/ ClearGet(t) \/ ClearUser(t) \/ ClearOther(t) \/ ClearFlags(t)
     \/ RefundFailedChat(t) \/ NextZrem(t) \/ NextWish(t)
     \/ Scan(t) \/ Claim(t) \/ DequeueSelf(t)
  /\ UNCHANGED <<banned, crashes>>

-----------------------------------------------------------------------------
(* handlers/chat/relay.py: a message reaches the partner and is counted *)

Talk ==
  /\ "talk" \in Events /\ pc[Bot] = "idle"
  /\ \E u \in Users \ banned :
       /\ partner[u] # None
       /\ talked' = talked \cup {{u, partner[u]}}
  /\ UNCHANGED <<queue, desired, partner, payer, money, banned, job, pc, call, crashes>>

-----------------------------------------------------------------------------
(* _queue_timeout_job *)

Step(u, s, from, to) == job[u][s] = from /\ job' = [job EXCEPT ![u][s] = to]

\* The job fires and asks is_waiting.
Fire(u, s) ==
  /\ "timeout" \in Events
  /\ Step(u, s, "scheduled", IF u \in queue THEN "zrem" ELSE "off")
  /\ UNCHANGED <<redis, money>>

TimeoutDequeue(u, s) ==
  /\ \/ Step(u, s, "zrem", "wish") /\ Zrem(u)
     \/ Step(u, s, "wish", "unpin") /\ DelWish(u)
  /\ UNCHANGED money

\* _unpin_queue_message cancels the jobs of that name, this one apart.
TimeoutUnpin(u, s) ==
  /\ job[u][s] = "unpin"
  /\ job' = [job EXCEPT ![u] =
               [x \in Slots |-> CASE x = s -> "paid"
                                 [] x # s /\ @[x] = "scheduled" -> "off"
                                 [] OTHER -> @[x]]]
  /\ UNCHANGED <<redis, money>>

TimeoutRefund(u, s) ==
  \/ /\ Step(u, s, "paid", IF u \in payer THEN "refund" ELSE "off")
     /\ UNCHANGED <<redis, money>>
  \/ /\ Step(u, s, "refund", "flag")
     /\ Refund({u})
     /\ UNCHANGED <<redis, served>>
  \/ /\ Step(u, s, "flag", "off")
     /\ SetFlags(payer \ {u})
     /\ UNCHANGED money

Timeout(u, s) ==
  /\ Fire(u, s) \/ TimeoutDequeue(u, s) \/ TimeoutUnpin(u, s) \/ TimeoutRefund(u, s)
  /\ UNCHANGED <<banned, pc, call, crashes>>

-----------------------------------------------------------------------------
\* Mutant: the purge forgets one of the two queues.
PurgeWomen(u) ==
  /\ u \in queue \ Men
  /\ Zrem(u)
  /\ UNCHANGED <<money, banned, job, pc, call, crashes>>

\* _purge_stale_queue_job: an expired entry goes, its wish and its job stay.
Purge(u) ==
  /\ "purge" \in Events
  /\ u \in queue
  /\ Zrem(u)
  /\ UNCHANGED <<money, banned, job, pc, call, crashes>>

\* A verdict: is_banned is committed, then enforce_ban calls clear_partner.
Verdict(t) ==
  /\ t \in Verdicts /\ pc[t] = "idle"
  /\ \E u \in Users \ banned :
       /\ banned' = banned \cup {u}
       /\ Goto(t, "clear:get")
       /\ call' = [call EXCEPT ![t] = Called("ban", u, AnyGender)]
  /\ UNCHANGED <<redis, money, job, crashes>>

\* The bot stops and is started again; the worker goes on.
Crash ==
  /\ crashes < Crashes
  /\ crashes' = crashes + 1
  /\ pc' = [pc EXCEPT ![Bot] = "idle"]
  /\ call' = [call EXCEPT ![Bot] = NoCall]
  /\ job' = [u \in Users |-> [s \in Slots |-> "off"]]
  /\ UNCHANGED <<redis, money, banned>>

Next ==
  \/ \E t \in Tasks : Update(t) \/ Handle(t) \/ Verdict(t)
  \/ Talk
  \/ \E u \in Users : Purge(u) \/ \E s \in Slots : Timeout(u, s)
  \/ Crash

Spec == Init /\ [][Next]_vars

\* Handlers and verdicts run to their end, a scheduled job fires and runs to
\* its end, and the purge, repeated every 3 minutes and scheduled again at
\* each start, finds whoever stays in the queue.
FairSpec ==
  /\ Spec
  /\ \A t \in Tasks : WF_vars(Handle(t))
  /\ \A u \in Users : WF_vars(Purge(u)) /\ \A s \in Slots : WF_vars(Timeout(u, s))

-----------------------------------------------------------------------------
(* Properties *)

TypeOK ==
  /\ queue \subseteq Users /\ payer \subseteq Users
  /\ served \subseteq Users /\ banned \subseteq Users
  /\ desired \in [Users -> Genders \cup {None}]
  /\ partner \in [Users -> Users \cup {None}]
  /\ talked \subseteq SUBSET Users
  /\ coins \in [Users -> 0 .. CoinBound]
  /\ job \in [Users -> [Slots -> JobStates]]
  /\ pc \in [Tasks -> BotLabels]
  /\ crashes \in 0 .. Crashes

(***************************************************************************)
(* The refinement.  set_partner and clear_partner count as done at their   *)
(* first command, and a claimed user counts as waiting until then.         *)
(***************************************************************************)
Claimed ==
  {call[t].other : t \in {x \in Tasks : pc[x] \in {"unpin:user", "unpin:other", "pair:user"}}}

PartnerOf(v) ==
  LET sets == {t \in Tasks : pc[t] = "pair:other" /\ call[t].other = v}
      dels == {t \in Tasks : pc[t] = "clear:other" /\ call[t].other = v}
  IN  CASE sets # {} -> call[CHOOSE t \in sets : TRUE].user
        [] dels # {} -> None
        [] OTHER -> partner[v]

P == INSTANCE Pairing WITH waiting <- queue \cup Claimed,
                           partner <- [v \in Users |-> PartnerOf(v)]

\* The commands of the handlers, with the timeouts and the purge between
\* them, implement indivisible pairing, parting and withdrawing.
PairingSpec == P!PSpec

\* Between two updates every pair is mutual and nobody is their own partner.
MutualBetweenUpdates ==
  pc[Bot] = "idle" =>
    \A u \in Users : partner[u] # None => partner[u] # u /\ partner[partner[u]] = u

\* A queued user has no partner key, so no match overwrites a chat.
QueuedAreFree == \A u \in queue : partner[u] = None

\* A user does not stay in the queue for ever, whichever jobs a crash has
\* lost or a racing timeout has cancelled.
EveryWaitEnds == \A u \in Users : u \in queue ~> u \notin queue

\* What try_match's comment says: whoever is matched at once was never put
\* in the queue, and need not be dequeued.
ClaimerNotQueued ==
  \A t \in Tasks : pc[t] \in {"unpin:user", "unpin:other"} => call[t].user \notin queue

Settled(u) ==
  /\ u \notin queue /\ partner[u] = None
  /\ \A v \in Users : partner[v] # u
  /\ \A t \in Tasks : pc[t] = "idle" \/ u \notin {call[t].user, call[t].other}
  /\ \A s \in Slots : job[u][s] \in {"off", "scheduled"}

\* What the README says of coins: a search that was cancelled or timed out,
\* and a chat of fewer than 3 messages, cost nothing in the end.
FailedSearchIsFree ==
  \A u \in Users : Settled(u) /\ u \notin served => coins[u] = InitialCoins
=============================================================================

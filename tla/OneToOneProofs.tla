--------------------------- MODULE OneToOneProofs ---------------------------
(***************************************************************************)
(* For any users, slots and wishes: the types; that no queued user has a   *)
(* partner, with any number of verdicts and crashes, as long as nobody     *)
(* searches with filters; and, without verdicts and crashes too, that the  *)
(* handlers implement Pairing, whose pairs are mutual.                     *)
(*                                                                         *)
(* The conditions are the code's: README.md, section 3, has what a search  *)
(* with filters, a verdict or a crash does to the pairs.                   *)
(*                                                                         *)
(* A handler acts on answers of several awaits ago.  They are still true,  *)
(* because updates are handled one at a time and timeout jobs, the purge   *)
(* and verdicts only take users out of the queue and partner keys away     *)
(* (AnswersHold); and while a pair is made or ended by two commands,       *)
(* HalfWay says which half is there.                                       *)
(***************************************************************************)
EXTENDS OneToOne, TLAPS

Calls == [command : Commands \cup {None, "ban"}, user : Users \cup {None},
          other : Users \cup {None}, wish : Wishes \cup {AnyGender, AskFirst},
          talked : BOOLEAN, paid : SUBSET Users, claimed : BOOLEAN]

\* Where a handler asks for a gender, and where it has another user in hand.
Asking == {"has:partner", "is:waiting", "charge", "flag", "match",
           "scan", "claim:zrem", "claim:wish", "claim:partner"}
Filtering == {"scan", "claim:zrem", "claim:wish", "claim:partner", "self:zrem", "self:wish"}
Claiming == {"unpin:user", "unpin:other", "pair:user", "pair:other"}
Closing == {"clear:get", "clear:user", "clear:other", "clear:flags"}

\* What a task has in hand at each of its steps.
InHand(t) ==
  /\ pc[t] # "idle" => call[t].user \in Users
  /\ pc[t] \in Claiming \cup {"clear:other"} \cup (Filtering \ {"scan"}) => call[t].other \in Users
  /\ pc[t] \in Asking => call[t].wish \in Wishes \cup {AnyGender}
  /\ t \in Verdicts =>
       pc[t] = "idle" \/ (pc[t] \in Closing /\ call[t].command = "ban")

RedisTypes ==
  /\ queue \subseteq Users /\ payer \subseteq Users /\ talked \subseteq SUBSET Users
  /\ desired \in [Users -> Genders \cup {None}]
  /\ partner \in [Users -> Users \cup {None}]

MoneyTypes ==
  /\ coins \in [Users -> 0 .. CoinBound]
  /\ served \subseteq Users /\ banned \subseteq Users
  /\ crashes \in 0 .. Crashes

Typed == TypeOK /\ call \in [Tasks -> Calls] /\ \A t \in Tasks : InHand(t)

\* Where the user of the handler has no partner key, and where they are not
\* queued: from the question, or the ZREM, on.
Unpaired == {"is:waiting", "charge", "flag", "match", "unpin:user", "unpin:other", "pair:user",
             "clear:other", "clear:flags", "refund", "next:zrem", "next:wish"}
Unqueued == {"charge", "flag", "match", "next:wish"} \cup Claiming

\* The answers of get_partner and is_waiting are still so when the handler
\* acts on them: only handlers give partners and put users in the queue.
AnswersHold ==
  /\ pc[Bot] \notin Filtering
  /\ pc[Bot] # "idle" => call[Bot].command # "search"
  /\ pc[Bot] = "has:partner" => call[Bot].command = "start"
  /\ pc[Bot] \in Unpaired => partner[call[Bot].user] = None
  /\ pc[Bot] \in Unqueued => call[Bot].user \notin queue
  /\ pc[Bot] \in Claiming => call[Bot].other \notin queue

QInv == Typed /\ AnswersHold /\ QueuedAreFree

\* Who is in whose partner key while a handler pairs or parts two users.
HalfWay ==
  LET u == call[Bot].user
      v == call[Bot].other
  IN  /\ pc[Bot] \in Claiming => u # v /\ partner[v] = None
      /\ pc[Bot] = "pair:other" => partner[u] = v
      /\ pc[Bot] = "clear:user" => v = partner[u]
      /\ pc[Bot] = "clear:other" => partner[v] = u

Almost ==
  \A w \in Users : partner[w] # None =>
    /\ partner[w] # w
    /\ \/ partner[partner[w]] = w
       \/ pc[Bot] = "pair:other" /\ w = call[Bot].user
       \/ pc[Bot] = "clear:other" /\ w = call[Bot].other

PairInv == QInv /\ HalfWay /\ Almost

LEMMA InitPairInv == ASSUME Init PROVE PairInv
  <1> USE OneToOneAssumption DEF Init
  <1>1. TypeOK
    BY DEF TypeOK, JobStates, BotLabels
  <1>2. call \in [Tasks -> Calls]
    BY DEF Calls, NoCall
  <1>3. \A t \in Tasks : InHand(t)
    BY DEF InHand, Claiming, Filtering, Asking
  <1>4. Bot \in Tasks /\ pc[Bot] = "idle" /\ queue = {} /\ \A u \in Users : partner[u] = None
    BY DEF Tasks
  <1>5. AnswersHold /\ QueuedAreFree
    BY <1>4 DEF AnswersHold, QueuedAreFree, Filtering, Unpaired, Unqueued, Claiming
  <1>6. HalfWay /\ Almost
    BY <1>4 DEF HalfWay, Almost, Claiming
  <1> QED
    BY <1>1, <1>2, <1>3, <1>5, <1>6 DEF PairInv, QInv, Typed

-----------------------------------------------------------------------------
(* What a step has in hand. *)

LEMMA CallChanges ==
  ASSUME NEW c \in Calls, NEW v \in Users \cup {None}, NEW b \in BOOLEAN, NEW S \in SUBSET Users
  PROVE  /\ [c EXCEPT !.other = v] \in Calls /\ [c EXCEPT !.claimed = b] \in Calls
         /\ [c EXCEPT !.talked = b, !.paid = S] \in Calls
  BY DEF Calls

LEMMA NewCalls ==
  /\ NoCall \in Calls
  /\ \A command \in Commands \cup {"ban"} : \A u \in Users :
       \A wish \in Wishes \cup {AnyGender, AskFirst} :
         LET c == Called(command, u, wish)
         IN  c \in Calls /\ c.command = command /\ c.user = u /\ c.wish = wish
  <1> DEFINE C == Commands \cup {None, "ban"}
  <1> NoCall \in Calls
    BY DEF Calls, NoCall
  <1> SUFFICES ASSUME NEW command \in Commands \cup {"ban"}, NEW u \in Users,
                      NEW wish \in Wishes \cup {AnyGender, AskFirst}
               PROVE  LET c == Called(command, u, wish)
                      IN  c \in Calls /\ c.command = command /\ c.user = u /\ c.wish = wish
    OBVIOUS
  <1> QED
    BY DEF Calls, NoCall, Called

LEMMA Stepped ==
  ASSUME TypeOK, NEW u \in Users, NEW s \in Slots, NEW from, NEW to \in JobStates, Step(u, s, from, to)
  PROVE  job' \in [Users -> [Slots -> JobStates]]
  BY DEF TypeOK, Step

\* The steps that cancel jobs change nothing else but the label.
LEMMA Unpinning ==
  ASSUME NEW t \in Tasks, Unpin(t) \/ CancelUnpin(t)
  PROVE  /\ \/ pc[t] = "unpin:user" /\ pc' = [pc EXCEPT ![t] = "unpin:other"]
            \/ pc[t] = "unpin:other" /\ pc' = [pc EXCEPT ![t] = "pair:user"]
            \/ pc[t] = "cancel:unpin" /\ pc' = [pc EXCEPT ![t] = "cancel:paid"]
         /\ UNCHANGED <<queue, partner, call>>
  BY DEF Unpin, CancelUnpin, Goto, redis

LEMMA UpdateBegins ==
  ASSUME Typed, NEW t \in Tasks, Update(t)
  PROVE  /\ t = Bot /\ pc[t] = "idle"
         /\ call'[t].user \in Users /\ call'[t].command \in Events \cap Commands
         /\ call'[t].wish \in Wishes \cup {AnyGender, AskFirst}
         /\ call'[t].wish = AskFirst => call'[t].command = "next"
         /\ pc'[t] = FirstLabel(call'[t].command) /\ call'[t] \in Calls
         /\ pc' = [pc EXCEPT ![t] = pc'[t]] /\ call' = [call EXCEPT ![t] = call'[t]]
         /\ UNCHANGED <<queue, partner>>
  <1>0. t = Bot /\ pc[t] = "idle" /\ UNCHANGED <<queue, partner>>
    BY DEF Update, redis
  <1>1. \E u \in Users \ banned : \E command \in Events \cap Commands :
             \E wish \in Wishes \cup {AnyGender, AskFirst} :
               /\ wish = AskFirst => command = "next"
               /\ pc' = [pc EXCEPT ![t] = FirstLabel(command)]
               /\ call' = [call EXCEPT ![t] = Called(command, u, wish)]
    BY ZenonT(60) DEF Update, Goto
  <1>2. PICK u \in Users \ banned : \E command \in Events \cap Commands :
             \E wish \in Wishes \cup {AnyGender, AskFirst} :
               /\ wish = AskFirst => command = "next"
               /\ pc' = [pc EXCEPT ![t] = FirstLabel(command)]
               /\ call' = [call EXCEPT ![t] = Called(command, u, wish)]
    BY <1>1
  <1>3. PICK command \in Events \cap Commands : \E wish \in Wishes \cup {AnyGender, AskFirst} :
               /\ wish = AskFirst => command = "next"
               /\ pc' = [pc EXCEPT ![t] = FirstLabel(command)]
               /\ call' = [call EXCEPT ![t] = Called(command, u, wish)]
    BY <1>2
  <1>4. PICK wish \in Wishes \cup {AnyGender, AskFirst} :
               /\ wish = AskFirst => command = "next"
               /\ pc' = [pc EXCEPT ![t] = FirstLabel(command)]
               /\ call' = [call EXCEPT ![t] = Called(command, u, wish)]
    BY <1>3
  <1>5. call'[t] = Called(command, u, wish) /\ pc'[t] = FirstLabel(command)
    BY <1>4 DEF Typed, TypeOK
  <1> QED
    BY <1>0, <1>4, <1>5, NewCalls DEF Typed, TypeOK

LEMMA VerdictBegins ==
  ASSUME Typed, NEW t \in Tasks, Verdict(t)
  PROVE  /\ t \in Verdicts /\ pc[t] = "idle" /\ pc'[t] = "clear:get"
         /\ call'[t].user \in Users /\ call'[t].command = "ban" /\ call'[t] \in Calls
         /\ pc' = [pc EXCEPT ![t] = pc'[t]] /\ call' = [call EXCEPT ![t] = call'[t]]
         /\ UNCHANGED <<queue, partner>>
  <1>1. /\ t \in Verdicts /\ pc[t] = "idle" /\ UNCHANGED <<queue, partner>>
        /\ pc' = [pc EXCEPT ![t] = "clear:get"]
        /\ \E u \in Users : call' = [call EXCEPT ![t] = Called("ban", u, AnyGender)]
    BY DEF Verdict, Goto, redis
  <1>2. PICK u \in Users : call' = [call EXCEPT ![t] = Called("ban", u, AnyGender)]
    BY <1>1
  <1>3. call'[t] = Called("ban", u, AnyGender)
    BY <1>2 DEF Typed
  <1>4. Called("ban", u, AnyGender) \in Calls /\ Called("ban", u, AnyGender).user = u
        /\ Called("ban", u, AnyGender).command = "ban"
    BY NewCalls
  <1> QED
    BY <1>1, <1>2, <1>3, <1>4 DEF Typed, TypeOK

\* What a step finds out and keeps changes one field of what it has in hand.
LEMMA Findings ==
  ASSUME Typed, NEW t \in Tasks, ReadBeforeEnd(t) \/ (Claim(t) /\ pc[t] = "claim:zrem")
  PROVE  /\ call'[t] \in Calls /\ call' = [call EXCEPT ![t] = call'[t]]
         /\ call'[t].command = call[t].command /\ call'[t].user = call[t].user
         /\ call'[t].other = call[t].other /\ call'[t].wish = call[t].wish
  <1> call[t] \in Calls /\ call \in [Tasks -> Calls]
    BY DEF Typed
  <1>1. CASE ReadBeforeEnd(t)
    <2> DEFINE enough == partner[call[t].user] # None /\ {call[t].user, partner[call[t].user]} \in talked
               both == payer \cap {call[t].user, partner[call[t].user]}
    <2>1. /\ enough \in BOOLEAN /\ both \in SUBSET Users
          /\ call' = [call EXCEPT ![t] = [call[t] EXCEPT !.talked = enough, !.paid = both]]
      BY <1>1 DEF ReadBeforeEnd, Typed, TypeOK
    <2> HIDE DEF enough, both
    <2>2. call'[t] = [call[t] EXCEPT !.talked = enough, !.paid = both]
      BY <2>1
    <2>3. call'[t] \in Calls
      BY <2>1, <2>2, CallChanges
    <2>4. /\ call'[t].command = call[t].command /\ call'[t].user = call[t].user
          /\ call'[t].other = call[t].other /\ call'[t].wish = call[t].wish
      BY <2>2 DEF Calls
    <2> QED
      BY <2>1, <2>2, <2>3, <2>4
  <1>2. CASE Claim(t) /\ pc[t] = "claim:zrem"
    <2> DEFINE found == call[t].other \in queue
    <2>1. found \in BOOLEAN /\ call' = [call EXCEPT ![t] = [call[t] EXCEPT !.claimed = found]]
      BY <1>2 DEF Claim
    <2> HIDE DEF found
    <2>2. call'[t] = [call[t] EXCEPT !.claimed = found]
      BY <2>1
    <2>3. call'[t] \in Calls
      BY <2>1, <2>2, CallChanges
    <2>4. /\ call'[t].command = call[t].command /\ call'[t].user = call[t].user
          /\ call'[t].other = call[t].other /\ call'[t].wish = call[t].wish
      BY <2>2 DEF Calls
    <2> QED
      BY <2>1, <2>2, <2>3, <2>4
  <1> QED
    BY <1>1, <1>2

-----------------------------------------------------------------------------
(* Types. *)

\* The keys of redis.
LEMMA RedisTypesKeep ==
  ASSUME Typed, [Next]_vars
  PROVE  RedisTypes'
  <1> USE OneToOneAssumption DEF RedisTypes, redis, money, Goto, Typed, TypeOK, InHand, Claiming, Asking,
          Filtering, Calls
  <1>1. ASSUME NEW t \in Tasks, Update(t)
        PROVE  RedisTypes'
    BY <1>1
       DEF Update, FirstLabel
  <1>2. ASSUME NEW t \in Tasks, HasPartner(t) \/ IsWaiting(t) \/ LeavesQueue(t) \/ CancelPaid(t),
               UNCHANGED <<banned, crashes>>
        PROVE  RedisTypes'
    BY <1>2
       DEF HasPartner, IsWaiting, LeavesQueue, CancelPaid, Done
  <1>3. ASSUME NEW t \in Tasks, Charge(t) \/ SetChatPayer(t), UNCHANGED <<banned, crashes>>
        PROVE  RedisTypes'
    BY <1>3
       DEF Charge, SetChatPayer, AfterCharge, SetFlags, Done
  <1>4. ASSUME NEW t \in Tasks, Enqueue(t), UNCHANGED <<banned, crashes>>
        PROVE  RedisTypes'
    BY <1>4
       DEF Enqueue
  <1>5. ASSUME NEW t \in Tasks, Match(t), UNCHANGED <<banned, crashes>>
        PROVE  RedisTypes'
    BY <1>5
       DEF Match, Candidates, Find
  <1>6. ASSUME NEW t \in Tasks, ScheduleTimeout(t), UNCHANGED <<banned, crashes>>
        PROVE  RedisTypes'
    BY <1>6
       DEF ScheduleTimeout, Done
  <1>7. ASSUME NEW t \in Tasks, Unpin(t) \/ CancelUnpin(t), UNCHANGED <<banned, crashes>>
        PROVE  RedisTypes'
    BY <1>7
       DEF Unpin, CancelUnpin, CancelJobs
  <1>8. ASSUME NEW t \in Tasks, PairUp(t), UNCHANGED <<banned, crashes>>
        PROVE  RedisTypes'
    BY <1>8
       DEF PairUp, SetPartner, Done
  <1>9. ASSUME NEW t \in Tasks, CancelDequeue(t) \/ CancelRefund(t),
               UNCHANGED <<banned, crashes>>
        PROVE  RedisTypes'
    BY <1>9
       DEF CancelDequeue, CancelRefund, Zrem, DelWish, Refund, SetFlags, Done
  <1>10. ASSUME NEW t \in Tasks, ReadBeforeEnd(t), UNCHANGED <<banned, crashes>>
        PROVE  RedisTypes'
    BY <1>10
       DEF ReadBeforeEnd
  <1>11. ASSUME NEW t \in Tasks, ClearGet(t), UNCHANGED <<banned, crashes>>
        PROVE  RedisTypes'
    BY <1>11
       DEF ClearGet, Find
  <1>12. ASSUME NEW t \in Tasks, ClearUser(t) \/ ClearOther(t) \/ ClearFlags(t),
               UNCHANGED <<banned, crashes>>
        PROVE  RedisTypes'
    BY <1>12
       DEF ClearUser, ClearOther, ClearFlags, SetPartner, AfterEnd, Done
  <1>13. ASSUME NEW t \in Tasks, RefundFailedChat(t), UNCHANGED <<banned, crashes>>
        PROVE  RedisTypes'
    BY <1>13
       DEF RefundFailedChat, Refund, AfterEnd, Done
  <1>14. ASSUME NEW t \in Tasks, NextZrem(t) \/ NextWish(t), UNCHANGED <<banned, crashes>>
        PROVE  RedisTypes'
    BY <1>14
       DEF NextZrem, NextWish, Zrem, DelWish, Done
  <1>15. ASSUME NEW t \in Tasks, Scan(t), UNCHANGED <<banned, crashes>>
        PROVE  RedisTypes'
    BY <1>15
       DEF Scan, Find
  <1>16. ASSUME NEW t \in Tasks, Claim(t), UNCHANGED <<banned, crashes>>
        PROVE  RedisTypes'
    BY <1>16
       DEF Claim, Zrem, DelWish
  <1>17. ASSUME NEW t \in Tasks, DequeueSelf(t), UNCHANGED <<banned, crashes>>
        PROVE  RedisTypes'
    BY <1>17
       DEF DequeueSelf, Zrem, DelWish
  <1>18. ASSUME NEW t \in Tasks, Verdict(t)
        PROVE  RedisTypes'
    BY <1>18
       DEF Verdict
  <1>19. ASSUME Talk
        PROVE  RedisTypes'
    BY <1>19
       DEF Talk
  <1>20. ASSUME NEW u \in Users, Purge(u)
        PROVE  RedisTypes'
    BY <1>20
       DEF Purge, Zrem
  <1>21. ASSUME NEW u \in Users, NEW s \in Slots, Timeout(u, s)
        PROVE  RedisTypes'
    BY <1>21
       DEF Timeout, Fire, TimeoutDequeue, TimeoutUnpin, TimeoutRefund, Step, Zrem, DelWish,
           Refund, SetFlags
  <1>22. ASSUME Crash
        PROVE  RedisTypes'
    BY <1>22
       DEF Crash
  <1>23. ASSUME UNCHANGED vars
        PROVE  RedisTypes'
    BY <1>23
       DEF vars
  <1> QED
    BY <1>1, <1>2, <1>3, <1>4, <1>5, <1>6, <1>7, <1>8, <1>9, <1>10, <1>11, <1>12, <1>13, <1>14,
       <1>15, <1>16, <1>17, <1>18, <1>19, <1>20, <1>21, <1>22, <1>23
       DEF Next, Handle, MatchOrEnqueue

\* Coins and counters.
LEMMA MoneyTypesKeep ==
  ASSUME Typed, [Next]_vars
  PROVE  MoneyTypes'
  <1> USE OneToOneAssumption DEF MoneyTypes, redis, money, Goto, Typed, TypeOK, Calls
  <1>1. ASSUME NEW t \in Tasks, Update(t)
        PROVE  MoneyTypes'
    BY <1>1
       DEF Update, FirstLabel
  <1>2. ASSUME NEW t \in Tasks, HasPartner(t) \/ IsWaiting(t) \/ LeavesQueue(t) \/ CancelPaid(t),
               UNCHANGED <<banned, crashes>>
        PROVE  MoneyTypes'
    BY <1>2
       DEF HasPartner, IsWaiting, LeavesQueue, CancelPaid, Done
  <1>3. ASSUME NEW t \in Tasks, Charge(t) \/ SetChatPayer(t), UNCHANGED <<banned, crashes>>
        PROVE  MoneyTypes'
    BY <1>3
       DEF Charge, SetChatPayer, AfterCharge, SetFlags, Done
  <1>4. ASSUME NEW t \in Tasks, Enqueue(t), UNCHANGED <<banned, crashes>>
        PROVE  MoneyTypes'
    BY <1>4
       DEF Enqueue
  <1>5. ASSUME NEW t \in Tasks, Match(t), UNCHANGED <<banned, crashes>>
        PROVE  MoneyTypes'
    BY <1>5
       DEF Match, Candidates, Find
  <1>6. ASSUME NEW t \in Tasks, ScheduleTimeout(t), UNCHANGED <<banned, crashes>>
        PROVE  MoneyTypes'
    BY <1>6
       DEF ScheduleTimeout, Done
  <1>7. ASSUME NEW t \in Tasks, Unpin(t) \/ CancelUnpin(t), UNCHANGED <<banned, crashes>>
        PROVE  MoneyTypes'
    BY <1>7
       DEF Unpin, CancelUnpin, CancelJobs
  <1>8. ASSUME NEW t \in Tasks, PairUp(t), UNCHANGED <<banned, crashes>>
        PROVE  MoneyTypes'
    BY <1>8
       DEF PairUp, SetPartner, Done
  <1>9. ASSUME NEW t \in Tasks, CancelDequeue(t) \/ CancelRefund(t),
               UNCHANGED <<banned, crashes>>
        PROVE  MoneyTypes'
    BY <1>9
       DEF CancelDequeue, CancelRefund, Zrem, DelWish, Refund, SetFlags, Done
  <1>10. ASSUME NEW t \in Tasks, ReadBeforeEnd(t), UNCHANGED <<banned, crashes>>
        PROVE  MoneyTypes'
    BY <1>10
       DEF ReadBeforeEnd
  <1>11. ASSUME NEW t \in Tasks, ClearGet(t), UNCHANGED <<banned, crashes>>
        PROVE  MoneyTypes'
    BY <1>11
       DEF ClearGet, Find
  <1>12. ASSUME NEW t \in Tasks, ClearUser(t) \/ ClearOther(t) \/ ClearFlags(t),
               UNCHANGED <<banned, crashes>>
        PROVE  MoneyTypes'
    BY <1>12
       DEF ClearUser, ClearOther, ClearFlags, SetPartner, AfterEnd, Done
  <1>13. ASSUME NEW t \in Tasks, RefundFailedChat(t), UNCHANGED <<banned, crashes>>
        PROVE  MoneyTypes'
    BY <1>13
       DEF RefundFailedChat, Refund, AfterEnd, Done
  <1>14. ASSUME NEW t \in Tasks, NextZrem(t) \/ NextWish(t), UNCHANGED <<banned, crashes>>
        PROVE  MoneyTypes'
    BY <1>14
       DEF NextZrem, NextWish, Zrem, DelWish, Done
  <1>15. ASSUME NEW t \in Tasks, Scan(t), UNCHANGED <<banned, crashes>>
        PROVE  MoneyTypes'
    BY <1>15
       DEF Scan, Find
  <1>16. ASSUME NEW t \in Tasks, Claim(t), UNCHANGED <<banned, crashes>>
        PROVE  MoneyTypes'
    BY <1>16
       DEF Claim, Zrem, DelWish
  <1>17. ASSUME NEW t \in Tasks, DequeueSelf(t), UNCHANGED <<banned, crashes>>
        PROVE  MoneyTypes'
    BY <1>17
       DEF DequeueSelf, Zrem, DelWish
  <1>18. ASSUME NEW t \in Tasks, Verdict(t)
        PROVE  MoneyTypes'
    BY <1>18
       DEF Verdict
  <1>19. ASSUME Talk
        PROVE  MoneyTypes'
    BY <1>19
       DEF Talk
  <1>20. ASSUME NEW u \in Users, Purge(u)
        PROVE  MoneyTypes'
    BY <1>20
       DEF Purge, Zrem
  <1>21. ASSUME NEW u \in Users, NEW s \in Slots, Timeout(u, s)
        PROVE  MoneyTypes'
    BY <1>21
       DEF Timeout, Fire, TimeoutDequeue, TimeoutUnpin, TimeoutRefund, Step, Zrem, DelWish,
           Refund, SetFlags
  <1>22. ASSUME Crash
        PROVE  MoneyTypes'
    BY <1>22
       DEF Crash
  <1>23. ASSUME UNCHANGED vars
        PROVE  MoneyTypes'
    BY <1>23
       DEF vars
  <1> QED
    BY <1>1, <1>2, <1>3, <1>4, <1>5, <1>6, <1>7, <1>8, <1>9, <1>10, <1>11, <1>12, <1>13, <1>14,
       <1>15, <1>16, <1>17, <1>18, <1>19, <1>20, <1>21, <1>22, <1>23
       DEF Next, Handle, MatchOrEnqueue

\* The timeout jobs.
LEMMA JobTypesKeep ==
  ASSUME Typed, [Next]_vars
  PROVE  (job \in [Users -> [Slots -> JobStates]])'
  <1> USE DEF redis, money, Goto, Typed, TypeOK, JobStates, InHand
  <1>1. ASSUME NEW t \in Tasks, Update(t)
        PROVE  (job \in [Users -> [Slots -> JobStates]])'
    BY <1>1
       DEF Update, FirstLabel
  <1>2. ASSUME NEW t \in Tasks, HasPartner(t) \/ IsWaiting(t) \/ LeavesQueue(t) \/ CancelPaid(t),
               UNCHANGED <<banned, crashes>>
        PROVE  (job \in [Users -> [Slots -> JobStates]])'
    BY <1>2
       DEF HasPartner, IsWaiting, LeavesQueue, CancelPaid, Done
  <1>3. ASSUME NEW t \in Tasks, Charge(t) \/ SetChatPayer(t), UNCHANGED <<banned, crashes>>
        PROVE  (job \in [Users -> [Slots -> JobStates]])'
    BY <1>3
       DEF Charge, SetChatPayer, AfterCharge, SetFlags, Done
  <1>4. ASSUME NEW t \in Tasks, Enqueue(t), UNCHANGED <<banned, crashes>>
        PROVE  (job \in [Users -> [Slots -> JobStates]])'
    BY <1>4
       DEF Enqueue
  <1>5. ASSUME NEW t \in Tasks, Match(t), UNCHANGED <<banned, crashes>>
        PROVE  (job \in [Users -> [Slots -> JobStates]])'
    BY <1>5
       DEF Match, Candidates, Find
  <1>6. ASSUME NEW t \in Tasks, ScheduleTimeout(t), UNCHANGED <<banned, crashes>>
        PROVE  (job \in [Users -> [Slots -> JobStates]])'
    BY <1>6
       DEF ScheduleTimeout, Done
  <1>7. ASSUME NEW t \in Tasks, Unpin(t) \/ CancelUnpin(t), UNCHANGED <<banned, crashes>>
        PROVE  (job \in [Users -> [Slots -> JobStates]])'
    BY <1>7
       DEF Unpin, CancelUnpin, CancelJobs
  <1>8. ASSUME NEW t \in Tasks, PairUp(t), UNCHANGED <<banned, crashes>>
        PROVE  (job \in [Users -> [Slots -> JobStates]])'
    BY <1>8
       DEF PairUp, SetPartner, Done
  <1>9. ASSUME NEW t \in Tasks, CancelDequeue(t) \/ CancelRefund(t),
               UNCHANGED <<banned, crashes>>
        PROVE  (job \in [Users -> [Slots -> JobStates]])'
    BY <1>9
       DEF CancelDequeue, CancelRefund, Zrem, DelWish, Refund, SetFlags, Done
  <1>10. ASSUME NEW t \in Tasks, ReadBeforeEnd(t), UNCHANGED <<banned, crashes>>
        PROVE  (job \in [Users -> [Slots -> JobStates]])'
    BY <1>10
       DEF ReadBeforeEnd
  <1>11. ASSUME NEW t \in Tasks, ClearGet(t), UNCHANGED <<banned, crashes>>
        PROVE  (job \in [Users -> [Slots -> JobStates]])'
    BY <1>11
       DEF ClearGet, Find
  <1>12. ASSUME NEW t \in Tasks, ClearUser(t) \/ ClearOther(t) \/ ClearFlags(t),
               UNCHANGED <<banned, crashes>>
        PROVE  (job \in [Users -> [Slots -> JobStates]])'
    BY <1>12
       DEF ClearUser, ClearOther, ClearFlags, SetPartner, AfterEnd, Done
  <1>13. ASSUME NEW t \in Tasks, RefundFailedChat(t), UNCHANGED <<banned, crashes>>
        PROVE  (job \in [Users -> [Slots -> JobStates]])'
    BY <1>13
       DEF RefundFailedChat, Refund, AfterEnd, Done
  <1>14. ASSUME NEW t \in Tasks, NextZrem(t) \/ NextWish(t), UNCHANGED <<banned, crashes>>
        PROVE  (job \in [Users -> [Slots -> JobStates]])'
    BY <1>14
       DEF NextZrem, NextWish, Zrem, DelWish, Done
  <1>15. ASSUME NEW t \in Tasks, Scan(t), UNCHANGED <<banned, crashes>>
        PROVE  (job \in [Users -> [Slots -> JobStates]])'
    BY <1>15
       DEF Scan, Find
  <1>16. ASSUME NEW t \in Tasks, Claim(t), UNCHANGED <<banned, crashes>>
        PROVE  (job \in [Users -> [Slots -> JobStates]])'
    BY <1>16
       DEF Claim, Zrem, DelWish
  <1>17. ASSUME NEW t \in Tasks, DequeueSelf(t), UNCHANGED <<banned, crashes>>
        PROVE  (job \in [Users -> [Slots -> JobStates]])'
    BY <1>17
       DEF DequeueSelf, Zrem, DelWish
  <1>18. ASSUME NEW t \in Tasks, Verdict(t)
        PROVE  (job \in [Users -> [Slots -> JobStates]])'
    BY <1>18
       DEF Verdict
  <1>19. ASSUME Talk
        PROVE  (job \in [Users -> [Slots -> JobStates]])'
    BY <1>19
       DEF Talk
  <1>20. ASSUME NEW u \in Users, Purge(u)
        PROVE  (job \in [Users -> [Slots -> JobStates]])'
    BY <1>20
       DEF Purge, Zrem
  <1>21. ASSUME NEW u \in Users, NEW s \in Slots, Timeout(u, s)
        PROVE  (job \in [Users -> [Slots -> JobStates]])'
    <2>1. CASE Fire(u, s)
      BY <2>1, Stepped DEF Fire
    <2>2. CASE TimeoutDequeue(u, s) \/ TimeoutRefund(u, s)
      BY <2>2, Stepped DEF TimeoutDequeue, TimeoutRefund
    <2>3. CASE TimeoutUnpin(u, s)
      BY <2>3 DEF TimeoutUnpin
    <2> QED
      BY <1>21, <2>1, <2>2, <2>3 DEF Timeout
  <1>22. ASSUME Crash
        PROVE  (job \in [Users -> [Slots -> JobStates]])'
    BY <1>22
       DEF Crash
  <1>23. ASSUME UNCHANGED vars
        PROVE  (job \in [Users -> [Slots -> JobStates]])'
    BY <1>23
       DEF vars
  <1> QED
    BY <1>1, <1>2, <1>3, <1>4, <1>5, <1>6, <1>7, <1>8, <1>9, <1>10, <1>11, <1>12, <1>13, <1>14,
       <1>15, <1>16, <1>17, <1>18, <1>19, <1>20, <1>21, <1>22, <1>23
       DEF Next, Handle, MatchOrEnqueue

\* The tasks' next steps.
LEMMA LabelsKeep ==
  ASSUME Typed, [Next]_vars
  PROVE  (pc \in [Tasks -> BotLabels])'
  <1> USE OneToOneAssumption DEF redis, money, Goto, Typed, TypeOK, BotLabels
  <1>1. ASSUME NEW t \in Tasks, Update(t)
        PROVE  (pc \in [Tasks -> BotLabels])'
    BY <1>1, UpdateBegins DEF FirstLabel, Commands
  <1>2. ASSUME NEW t \in Tasks, HasPartner(t) \/ IsWaiting(t) \/ LeavesQueue(t) \/ CancelPaid(t),
               UNCHANGED <<banned, crashes>>
        PROVE  (pc \in [Tasks -> BotLabels])'
    BY <1>2, SMTT(30)
       DEF HasPartner, IsWaiting, LeavesQueue, CancelPaid, Done
  <1>3. ASSUME NEW t \in Tasks, Charge(t) \/ SetChatPayer(t), UNCHANGED <<banned, crashes>>
        PROVE  (pc \in [Tasks -> BotLabels])'
    BY <1>3
       DEF Charge, SetChatPayer, AfterCharge, SetFlags, Done
  <1>4. ASSUME NEW t \in Tasks, Enqueue(t), UNCHANGED <<banned, crashes>>
        PROVE  (pc \in [Tasks -> BotLabels])'
    BY <1>4
       DEF Enqueue
  <1>5. ASSUME NEW t \in Tasks, Match(t), UNCHANGED <<banned, crashes>>
        PROVE  (pc \in [Tasks -> BotLabels])'
    BY <1>5
       DEF Match, Candidates, Find
  <1>6. ASSUME NEW t \in Tasks, ScheduleTimeout(t), UNCHANGED <<banned, crashes>>
        PROVE  (pc \in [Tasks -> BotLabels])'
    BY <1>6
       DEF ScheduleTimeout, Done
  <1>7. ASSUME NEW t \in Tasks, Unpin(t) \/ CancelUnpin(t), UNCHANGED <<banned, crashes>>
        PROVE  (pc \in [Tasks -> BotLabels])'
    BY <1>7
       DEF Unpin, CancelUnpin, CancelJobs
  <1>8. ASSUME NEW t \in Tasks, PairUp(t), UNCHANGED <<banned, crashes>>
        PROVE  (pc \in [Tasks -> BotLabels])'
    BY <1>8
       DEF PairUp, SetPartner, Done
  <1>9. ASSUME NEW t \in Tasks, CancelDequeue(t) \/ CancelRefund(t),
               UNCHANGED <<banned, crashes>>
        PROVE  (pc \in [Tasks -> BotLabels])'
    BY <1>9
       DEF CancelDequeue, CancelRefund, Zrem, DelWish, Refund, SetFlags, Done
  <1>10. ASSUME NEW t \in Tasks, ReadBeforeEnd(t), UNCHANGED <<banned, crashes>>
        PROVE  (pc \in [Tasks -> BotLabels])'
    BY <1>10
       DEF ReadBeforeEnd
  <1>11. ASSUME NEW t \in Tasks, ClearGet(t), UNCHANGED <<banned, crashes>>
        PROVE  (pc \in [Tasks -> BotLabels])'
    BY <1>11
       DEF ClearGet, Find
  <1>12. ASSUME NEW t \in Tasks, ClearUser(t) \/ ClearOther(t) \/ ClearFlags(t),
               UNCHANGED <<banned, crashes>>
        PROVE  (pc \in [Tasks -> BotLabels])'
    BY <1>12
       DEF ClearUser, ClearOther, ClearFlags, SetPartner, AfterEnd, Done
  <1>13. ASSUME NEW t \in Tasks, RefundFailedChat(t), UNCHANGED <<banned, crashes>>
        PROVE  (pc \in [Tasks -> BotLabels])'
    BY <1>13
       DEF RefundFailedChat, Refund, AfterEnd, Done
  <1>14. ASSUME NEW t \in Tasks, NextZrem(t) \/ NextWish(t), UNCHANGED <<banned, crashes>>
        PROVE  (pc \in [Tasks -> BotLabels])'
    BY <1>14
       DEF NextZrem, NextWish, Zrem, DelWish, Done
  <1>15. ASSUME NEW t \in Tasks, Scan(t), UNCHANGED <<banned, crashes>>
        PROVE  (pc \in [Tasks -> BotLabels])'
    BY <1>15
       DEF Scan, Find
  <1>16. ASSUME NEW t \in Tasks, Claim(t), UNCHANGED <<banned, crashes>>
        PROVE  (pc \in [Tasks -> BotLabels])'
    BY <1>16
       DEF Claim, Zrem, DelWish
  <1>17. ASSUME NEW t \in Tasks, DequeueSelf(t), UNCHANGED <<banned, crashes>>
        PROVE  (pc \in [Tasks -> BotLabels])'
    BY <1>17
       DEF DequeueSelf, Zrem, DelWish
  <1>18. ASSUME NEW t \in Tasks, Verdict(t)
        PROVE  (pc \in [Tasks -> BotLabels])'
    BY <1>18
       DEF Verdict
  <1>19. ASSUME Talk
        PROVE  (pc \in [Tasks -> BotLabels])'
    BY <1>19
       DEF Talk
  <1>20. ASSUME NEW u \in Users, Purge(u)
        PROVE  (pc \in [Tasks -> BotLabels])'
    BY <1>20
       DEF Purge, Zrem
  <1>21. ASSUME NEW u \in Users, NEW s \in Slots, Timeout(u, s)
        PROVE  (pc \in [Tasks -> BotLabels])'
    BY <1>21
       DEF Timeout, Fire, TimeoutDequeue, TimeoutUnpin, TimeoutRefund, Step, Zrem, DelWish,
           Refund, SetFlags
  <1>22. ASSUME Crash
        PROVE  (pc \in [Tasks -> BotLabels])'
    BY <1>22
       DEF Crash
  <1>23. ASSUME UNCHANGED vars
        PROVE  (pc \in [Tasks -> BotLabels])'
    BY <1>23
       DEF vars
  <1> QED
    BY <1>1, <1>2, <1>3, <1>4, <1>5, <1>6, <1>7, <1>8, <1>9, <1>10, <1>11, <1>12, <1>13, <1>14,
       <1>15, <1>16, <1>17, <1>18, <1>19, <1>20, <1>21, <1>22, <1>23
       DEF Next, Handle, MatchOrEnqueue

\* What the tasks have read.
LEMMA CallsKeep ==
  ASSUME Typed, [Next]_vars
  PROVE  (call \in [Tasks -> Calls])'
  <1> USE DEF redis, money, Goto, Typed, TypeOK
  <1>1. ASSUME NEW t \in Tasks, Update(t)
        PROVE  (call \in [Tasks -> Calls])'
    BY <1>1, UpdateBegins
  <1>2. ASSUME NEW t \in Tasks, HasPartner(t) \/ IsWaiting(t) \/ LeavesQueue(t) \/ CancelPaid(t),
               UNCHANGED <<banned, crashes>>
        PROVE  (call \in [Tasks -> Calls])'
    BY <1>2, NewCalls DEF HasPartner, IsWaiting, LeavesQueue, CancelPaid, Done
  <1>3. ASSUME NEW t \in Tasks, Charge(t) \/ SetChatPayer(t), UNCHANGED <<banned, crashes>>
        PROVE  (call \in [Tasks -> Calls])'
    BY <1>3, NewCalls DEF Charge, SetChatPayer, AfterCharge, SetFlags, Done
  <1>4. ASSUME NEW t \in Tasks, Enqueue(t), UNCHANGED <<banned, crashes>>
        PROVE  (call \in [Tasks -> Calls])'
    BY <1>4
       DEF Enqueue
  <1>5. ASSUME NEW t \in Tasks, Match(t), UNCHANGED <<banned, crashes>>
        PROVE  (call \in [Tasks -> Calls])'
    <2>1. PICK v \in Candidates(call[t].user, call[t].wish) : Find(t, v)
      BY <1>5 DEF Match
    <2>2. v \in Users \cup {None} /\ call[t] \in Calls
      BY DEF Candidates
    <2> QED
      BY <2>1, <2>2, CallChanges DEF Find
  <1>6. ASSUME NEW t \in Tasks, ScheduleTimeout(t), UNCHANGED <<banned, crashes>>
        PROVE  (call \in [Tasks -> Calls])'
    BY <1>6, NewCalls DEF ScheduleTimeout, Done
  <1>7. ASSUME NEW t \in Tasks, Unpin(t) \/ CancelUnpin(t), UNCHANGED <<banned, crashes>>
        PROVE  (call \in [Tasks -> Calls])'
    BY <1>7
       DEF Unpin, CancelUnpin, CancelJobs
  <1>8. ASSUME NEW t \in Tasks, PairUp(t), UNCHANGED <<banned, crashes>>
        PROVE  (call \in [Tasks -> Calls])'
    BY <1>8, NewCalls DEF PairUp, SetPartner, Done
  <1>9. ASSUME NEW t \in Tasks, CancelDequeue(t) \/ CancelRefund(t),
               UNCHANGED <<banned, crashes>>
        PROVE  (call \in [Tasks -> Calls])'
    BY <1>9, NewCalls DEF CancelDequeue, CancelRefund, Zrem, DelWish, Refund, SetFlags, Done
  <1>10. ASSUME NEW t \in Tasks, ReadBeforeEnd(t), UNCHANGED <<banned, crashes>>
        PROVE  (call \in [Tasks -> Calls])'
    BY <1>10, Findings
  <1>11. ASSUME NEW t \in Tasks, ClearGet(t), UNCHANGED <<banned, crashes>>
        PROVE  (call \in [Tasks -> Calls])'
    <2>1. partner[call[t].user] \in Users \cup {None} /\ call[t] \in Calls
      BY <1>11 DEF ClearGet, InHand
    <2> QED
      BY <1>11, <2>1, CallChanges DEF ClearGet, Find
  <1>12. ASSUME NEW t \in Tasks, ClearUser(t) \/ ClearOther(t) \/ ClearFlags(t),
               UNCHANGED <<banned, crashes>>
        PROVE  (call \in [Tasks -> Calls])'
    BY <1>12, NewCalls DEF ClearUser, ClearOther, ClearFlags, SetPartner, AfterEnd, Done
  <1>13. ASSUME NEW t \in Tasks, RefundFailedChat(t), UNCHANGED <<banned, crashes>>
        PROVE  (call \in [Tasks -> Calls])'
    BY <1>13, NewCalls DEF RefundFailedChat, Refund, AfterEnd, Done
  <1>14. ASSUME NEW t \in Tasks, NextZrem(t) \/ NextWish(t), UNCHANGED <<banned, crashes>>
        PROVE  (call \in [Tasks -> Calls])'
    BY <1>14, NewCalls DEF NextZrem, NextWish, Zrem, DelWish, Done
  <1>15. ASSUME NEW t \in Tasks, Scan(t), UNCHANGED <<banned, crashes>>
        PROVE  (call \in [Tasks -> Calls])'
    <2>1. PICK v \in Users \cup {None} : Find(t, v)
      BY <1>15 DEF Scan
    <2> QED
      BY <2>1, CallChanges DEF Find
  <1>16. ASSUME NEW t \in Tasks, Claim(t), UNCHANGED <<banned, crashes>>
        PROVE  (call \in [Tasks -> Calls])'
    <2>1. CASE pc[t] = "claim:zrem"
      BY <1>16, <2>1, Findings
    <2>2. CASE pc[t] # "claim:zrem"
      BY <1>16, <2>2 DEF Claim
    <2> QED
      BY <2>1, <2>2
  <1>17. ASSUME NEW t \in Tasks, DequeueSelf(t), UNCHANGED <<banned, crashes>>
        PROVE  (call \in [Tasks -> Calls])'
    BY <1>17
       DEF DequeueSelf, Zrem, DelWish
  <1>18. ASSUME NEW t \in Tasks, Verdict(t)
        PROVE  (call \in [Tasks -> Calls])'
    BY <1>18, VerdictBegins
  <1>19. ASSUME Talk
        PROVE  (call \in [Tasks -> Calls])'
    BY <1>19
       DEF Talk
  <1>20. ASSUME NEW u \in Users, Purge(u)
        PROVE  (call \in [Tasks -> Calls])'
    BY <1>20
       DEF Purge, Zrem
  <1>21. ASSUME NEW u \in Users, NEW s \in Slots, Timeout(u, s)
        PROVE  (call \in [Tasks -> Calls])'
    BY <1>21
       DEF Timeout, Fire, TimeoutDequeue, TimeoutUnpin, TimeoutRefund, Step, Zrem, DelWish,
           Refund, SetFlags
  <1>22. ASSUME Crash
        PROVE  (call \in [Tasks -> Calls])'
    BY <1>22, NewCalls DEF Crash
  <1>23. ASSUME UNCHANGED vars
        PROVE  (call \in [Tasks -> Calls])'
    BY <1>23
       DEF vars
  <1> QED
    BY <1>1, <1>2, <1>3, <1>4, <1>5, <1>6, <1>7, <1>8, <1>9, <1>10, <1>11, <1>12, <1>13, <1>14,
       <1>15, <1>16, <1>17, <1>18, <1>19, <1>20, <1>21, <1>22, <1>23
       DEF Next, Handle, MatchOrEnqueue

\* A task keeps the users it is about.
LEMMA InHandKeeps ==
  ASSUME Typed, [Next]_vars
  PROVE  (\A x \in Tasks : InHand(x))'
  <1> USE OneToOneAssumption DEF redis, money, Goto, Typed, TypeOK, InHand, Claiming, Closing,
          Asking, Filtering, Calls, Tasks
  <1>1. ASSUME NEW t \in Tasks, Update(t)
        PROVE  (\A x \in Tasks : InHand(x))'
    BY <1>1, UpdateBegins DEF FirstLabel, Commands
  <1>2. ASSUME NEW t \in Tasks, HasPartner(t) \/ IsWaiting(t) \/ LeavesQueue(t) \/ CancelPaid(t),
               UNCHANGED <<banned, crashes>>
        PROVE  (\A x \in Tasks : InHand(x))'
    BY <1>2
       DEF HasPartner, IsWaiting, LeavesQueue, CancelPaid, Done
  <1>3. ASSUME NEW t \in Tasks, Charge(t) \/ SetChatPayer(t), UNCHANGED <<banned, crashes>>
        PROVE  (\A x \in Tasks : InHand(x))'
    BY <1>3
       DEF Charge, SetChatPayer, AfterCharge, SetFlags, Done
  <1>4. ASSUME NEW t \in Tasks, Enqueue(t), UNCHANGED <<banned, crashes>>
        PROVE  (\A x \in Tasks : InHand(x))'
    BY <1>4
       DEF Enqueue
  <1>5. ASSUME NEW t \in Tasks, Match(t), UNCHANGED <<banned, crashes>>
        PROVE  (\A x \in Tasks : InHand(x))'
    BY <1>5, SMTT(30)
       DEF Match, Candidates, Find
  <1>6. ASSUME NEW t \in Tasks, ScheduleTimeout(t), UNCHANGED <<banned, crashes>>
        PROVE  (\A x \in Tasks : InHand(x))'
    BY <1>6
       DEF ScheduleTimeout, Done
  <1>7. ASSUME NEW t \in Tasks, Unpin(t) \/ CancelUnpin(t), UNCHANGED <<banned, crashes>>
        PROVE  (\A x \in Tasks : InHand(x))'
    BY <1>7, Unpinning
  <1>8. ASSUME NEW t \in Tasks, PairUp(t), UNCHANGED <<banned, crashes>>
        PROVE  (\A x \in Tasks : InHand(x))'
    BY <1>8
       DEF PairUp, SetPartner, Done
  <1>9. ASSUME NEW t \in Tasks, CancelDequeue(t) \/ CancelRefund(t),
               UNCHANGED <<banned, crashes>>
        PROVE  (\A x \in Tasks : InHand(x))'
    <2>1. CASE CancelDequeue(t)
      BY <1>9, <2>1 DEF CancelDequeue
    <2>2. CASE CancelRefund(t)
      BY <1>9, <2>2 DEF CancelRefund, Done
    <2> QED
      BY <1>9, <2>1, <2>2
  <1>10. ASSUME NEW t \in Tasks, ReadBeforeEnd(t), UNCHANGED <<banned, crashes>>
        PROVE  (\A x \in Tasks : InHand(x))'
    <2>1. pc[t] = "end:read" /\ pc' = [pc EXCEPT ![t] = "clear:get"]
      BY <1>10 DEF ReadBeforeEnd
    <2> QED
      BY <1>10, <2>1, Findings
  <1>11. ASSUME NEW t \in Tasks, ClearGet(t), UNCHANGED <<banned, crashes>>
        PROVE  (\A x \in Tasks : InHand(x))'
    BY <1>11
       DEF ClearGet, Find
  <1>12. ASSUME NEW t \in Tasks, ClearUser(t) \/ ClearOther(t) \/ ClearFlags(t),
               UNCHANGED <<banned, crashes>>
        PROVE  (\A x \in Tasks : InHand(x))'
    BY <1>12
       DEF ClearUser, ClearOther, ClearFlags, SetPartner, AfterEnd, Done
  <1>13. ASSUME NEW t \in Tasks, RefundFailedChat(t), UNCHANGED <<banned, crashes>>
        PROVE  (\A x \in Tasks : InHand(x))'
    BY <1>13
       DEF RefundFailedChat, Refund, AfterEnd, Done
  <1>14. ASSUME NEW t \in Tasks, NextZrem(t) \/ NextWish(t), UNCHANGED <<banned, crashes>>
        PROVE  (\A x \in Tasks : InHand(x))'
    <2>1. CASE NextZrem(t)
      BY <1>14, <2>1 DEF NextZrem
    <2>2. CASE NextWish(t)
      BY <1>14, <2>2 DEF NextWish, Done
    <2> QED
      BY <1>14, <2>1, <2>2
  <1>15. ASSUME NEW t \in Tasks, Scan(t), UNCHANGED <<banned, crashes>>
        PROVE  (\A x \in Tasks : InHand(x))'
    BY <1>15
       DEF Scan, Find
  <1>16. ASSUME NEW t \in Tasks, Claim(t), UNCHANGED <<banned, crashes>>
        PROVE  (\A x \in Tasks : InHand(x))'
    <2>1. CASE pc[t] = "claim:zrem"
      <3>1. pc' = [pc EXCEPT ![t] = "claim:wish"]
        BY <1>16, <2>1 DEF Claim
      <3> QED
        BY <1>16, <2>1, <3>1, Findings
    <2>2. CASE pc[t] # "claim:zrem"
      BY <1>16, <2>2 DEF Claim
    <2> QED
      BY <2>1, <2>2
  <1>17. ASSUME NEW t \in Tasks, DequeueSelf(t), UNCHANGED <<banned, crashes>>
        PROVE  (\A x \in Tasks : InHand(x))'
    <2>1. CASE pc[t] = "self:zrem"
      <3>1. pc' = [pc EXCEPT ![t] = "self:wish"] /\ UNCHANGED call
        BY <1>17, <2>1 DEF DequeueSelf
      <3> QED
        BY <2>1, <3>1
    <2>2. CASE pc[t] = "self:wish"
      <3>1. pc' = [pc EXCEPT ![t] = "pair:user"] /\ UNCHANGED call
        BY <1>17, <2>2 DEF DequeueSelf
      <3> QED
        BY <2>2, <3>1
    <2> QED
      BY <1>17, <2>1, <2>2 DEF DequeueSelf
  <1>18. ASSUME NEW t \in Tasks, Verdict(t)
        PROVE  (\A x \in Tasks : InHand(x))'
    BY <1>18, VerdictBegins
  <1>19. ASSUME Talk
        PROVE  (\A x \in Tasks : InHand(x))'
    BY <1>19
       DEF Talk
  <1>20. ASSUME NEW u \in Users, Purge(u)
        PROVE  (\A x \in Tasks : InHand(x))'
    BY <1>20
       DEF Purge, Zrem
  <1>21. ASSUME NEW u \in Users, NEW s \in Slots, Timeout(u, s)
        PROVE  (\A x \in Tasks : InHand(x))'
    BY <1>21
       DEF Timeout, Fire, TimeoutDequeue, TimeoutUnpin, TimeoutRefund, Step, Zrem, DelWish,
           Refund, SetFlags
  <1>22. ASSUME Crash
        PROVE  (\A x \in Tasks : InHand(x))'
    BY <1>22
       DEF Crash
  <1>23. ASSUME UNCHANGED vars
        PROVE  (\A x \in Tasks : InHand(x))'
    BY <1>23
       DEF vars
  <1> QED
    BY <1>1, <1>2, <1>3, <1>4, <1>5, <1>6, <1>7, <1>8, <1>9, <1>10, <1>11, <1>12, <1>13, <1>14,
       <1>15, <1>16, <1>17, <1>18, <1>19, <1>20, <1>21, <1>22, <1>23
       DEF Next, Handle, MatchOrEnqueue

LEMMA TypedKeeps == ASSUME Typed, [Next]_vars PROVE Typed'
  BY RedisTypesKeep, MoneyTypesKeep, JobTypesKeep, LabelsKeep, CallsKeep, InHandKeeps
     DEF Typed, TypeOK, RedisTypes, MoneyTypes

-----------------------------------------------------------------------------
(* The queue. *)

\* Only who has no partner enters the queue, and who is claimed has left it.
LEMMA QueuedFreeKeeps ==
  ASSUME QInv, "search" \notin Events, [Next]_vars
  PROVE  QueuedAreFree'
  <1> USE OneToOneAssumption DEF redis, money, Goto, Typed, TypeOK, InHand, Calls, QInv,
          AnswersHold, QueuedAreFree, Claiming, Closing, Asking, Filtering, Unpaired, Unqueued,
          Tasks
  <1>1. ASSUME NEW t \in Tasks, Update(t)
        PROVE  QueuedAreFree'
    BY <1>1, UpdateBegins DEF FirstLabel, Commands
  <1>2. ASSUME NEW t \in Tasks, HasPartner(t) \/ IsWaiting(t) \/ LeavesQueue(t) \/ CancelPaid(t),
               UNCHANGED <<banned, crashes>>
        PROVE  QueuedAreFree'
    BY <1>2
       DEF HasPartner, IsWaiting, LeavesQueue, CancelPaid, Done
  <1>3. ASSUME NEW t \in Tasks, Charge(t) \/ SetChatPayer(t), UNCHANGED <<banned, crashes>>
        PROVE  QueuedAreFree'
    BY <1>3
       DEF Charge, SetChatPayer, AfterCharge, SetFlags, Done
  <1>4. ASSUME NEW t \in Tasks, Enqueue(t), UNCHANGED <<banned, crashes>>
        PROVE  QueuedAreFree'
    BY <1>4
       DEF Enqueue
  <1>5. ASSUME NEW t \in Tasks, Match(t), UNCHANGED <<banned, crashes>>
        PROVE  QueuedAreFree'
    BY <1>5
       DEF Match, Candidates, Find
  <1>6. ASSUME NEW t \in Tasks, ScheduleTimeout(t), UNCHANGED <<banned, crashes>>
        PROVE  QueuedAreFree'
    BY <1>6
       DEF ScheduleTimeout, Done
  <1>7. ASSUME NEW t \in Tasks, Unpin(t) \/ CancelUnpin(t), UNCHANGED <<banned, crashes>>
        PROVE  QueuedAreFree'
    BY <1>7
       DEF Unpin, CancelUnpin, CancelJobs
  <1>8. ASSUME NEW t \in Tasks, PairUp(t), UNCHANGED <<banned, crashes>>
        PROVE  QueuedAreFree'
    <2>1. t = Bot /\ call[t].user \in Users /\ call[t].other \in Users
      BY <1>8 DEF PairUp
    <2>2. CASE pc[t] = "pair:user"
      BY <1>8, <2>1, <2>2 DEF PairUp, SetPartner, Done
    <2>3. CASE pc[t] = "pair:other"
      BY <1>8, <2>1, <2>3 DEF PairUp, SetPartner, Done
    <2> QED
      BY <1>8, <2>2, <2>3 DEF PairUp
  <1>9. ASSUME NEW t \in Tasks, CancelDequeue(t) \/ CancelRefund(t),
               UNCHANGED <<banned, crashes>>
        PROVE  QueuedAreFree'
    BY <1>9
       DEF CancelDequeue, CancelRefund, Zrem, DelWish, Refund, SetFlags, Done
  <1>10. ASSUME NEW t \in Tasks, ReadBeforeEnd(t), UNCHANGED <<banned, crashes>>
        PROVE  QueuedAreFree'
    BY <1>10
       DEF ReadBeforeEnd
  <1>11. ASSUME NEW t \in Tasks, ClearGet(t), UNCHANGED <<banned, crashes>>
        PROVE  QueuedAreFree'
    BY <1>11
       DEF ClearGet, Find
  <1>12. ASSUME NEW t \in Tasks, ClearUser(t) \/ ClearOther(t) \/ ClearFlags(t),
               UNCHANGED <<banned, crashes>>
        PROVE  QueuedAreFree'
    BY <1>12
       DEF ClearUser, ClearOther, ClearFlags, SetPartner, AfterEnd, Done
  <1>13. ASSUME NEW t \in Tasks, RefundFailedChat(t), UNCHANGED <<banned, crashes>>
        PROVE  QueuedAreFree'
    BY <1>13
       DEF RefundFailedChat, Refund, AfterEnd, Done
  <1>14. ASSUME NEW t \in Tasks, NextZrem(t) \/ NextWish(t), UNCHANGED <<banned, crashes>>
        PROVE  QueuedAreFree'
    BY <1>14
       DEF NextZrem, NextWish, Zrem, DelWish, Done
  <1>15. ASSUME NEW t \in Tasks, Scan(t), UNCHANGED <<banned, crashes>>
        PROVE  QueuedAreFree'
    BY <1>15
       DEF Scan, Find
  <1>16. ASSUME NEW t \in Tasks, Claim(t), UNCHANGED <<banned, crashes>>
        PROVE  QueuedAreFree'
    BY <1>16
       DEF Claim, Zrem, DelWish
  <1>17. ASSUME NEW t \in Tasks, DequeueSelf(t), UNCHANGED <<banned, crashes>>
        PROVE  QueuedAreFree'
    BY <1>17
       DEF DequeueSelf, Zrem, DelWish
  <1>18. ASSUME NEW t \in Tasks, Verdict(t)
        PROVE  QueuedAreFree'
    BY <1>18, VerdictBegins
  <1>19. ASSUME Talk
        PROVE  QueuedAreFree'
    BY <1>19
       DEF Talk
  <1>20. ASSUME NEW u \in Users, Purge(u)
        PROVE  QueuedAreFree'
    BY <1>20
       DEF Purge, Zrem
  <1>21. ASSUME NEW u \in Users, NEW s \in Slots, Timeout(u, s)
        PROVE  QueuedAreFree'
    BY <1>21
       DEF Timeout, Fire, TimeoutDequeue, TimeoutUnpin, TimeoutRefund, Step, Zrem, DelWish,
           Refund, SetFlags
  <1>22. ASSUME Crash
        PROVE  QueuedAreFree'
    BY <1>22
       DEF Crash
  <1>23. ASSUME UNCHANGED vars
        PROVE  QueuedAreFree'
    BY <1>23
       DEF vars
  <1> QED
    BY <1>1, <1>2, <1>3, <1>4, <1>5, <1>6, <1>7, <1>8, <1>9, <1>10, <1>11, <1>12, <1>13, <1>14,
       <1>15, <1>16, <1>17, <1>18, <1>19, <1>20, <1>21, <1>22, <1>23
       DEF Next, Handle, MatchOrEnqueue

\* The handler's answers: nothing that runs between its steps spoils them.
LEMMA AnswersKeep ==
  ASSUME QInv, "search" \notin Events, [Next]_vars
  PROVE  AnswersHold'
  <1> USE OneToOneAssumption DEF redis, money, Goto, Typed, TypeOK, InHand, Calls, QInv,
          AnswersHold, QueuedAreFree, Claiming, Closing, Asking, Filtering, Unpaired, Unqueued,
          Tasks
  <1>1. ASSUME NEW t \in Tasks, Update(t)
        PROVE  AnswersHold'
    BY <1>1, UpdateBegins DEF FirstLabel, Commands
  <1>2. ASSUME NEW t \in Tasks, HasPartner(t) \/ IsWaiting(t) \/ LeavesQueue(t) \/ CancelPaid(t),
               UNCHANGED <<banned, crashes>>
        PROVE  AnswersHold'
    BY <1>2
       DEF HasPartner, IsWaiting, LeavesQueue, CancelPaid, Done
  <1>3. ASSUME NEW t \in Tasks, Charge(t) \/ SetChatPayer(t), UNCHANGED <<banned, crashes>>
        PROVE  AnswersHold'
    BY <1>3
       DEF Charge, SetChatPayer, AfterCharge, SetFlags, Done
  <1>4. ASSUME NEW t \in Tasks, Enqueue(t), UNCHANGED <<banned, crashes>>
        PROVE  AnswersHold'
    BY <1>4
       DEF Enqueue
  <1>5. ASSUME NEW t \in Tasks, Match(t), UNCHANGED <<banned, crashes>>
        PROVE  AnswersHold'
    BY <1>5
       DEF Match, Candidates, Find
  <1>6. ASSUME NEW t \in Tasks, ScheduleTimeout(t), UNCHANGED <<banned, crashes>>
        PROVE  AnswersHold'
    BY <1>6
       DEF ScheduleTimeout, Done
  <1>7. ASSUME NEW t \in Tasks, Unpin(t) \/ CancelUnpin(t), UNCHANGED <<banned, crashes>>
        PROVE  AnswersHold'
    BY <1>7, Unpinning
  <1>8. ASSUME NEW t \in Tasks, PairUp(t), UNCHANGED <<banned, crashes>>
        PROVE  AnswersHold'
    BY <1>8
       DEF PairUp, SetPartner, Done
  <1>9. ASSUME NEW t \in Tasks, CancelDequeue(t) \/ CancelRefund(t),
               UNCHANGED <<banned, crashes>>
        PROVE  AnswersHold'
    <2>1. CASE CancelDequeue(t)
      BY <1>9, <2>1, SMTT(30) DEF CancelDequeue
    <2>2. CASE CancelRefund(t)
      BY <1>9, <2>2 DEF CancelRefund, Done
    <2> QED
      BY <1>9, <2>1, <2>2
  <1>10. ASSUME NEW t \in Tasks, ReadBeforeEnd(t), UNCHANGED <<banned, crashes>>
        PROVE  AnswersHold'
    <2>1. /\ pc[t] = "end:read" /\ pc' = [pc EXCEPT ![t] = "clear:get"]
          /\ UNCHANGED <<queue, partner>>
      BY <1>10 DEF ReadBeforeEnd
    <2> QED
      BY <1>10, <2>1, Findings
  <1>11. ASSUME NEW t \in Tasks, ClearGet(t), UNCHANGED <<banned, crashes>>
        PROVE  AnswersHold'
    BY <1>11
       DEF ClearGet, Find
  <1>12. ASSUME NEW t \in Tasks, ClearUser(t) \/ ClearOther(t) \/ ClearFlags(t),
               UNCHANGED <<banned, crashes>>
        PROVE  AnswersHold'
    BY <1>12
       DEF ClearUser, ClearOther, ClearFlags, SetPartner, AfterEnd, Done
  <1>13. ASSUME NEW t \in Tasks, RefundFailedChat(t), UNCHANGED <<banned, crashes>>
        PROVE  AnswersHold'
    BY <1>13
       DEF RefundFailedChat, Refund, AfterEnd, Done
  <1>14. ASSUME NEW t \in Tasks, NextZrem(t) \/ NextWish(t), UNCHANGED <<banned, crashes>>
        PROVE  AnswersHold'
    <2>1. CASE NextZrem(t)
      BY <1>14, <2>1 DEF NextZrem, Zrem
    <2>2. CASE NextWish(t)
      BY <1>14, <2>2 DEF NextWish, DelWish, Done
    <2> QED
      BY <1>14, <2>1, <2>2
  <1>15. ASSUME NEW t \in Tasks, Scan(t), UNCHANGED <<banned, crashes>>
        PROVE  AnswersHold'
    BY <1>15
       DEF Scan, Find
  <1>16. ASSUME NEW t \in Tasks, Claim(t), UNCHANGED <<banned, crashes>>
        PROVE  AnswersHold'
    <2>1. CASE pc[t] = "claim:zrem"
      <3>1. pc' = [pc EXCEPT ![t] = "claim:wish"]
        BY <1>16, <2>1 DEF Claim
      <3> QED
        BY <1>16, <2>1, <3>1, Findings
    <2>2. CASE pc[t] # "claim:zrem"
      BY <1>16, <2>2 DEF Claim
    <2> QED
      BY <2>1, <2>2
  <1>17. ASSUME NEW t \in Tasks, DequeueSelf(t), UNCHANGED <<banned, crashes>>
        PROVE  AnswersHold'
    BY <1>17
       DEF DequeueSelf, Zrem, DelWish
  <1>18. ASSUME NEW t \in Tasks, Verdict(t)
        PROVE  AnswersHold'
    BY <1>18, VerdictBegins
  <1>19. ASSUME Talk
        PROVE  AnswersHold'
    BY <1>19
       DEF Talk
  <1>20. ASSUME NEW u \in Users, Purge(u)
        PROVE  AnswersHold'
    BY <1>20
       DEF Purge, Zrem
  <1>21. ASSUME NEW u \in Users, NEW s \in Slots, Timeout(u, s)
        PROVE  AnswersHold'
    BY <1>21
       DEF Timeout, Fire, TimeoutDequeue, TimeoutUnpin, TimeoutRefund, Step, Zrem, DelWish,
           Refund, SetFlags
  <1>22. ASSUME Crash
        PROVE  AnswersHold'
    BY <1>22
       DEF Crash
  <1>23. ASSUME UNCHANGED vars
        PROVE  AnswersHold'
    BY <1>23
       DEF vars
  <1> QED
    BY <1>1, <1>2, <1>3, <1>4, <1>5, <1>6, <1>7, <1>8, <1>9, <1>10, <1>11, <1>12, <1>13, <1>14,
       <1>15, <1>16, <1>17, <1>18, <1>19, <1>20, <1>21, <1>22, <1>23
       DEF Next, Handle, MatchOrEnqueue

-----------------------------------------------------------------------------
(* The pairs, when nothing but timeout jobs and the purge runs between the steps. *)

\* The two whom the handler pairs or parts.
LEMMA HalfWayKeeps ==
  ASSUME PairInv, "search" \notin Events, Verdicts = {}, Crashes = 0, [Next]_vars
  PROVE  HalfWay'
  <1> USE OneToOneAssumption DEF redis, money, Goto, Typed, TypeOK, InHand, Calls, QInv,
          AnswersHold, QueuedAreFree, Claiming, Closing, Asking, Filtering, Unpaired, Unqueued,
          Tasks, PairInv, HalfWay, Almost
  <1>1. ASSUME NEW t \in Tasks, Update(t)
        PROVE  HalfWay'
    BY <1>1, UpdateBegins DEF FirstLabel, Commands
  <1>2. ASSUME NEW t \in Tasks, HasPartner(t) \/ IsWaiting(t) \/ LeavesQueue(t) \/ CancelPaid(t),
               UNCHANGED <<banned, crashes>>
        PROVE  HalfWay'
    BY <1>2
       DEF HasPartner, IsWaiting, LeavesQueue, CancelPaid, Done
  <1>3. ASSUME NEW t \in Tasks, Charge(t) \/ SetChatPayer(t), UNCHANGED <<banned, crashes>>
        PROVE  HalfWay'
    BY <1>3
       DEF Charge, SetChatPayer, AfterCharge, SetFlags, Done
  <1>4. ASSUME NEW t \in Tasks, Enqueue(t), UNCHANGED <<banned, crashes>>
        PROVE  HalfWay'
    BY <1>4
       DEF Enqueue
  <1>5. ASSUME NEW t \in Tasks, Match(t), UNCHANGED <<banned, crashes>>
        PROVE  HalfWay'
    BY <1>5
       DEF Match, Candidates, Find
  <1>6. ASSUME NEW t \in Tasks, ScheduleTimeout(t), UNCHANGED <<banned, crashes>>
        PROVE  HalfWay'
    BY <1>6
       DEF ScheduleTimeout, Done
  <1>7. ASSUME NEW t \in Tasks, Unpin(t) \/ CancelUnpin(t), UNCHANGED <<banned, crashes>>
        PROVE  HalfWay'
    BY <1>7, Unpinning
  <1>8. ASSUME NEW t \in Tasks, PairUp(t), UNCHANGED <<banned, crashes>>
        PROVE  HalfWay'
    <2>1. t = Bot /\ call[t].user \in Users /\ call[t].other \in Users
      BY <1>8 DEF PairUp
    <2>2. CASE pc[t] = "pair:user"
      BY <1>8, <2>1, <2>2 DEF PairUp, SetPartner, Done
    <2>3. CASE pc[t] = "pair:other"
      BY <1>8, <2>1, <2>3 DEF PairUp, SetPartner, Done
    <2> QED
      BY <1>8, <2>2, <2>3 DEF PairUp
  <1>9. ASSUME NEW t \in Tasks, CancelDequeue(t) \/ CancelRefund(t),
               UNCHANGED <<banned, crashes>>
        PROVE  HalfWay'
    <2>1. CASE CancelDequeue(t)
      BY <1>9, <2>1 DEF CancelDequeue
    <2>2. CASE CancelRefund(t)
      BY <1>9, <2>2 DEF CancelRefund, Done
    <2> QED
      BY <1>9, <2>1, <2>2
  <1>10. ASSUME NEW t \in Tasks, ReadBeforeEnd(t), UNCHANGED <<banned, crashes>>
        PROVE  HalfWay'
    <2>1. /\ pc[t] = "end:read" /\ pc' = [pc EXCEPT ![t] = "clear:get"]
          /\ UNCHANGED <<queue, partner>>
      BY <1>10 DEF ReadBeforeEnd
    <2> QED
      BY <1>10, <2>1, Findings
  <1>11. ASSUME NEW t \in Tasks, ClearGet(t), UNCHANGED <<banned, crashes>>
        PROVE  HalfWay'
    BY <1>11
       DEF ClearGet, Find
  <1>12. ASSUME NEW t \in Tasks, ClearUser(t) \/ ClearOther(t) \/ ClearFlags(t),
               UNCHANGED <<banned, crashes>>
        PROVE  HalfWay'
    BY <1>12
       DEF ClearUser, ClearOther, ClearFlags, SetPartner, AfterEnd, Done
  <1>13. ASSUME NEW t \in Tasks, RefundFailedChat(t), UNCHANGED <<banned, crashes>>
        PROVE  HalfWay'
    BY <1>13
       DEF RefundFailedChat, Refund, AfterEnd, Done
  <1>14. ASSUME NEW t \in Tasks, NextZrem(t) \/ NextWish(t), UNCHANGED <<banned, crashes>>
        PROVE  HalfWay'
    <2>1. CASE NextZrem(t)
      BY <1>14, <2>1 DEF NextZrem, Zrem
    <2>2. CASE NextWish(t)
      BY <1>14, <2>2 DEF NextWish, DelWish, Done
    <2> QED
      BY <1>14, <2>1, <2>2
  <1>15. ASSUME NEW t \in Tasks, Scan(t), UNCHANGED <<banned, crashes>>
        PROVE  HalfWay'
    BY <1>15
       DEF Scan, Find
  <1>16. ASSUME NEW t \in Tasks, Claim(t), UNCHANGED <<banned, crashes>>
        PROVE  HalfWay'
    <2>1. CASE pc[t] = "claim:zrem"
      <3>1. pc' = [pc EXCEPT ![t] = "claim:wish"]
        BY <1>16, <2>1 DEF Claim
      <3> QED
        BY <1>16, <2>1, <3>1, Findings
    <2>2. CASE pc[t] # "claim:zrem"
      BY <1>16, <2>2 DEF Claim
    <2> QED
      BY <2>1, <2>2
  <1>17. ASSUME NEW t \in Tasks, DequeueSelf(t), UNCHANGED <<banned, crashes>>
        PROVE  HalfWay'
    BY <1>17
       DEF DequeueSelf, Zrem, DelWish
  <1>18. ASSUME NEW t \in Tasks, Verdict(t)
        PROVE  HalfWay'
    BY <1>18, VerdictBegins
  <1>19. ASSUME Talk
        PROVE  HalfWay'
    BY <1>19
       DEF Talk
  <1>20. ASSUME NEW u \in Users, Purge(u)
        PROVE  HalfWay'
    BY <1>20
       DEF Purge, Zrem
  <1>21. ASSUME NEW u \in Users, NEW s \in Slots, Timeout(u, s)
        PROVE  HalfWay'
    BY <1>21
       DEF Timeout, Fire, TimeoutDequeue, TimeoutUnpin, TimeoutRefund, Step, Zrem, DelWish,
           Refund, SetFlags
  <1>22. ASSUME Crash
        PROVE  HalfWay'
    BY <1>22
       DEF Crash
  <1>23. ASSUME UNCHANGED vars
        PROVE  HalfWay'
    BY <1>23
       DEF vars
  <1> QED
    BY <1>1, <1>2, <1>3, <1>4, <1>5, <1>6, <1>7, <1>8, <1>9, <1>10, <1>11, <1>12, <1>13, <1>14,
       <1>15, <1>16, <1>17, <1>18, <1>19, <1>20, <1>21, <1>22, <1>23
       DEF Next, Handle, MatchOrEnqueue

\* All others.
LEMMA AlmostKeeps ==
  ASSUME PairInv, "search" \notin Events, Verdicts = {}, Crashes = 0, [Next]_vars
  PROVE  Almost'
  <1> USE OneToOneAssumption DEF redis, money, Goto, Typed, TypeOK, InHand, Calls, QInv,
          AnswersHold, QueuedAreFree, Claiming, Closing, Asking, Filtering, Unpaired, Unqueued,
          Tasks, PairInv, HalfWay, Almost
  <1>1. ASSUME NEW t \in Tasks, Update(t)
        PROVE  Almost'
    BY <1>1, UpdateBegins DEF FirstLabel, Commands
  <1>2. ASSUME NEW t \in Tasks, HasPartner(t) \/ IsWaiting(t) \/ LeavesQueue(t) \/ CancelPaid(t),
               UNCHANGED <<banned, crashes>>
        PROVE  Almost'
    BY <1>2
       DEF HasPartner, IsWaiting, LeavesQueue, CancelPaid, Done
  <1>3. ASSUME NEW t \in Tasks, Charge(t) \/ SetChatPayer(t), UNCHANGED <<banned, crashes>>
        PROVE  Almost'
    BY <1>3
       DEF Charge, SetChatPayer, AfterCharge, SetFlags, Done
  <1>4. ASSUME NEW t \in Tasks, Enqueue(t), UNCHANGED <<banned, crashes>>
        PROVE  Almost'
    BY <1>4
       DEF Enqueue
  <1>5. ASSUME NEW t \in Tasks, Match(t), UNCHANGED <<banned, crashes>>
        PROVE  Almost'
    BY <1>5
       DEF Match, Candidates, Find
  <1>6. ASSUME NEW t \in Tasks, ScheduleTimeout(t), UNCHANGED <<banned, crashes>>
        PROVE  Almost'
    BY <1>6
       DEF ScheduleTimeout, Done
  <1>7. ASSUME NEW t \in Tasks, Unpin(t) \/ CancelUnpin(t), UNCHANGED <<banned, crashes>>
        PROVE  Almost'
    BY <1>7, Unpinning
  <1>8. ASSUME NEW t \in Tasks, PairUp(t), UNCHANGED <<banned, crashes>>
        PROVE  Almost'
    BY <1>8
       DEF PairUp, SetPartner, Done
  <1>9. ASSUME NEW t \in Tasks, CancelDequeue(t) \/ CancelRefund(t),
               UNCHANGED <<banned, crashes>>
        PROVE  Almost'
    <2>1. CASE CancelDequeue(t)
      BY <1>9, <2>1 DEF CancelDequeue, Zrem, DelWish
    <2>2. CASE CancelRefund(t)
      BY <1>9, <2>2 DEF CancelRefund, SetFlags, Done
    <2> QED
      BY <1>9, <2>1, <2>2
  <1>10. ASSUME NEW t \in Tasks, ReadBeforeEnd(t), UNCHANGED <<banned, crashes>>
        PROVE  Almost'
    <2>1. /\ pc[t] = "end:read" /\ pc' = [pc EXCEPT ![t] = "clear:get"]
          /\ UNCHANGED <<queue, partner>>
      BY <1>10 DEF ReadBeforeEnd
    <2> QED
      BY <1>10, <2>1, Findings
  <1>11. ASSUME NEW t \in Tasks, ClearGet(t), UNCHANGED <<banned, crashes>>
        PROVE  Almost'
    BY <1>11
       DEF ClearGet, Find
  <1>12. ASSUME NEW t \in Tasks, ClearUser(t) \/ ClearOther(t) \/ ClearFlags(t),
               UNCHANGED <<banned, crashes>>
        PROVE  Almost'
    BY <1>12
       DEF ClearUser, ClearOther, ClearFlags, SetPartner, AfterEnd, Done
  <1>13. ASSUME NEW t \in Tasks, RefundFailedChat(t), UNCHANGED <<banned, crashes>>
        PROVE  Almost'
    BY <1>13
       DEF RefundFailedChat, Refund, AfterEnd, Done
  <1>14. ASSUME NEW t \in Tasks, NextZrem(t) \/ NextWish(t), UNCHANGED <<banned, crashes>>
        PROVE  Almost'
    <2>1. CASE NextZrem(t)
      BY <1>14, <2>1 DEF NextZrem, Zrem
    <2>2. CASE NextWish(t)
      BY <1>14, <2>2 DEF NextWish, DelWish, Done
    <2> QED
      BY <1>14, <2>1, <2>2
  <1>15. ASSUME NEW t \in Tasks, Scan(t), UNCHANGED <<banned, crashes>>
        PROVE  Almost'
    BY <1>15
       DEF Scan, Find
  <1>16. ASSUME NEW t \in Tasks, Claim(t), UNCHANGED <<banned, crashes>>
        PROVE  Almost'
    <2>1. CASE pc[t] = "claim:zrem"
      <3>1. pc' = [pc EXCEPT ![t] = "claim:wish"]
        BY <1>16, <2>1 DEF Claim
      <3> QED
        BY <1>16, <2>1, <3>1, Findings
    <2>2. CASE pc[t] # "claim:zrem"
      BY <1>16, <2>2 DEF Claim
    <2> QED
      BY <2>1, <2>2
  <1>17. ASSUME NEW t \in Tasks, DequeueSelf(t), UNCHANGED <<banned, crashes>>
        PROVE  Almost'
    BY <1>17
       DEF DequeueSelf, Zrem, DelWish
  <1>18. ASSUME NEW t \in Tasks, Verdict(t)
        PROVE  Almost'
    BY <1>18, VerdictBegins
  <1>19. ASSUME Talk
        PROVE  Almost'
    BY <1>19
       DEF Talk
  <1>20. ASSUME NEW u \in Users, Purge(u)
        PROVE  Almost'
    BY <1>20
       DEF Purge, Zrem
  <1>21. ASSUME NEW u \in Users, NEW s \in Slots, Timeout(u, s)
        PROVE  Almost'
    BY <1>21
       DEF Timeout, Fire, TimeoutDequeue, TimeoutUnpin, TimeoutRefund, Step, Zrem, DelWish,
           Refund, SetFlags
  <1>22. ASSUME Crash
        PROVE  Almost'
    BY <1>22
       DEF Crash
  <1>23. ASSUME UNCHANGED vars
        PROVE  Almost'
    BY <1>23
       DEF vars
  <1> QED
    BY <1>1, <1>2, <1>3, <1>4, <1>5, <1>6, <1>7, <1>8, <1>9, <1>10, <1>11, <1>12, <1>13, <1>14,
       <1>15, <1>16, <1>17, <1>18, <1>19, <1>20, <1>21, <1>22, <1>23
       DEF Next, Handle, MatchOrEnqueue

-----------------------------------------------------------------------------
(* The refinement. *)

Waits == queue \cup Claimed
Partners == [v \in Users |-> PartnerOf(v)]

\* With the handler as the only task, the mapping is about one call.
LEMMA Mapped ==
  ASSUME Verdicts = {}
  PROVE  /\ Claimed = IF pc[Bot] \in {"unpin:user", "unpin:other", "pair:user"}
                      THEN {call[Bot].other} ELSE {}
         /\ Claimed' = IF pc'[Bot] \in {"unpin:user", "unpin:other", "pair:user"}
                       THEN {call'[Bot].other} ELSE {}
         /\ \A v \in Users :
              PartnerOf(v) = IF pc[Bot] = "pair:other" /\ call[Bot].other = v THEN call[Bot].user
                             ELSE IF pc[Bot] = "clear:other" /\ call[Bot].other = v THEN None
                             ELSE partner[v]
         /\ \A v \in Users :
              PartnerOf(v)' = IF pc'[Bot] = "pair:other" /\ call'[Bot].other = v THEN call'[Bot].user
                              ELSE IF pc'[Bot] = "clear:other" /\ call'[Bot].other = v THEN None
                              ELSE partner'[v]
  <1>1. Tasks = {Bot}
    BY DEF Tasks
  <1>2. /\ Claimed = IF pc[Bot] \in {"unpin:user", "unpin:other", "pair:user"}
                     THEN {call[Bot].other} ELSE {}
        /\ Claimed' = IF pc'[Bot] \in {"unpin:user", "unpin:other", "pair:user"}
                      THEN {call'[Bot].other} ELSE {}
    BY <1>1 DEF Claimed
  <1>3. ASSUME NEW v \in Users
        PROVE  PartnerOf(v) = IF pc[Bot] = "pair:other" /\ call[Bot].other = v THEN call[Bot].user
                              ELSE IF pc[Bot] = "clear:other" /\ call[Bot].other = v THEN None
                              ELSE partner[v]
    <2> DEFINE sets == {t \in Tasks : pc[t] = "pair:other" /\ call[t].other = v}
               dels == {t \in Tasks : pc[t] = "clear:other" /\ call[t].other = v}
    <2>1. PartnerOf(v) = CASE sets # {} -> call[CHOOSE t \in sets : TRUE].user
                           [] dels # {} -> None
                           [] OTHER -> partner[v]
      BY DEF PartnerOf
    <2>2. /\ sets = IF pc[Bot] = "pair:other" /\ call[Bot].other = v THEN {Bot} ELSE {}
          /\ dels = IF pc[Bot] = "clear:other" /\ call[Bot].other = v THEN {Bot} ELSE {}
      BY <1>1
    <2>3. (CHOOSE t \in {Bot} : TRUE) = Bot
      OBVIOUS
    <2> HIDE DEF sets, dels
    <2> QED
      BY <2>1, <2>2, <2>3
  <1>4. ASSUME NEW v \in Users
        PROVE  PartnerOf(v)' = IF pc'[Bot] = "pair:other" /\ call'[Bot].other = v THEN call'[Bot].user
                               ELSE IF pc'[Bot] = "clear:other" /\ call'[Bot].other = v THEN None
                               ELSE partner'[v]
    <2> DEFINE sets == {t \in Tasks : pc'[t] = "pair:other" /\ call'[t].other = v}
               dels == {t \in Tasks : pc'[t] = "clear:other" /\ call'[t].other = v}
    <2>1. PartnerOf(v)' = CASE sets # {} -> call'[CHOOSE t \in sets : TRUE].user
                            [] dels # {} -> None
                            [] OTHER -> partner'[v]
      BY DEF PartnerOf
    <2>2. /\ sets = IF pc'[Bot] = "pair:other" /\ call'[Bot].other = v THEN {Bot} ELSE {}
          /\ dels = IF pc'[Bot] = "clear:other" /\ call'[Bot].other = v THEN {Bot} ELSE {}
      BY <1>1
    <2>3. (CHOOSE t \in {Bot} : TRUE) = Bot
      OBVIOUS
    <2> HIDE DEF sets, dels
    <2> QED
      BY <2>1, <2>2, <2>3
  <1> QED
    BY <1>2, <1>3, <1>4

\* What a step must do to the mapped variables to be one of the abstract ones.
LEMMA Stutters ==
  ASSUME Waits' = Waits, \A v \in Users : PartnerOf(v)' = PartnerOf(v)
  PROVE  [P!PNext]_(P!pairs)
  BY DEF P!pairs, Waits

LEMMA IsWait ==
  ASSUME NEW u \in Users, u \notin Waits, PartnerOf(u) = None,
         Waits' = Waits \cup {u}, \A v \in Users : PartnerOf(v)' = PartnerOf(v)
  PROVE  [P!PNext]_(P!pairs)
  <1>1. P!Wait(u)
    BY DEF P!Wait, P!Free, Waits
  <1> QED
    BY <1>1 DEF P!PNext

LEMMA IsWithdraw ==
  ASSUME NEW u \in Users, u \in Waits,
         Waits' = Waits \ {u}, \A v \in Users : PartnerOf(v)' = PartnerOf(v)
  PROVE  [P!PNext]_(P!pairs)
  <1>1. P!Withdraw(u)
    BY DEF P!Withdraw, Waits
  <1> QED
    BY <1>1 DEF P!PNext

LEMMA IsPair ==
  ASSUME NEW u \in Users, NEW v \in Users, u # v, u \notin Waits, PartnerOf(u) = None, v \in Waits,
         Waits' = Waits \ {v},
         \A w \in Users : PartnerOf(w)' = IF w = u THEN v ELSE IF w = v THEN u ELSE PartnerOf(w)
  PROVE  [P!PNext]_(P!pairs)
  <1>1. P!Pair(u, v)
    BY DEF P!Pair, P!Free, Waits
  <1> QED
    BY <1>1 DEF P!PNext

LEMMA IsPart ==
  ASSUME NEW u \in Users, PartnerOf(u) \in Users, PartnerOf(u) # None, Waits' = Waits,
         \A w \in Users : PartnerOf(w)' = IF w \in {u, PartnerOf(u)} THEN None ELSE PartnerOf(w)
  PROVE  [P!PNext]_(P!pairs)
  <1>1. P!Part(u)
    BY DEF P!Part, Waits
  <1> QED
    BY <1>1 DEF P!PNext

\* Each step of a handler, a timeout job or the purge is an abstract step or none.
LEMMA StepRefines ==
  ASSUME PairInv, "search" \notin Events, Verdicts = {}, Crashes = 0, [Next]_vars
  PROVE  [P!PNext]_(P!pairs)
  <1> USE OneToOneAssumption DEF redis, money, Goto, Typed, TypeOK, InHand, Calls, QInv,
          AnswersHold, QueuedAreFree, Claiming, Closing, Asking, Filtering, Unpaired, Unqueued,
          Tasks, PairInv, HalfWay, Almost, Waits
  <1>1. ASSUME NEW t \in Tasks, Update(t)
        PROVE  [P!PNext]_(P!pairs)
    BY <1>1, UpdateBegins, Mapped, Stutters DEF FirstLabel, Commands
  <1>2. ASSUME NEW t \in Tasks, HasPartner(t) \/ IsWaiting(t) \/ LeavesQueue(t) \/ CancelPaid(t),
               UNCHANGED <<banned, crashes>>
        PROVE  [P!PNext]_(P!pairs)
    BY <1>2, Mapped, Stutters
       DEF HasPartner, IsWaiting, LeavesQueue, CancelPaid, Done
  <1>3. ASSUME NEW t \in Tasks, Charge(t) \/ SetChatPayer(t), UNCHANGED <<banned, crashes>>
        PROVE  [P!PNext]_(P!pairs)
    BY <1>3, Mapped, Stutters
       DEF Charge, SetChatPayer, AfterCharge, SetFlags, Done
  <1>4. ASSUME NEW t \in Tasks, Enqueue(t), UNCHANGED <<banned, crashes>>
        PROVE  [P!PNext]_(P!pairs)
    BY <1>4, Mapped, IsWait DEF Enqueue
  <1>5. ASSUME NEW t \in Tasks, Match(t), UNCHANGED <<banned, crashes>>
        PROVE  [P!PNext]_(P!pairs)
    BY <1>5, Mapped, Stutters
       DEF Match, Candidates, Find
  <1>6. ASSUME NEW t \in Tasks, ScheduleTimeout(t), UNCHANGED <<banned, crashes>>
        PROVE  [P!PNext]_(P!pairs)
    BY <1>6, Mapped, Stutters
       DEF ScheduleTimeout, Done
  <1>7. ASSUME NEW t \in Tasks, Unpin(t) \/ CancelUnpin(t), UNCHANGED <<banned, crashes>>
        PROVE  [P!PNext]_(P!pairs)
    BY <1>7, Unpinning, Mapped, Stutters
  <1>8. ASSUME NEW t \in Tasks, PairUp(t), UNCHANGED <<banned, crashes>>
        PROVE  [P!PNext]_(P!pairs)
    <2>1. t = Bot /\ call[t].user \in Users /\ call[t].other \in Users
      BY <1>8 DEF PairUp
    <2>2. CASE pc[t] = "pair:user"
      BY <1>8, <2>1, <2>2, Mapped, IsPair, SMTT(30) DEF PairUp, SetPartner
    <2>3. CASE pc[t] = "pair:other"
      BY <1>8, <2>1, <2>3, Mapped, Stutters DEF PairUp, SetPartner, Done
    <2> QED
      BY <1>8, <2>2, <2>3 DEF PairUp
  <1>9. ASSUME NEW t \in Tasks, CancelDequeue(t) \/ CancelRefund(t),
               UNCHANGED <<banned, crashes>>
        PROVE  [P!PNext]_(P!pairs)
    <2> t = Bot /\ call[t].user \in Users
      BY <1>9 DEF CancelDequeue, CancelRefund
    <2>1. CASE CancelDequeue(t) /\ pc[t] = "cancel:zrem" /\ call[t].user \in queue
      <3>1. /\ queue' = queue \ {call[t].user} /\ pc' = [pc EXCEPT ![t] = "cancel:wish"]
            /\ UNCHANGED <<partner, call>>
        BY <2>1 DEF CancelDequeue, Zrem
      <3> QED
        BY <2>1, <3>1, Mapped, IsWithdraw
    <2>2. CASE CancelDequeue(t) /\ pc[t] = "cancel:zrem" /\ call[t].user \notin queue
      BY <1>9, <2>2, Mapped, Stutters DEF CancelDequeue, Zrem
    <2>3. CASE CancelDequeue(t) /\ pc[t] = "cancel:wish"
      BY <1>9, <2>3, Mapped, Stutters DEF CancelDequeue, DelWish
    <2>4. CASE CancelRefund(t)
      BY <1>9, <2>4, Mapped, Stutters DEF CancelRefund, SetFlags, Done
    <2> QED
      BY <1>9, <2>1, <2>2, <2>3, <2>4 DEF CancelDequeue
  <1>10. ASSUME NEW t \in Tasks, ReadBeforeEnd(t), UNCHANGED <<banned, crashes>>
        PROVE  [P!PNext]_(P!pairs)
    <2>1. /\ pc[t] = "end:read" /\ pc' = [pc EXCEPT ![t] = "clear:get"]
          /\ UNCHANGED <<queue, partner>>
      BY <1>10 DEF ReadBeforeEnd
    <2> QED
      BY <1>10, <2>1, Findings, Mapped, Stutters
  <1>11. ASSUME NEW t \in Tasks, ClearGet(t), UNCHANGED <<banned, crashes>>
        PROVE  [P!PNext]_(P!pairs)
    BY <1>11, Mapped, Stutters
       DEF ClearGet, Find
  <1>12. ASSUME NEW t \in Tasks, ClearUser(t) \/ ClearOther(t) \/ ClearFlags(t),
               UNCHANGED <<banned, crashes>>
        PROVE  [P!PNext]_(P!pairs)
    <2> t = Bot /\ call[t].user \in Users
      BY <1>12 DEF ClearUser, ClearOther, ClearFlags
    <2>1. CASE ClearUser(t) /\ call[t].other = None
      BY <1>12, <2>1, Mapped, Stutters DEF ClearUser, SetPartner, AfterEnd, Done
    <2>2. CASE ClearUser(t) /\ call[t].other # None
      BY <1>12, <2>2, Mapped, IsPart DEF ClearUser, SetPartner
    <2>3. CASE ClearOther(t)
      BY <1>12, <2>3, Mapped, Stutters DEF ClearOther, SetPartner
    <2>4. CASE ClearFlags(t)
      BY <1>12, <2>4, Mapped, Stutters DEF ClearFlags
    <2> QED
      BY <1>12, <2>1, <2>2, <2>3, <2>4
  <1>13. ASSUME NEW t \in Tasks, RefundFailedChat(t), UNCHANGED <<banned, crashes>>
        PROVE  [P!PNext]_(P!pairs)
    BY <1>13, Mapped, Stutters
       DEF RefundFailedChat, Refund, AfterEnd, Done
  <1>14. ASSUME NEW t \in Tasks, NextZrem(t) \/ NextWish(t), UNCHANGED <<banned, crashes>>
        PROVE  [P!PNext]_(P!pairs)
    <2> t = Bot /\ call[t].user \in Users
      BY <1>14 DEF NextZrem, NextWish
    <2>1. CASE NextZrem(t) /\ call[t].user \in queue
      BY <1>14, <2>1, Mapped, IsWithdraw DEF NextZrem, Zrem
    <2>2. CASE NextZrem(t) /\ call[t].user \notin queue
      BY <1>14, <2>2, Mapped, Stutters DEF NextZrem, Zrem
    <2>3. CASE NextWish(t)
      BY <1>14, <2>3, Mapped, Stutters DEF NextWish, DelWish, Done
    <2> QED
      BY <1>14, <2>1, <2>2, <2>3
  <1>15. ASSUME NEW t \in Tasks, Scan(t), UNCHANGED <<banned, crashes>>
        PROVE  [P!PNext]_(P!pairs)
    BY <1>15 DEF Scan
  <1>16. ASSUME NEW t \in Tasks, Claim(t), UNCHANGED <<banned, crashes>>
        PROVE  [P!PNext]_(P!pairs)
    BY <1>16 DEF Claim
  <1>17. ASSUME NEW t \in Tasks, DequeueSelf(t), UNCHANGED <<banned, crashes>>
        PROVE  [P!PNext]_(P!pairs)
    BY <1>17 DEF DequeueSelf
  <1>18. ASSUME NEW t \in Tasks, Verdict(t)
        PROVE  [P!PNext]_(P!pairs)
    BY <1>18, VerdictBegins
  <1>19. ASSUME Talk
        PROVE  [P!PNext]_(P!pairs)
    BY <1>19, Mapped, Stutters
       DEF Talk
  <1>20. ASSUME NEW u \in Users, Purge(u)
        PROVE  [P!PNext]_(P!pairs)
    <2>1. u \in queue /\ queue' = queue \ {u} /\ UNCHANGED <<partner, pc, call>>
      BY <1>20 DEF Purge, Zrem
    <2>2. u \in Waits /\ Waits' = Waits \ {u}
      BY <2>1, Mapped
    <2>3. \A v \in Users : PartnerOf(v)' = PartnerOf(v)
      BY <2>1, Mapped
    <2> QED
      BY <1>20, <2>2, <2>3, IsWithdraw
  <1>21. ASSUME NEW u \in Users, NEW s \in Slots, Timeout(u, s)
        PROVE  [P!PNext]_(P!pairs)
    <2>1. CASE TimeoutDequeue(u, s) /\ queue' = queue \ {u} /\ u \in queue
      <3>1. UNCHANGED <<partner, pc, call>>
        BY <1>21, <2>1 DEF Timeout, TimeoutDequeue, Zrem, DelWish
      <3>2. u \in Waits /\ Waits' = Waits \ {u}
        BY <2>1, <3>1, Mapped
      <3>3. \A v \in Users : PartnerOf(v)' = PartnerOf(v)
        BY <3>1, Mapped
      <3> QED
        BY <1>21, <3>2, <3>3, IsWithdraw
    <2>2. CASE TimeoutDequeue(u, s) /\ ~(queue' = queue \ {u} /\ u \in queue)
      BY <1>21, <2>2, Mapped, Stutters DEF Timeout, TimeoutDequeue, Zrem, DelWish
    <2>3. CASE Fire(u, s) \/ TimeoutUnpin(u, s) \/ TimeoutRefund(u, s)
      BY <1>21, <2>3, Mapped, Stutters DEF Timeout, Fire, TimeoutUnpin, TimeoutRefund, SetFlags
    <2> QED
      BY <1>21, <2>1, <2>2, <2>3 DEF Timeout
  <1>22. ASSUME Crash
        PROVE  [P!PNext]_(P!pairs)
    BY <1>22 DEF Crash
  <1>23. ASSUME UNCHANGED vars
        PROVE  [P!PNext]_(P!pairs)
    BY <1>23, Mapped, Stutters
       DEF vars
  <1> QED
    BY <1>1, <1>2, <1>3, <1>4, <1>5, <1>6, <1>7, <1>8, <1>9, <1>10, <1>11, <1>12, <1>13, <1>14,
       <1>15, <1>16, <1>17, <1>18, <1>19, <1>20, <1>21, <1>22, <1>23
       DEF Next, Handle, MatchOrEnqueue

-----------------------------------------------------------------------------
(* Pairing, as mapped: for any variables in the place of its own. *)

MutualIn(p) ==
  /\ p \in [Users -> Users \cup {None}]
  /\ \A w \in Users : p[w] # None => p[w] # w /\ p[p[w]] = w

LEMMA MadeAndEnded ==
  ASSUME NEW p, MutualIn(p), NEW u \in Users, NEW v \in Users
  PROVE  /\ u # v /\ p[u] = None /\ p[v] = None => MutualIn([p EXCEPT ![u] = v, ![v] = u])
         /\ p[u] # None => MutualIn([p EXCEPT ![u] = None, ![p[u]] = None])
  BY OneToOneAssumption DEF MutualIn

LEMMA PairingStep ==
  ASSUME P!PairingInv, [P!PNext]_(P!pairs)
  PROVE  P!PairingInv'
  <1>1. MutualIn(Partners) /\ Waits \subseteq Users /\ \A u \in Waits : Partners[u] = None
    BY DEF P!PairingInv, P!PairingTypeOK, P!Mutual, P!WaitingIsFree, MutualIn, Partners, Waits
  <1>2. ASSUME MutualIn(Partners)', Waits' \subseteq Users, \A u \in Waits' : Partners'[u] = None
        PROVE  P!PairingInv'
    BY <1>2
       DEF P!PairingInv, P!PairingTypeOK, P!Mutual, P!WaitingIsFree, MutualIn, Partners, Waits
  <1>3. ASSUME NEW u \in Users, P!Wait(u) PROVE P!PairingInv'
    <2>1. Partners[u] = None /\ Waits' = Waits \cup {u} /\ Partners' = Partners
      BY <1>3 DEF P!Wait, P!Free, Partners, Waits
    <2> QED
      BY <1>1, <1>2, <2>1 DEF MutualIn
  <1>4. ASSUME NEW u \in Users, P!Withdraw(u) PROVE P!PairingInv'
    <2>1. Waits' = Waits \ {u} /\ Partners' = Partners
      BY <1>4 DEF P!Withdraw, Partners, Waits
    <2> QED
      BY <1>1, <1>2, <2>1 DEF MutualIn
  <1>5. ASSUME NEW u \in Users, P!Part(u) PROVE P!PairingInv'
    <2>1. /\ Partners[u] # None /\ Waits' = Waits
          /\ Partners' = [Partners EXCEPT ![u] = None, ![Partners[u]] = None]
      BY <1>5 DEF P!Part, Partners, Waits
    <2>2. MutualIn(Partners')
      BY <1>1, <2>1, MadeAndEnded
    <2>3. \A w \in Waits' : Partners'[w] = None
      BY <1>1, <2>1 DEF MutualIn
    <2> QED
      BY <1>1, <1>2, <2>1, <2>2, <2>3 DEF MutualIn
  <1>6. ASSUME NEW u \in Users, NEW v \in Users, P!Pair(u, v) PROVE P!PairingInv'
    <2>1. /\ u # v /\ u \notin Waits /\ v \in Waits /\ Partners[u] = None
          /\ Waits' = Waits \ {v} /\ Partners' = [Partners EXCEPT ![u] = v, ![v] = u]
      BY <1>6 DEF P!Pair, P!Free, Partners, Waits
    <2>2. MutualIn(Partners')
      BY <1>1, <2>1, MadeAndEnded
    <2>3. \A w \in Waits' : Partners'[w] = None
      BY <1>1, <2>1 DEF MutualIn
    <2> QED
      BY <1>1, <1>2, <2>1, <2>2, <2>3 DEF MutualIn
  <1>7. CASE UNCHANGED P!pairs
    <2>1. Waits' = Waits /\ Partners' = Partners
      BY <1>7 DEF P!pairs, Partners, Waits
    <2> QED
      BY <1>1, <1>2, <2>1 DEF MutualIn
  <1> QED
    BY <1>3, <1>4, <1>5, <1>6, <1>7 DEF P!PNext

-----------------------------------------------------------------------------
(* The theorems. *)

\* Every key, coin, job and reading of the 1:1 chat has its type, with filtered
\* searches, verdicts and crashes.
THEOREM ChatTypesAlwaysOK == Spec => []TypeOK
  <1>1. Init => Typed
    BY InitPairInv DEF PairInv, QInv
  <1>2. Typed => TypeOK
    BY DEF Typed
  <1> QED
    BY <1>1, <1>2, TypedKeeps, PTL DEF Spec

\* While nobody searches with filters, the answers of get_partner and is_waiting
\* still hold when start_chat, next_chat and try_match act on them, whatever
\* jobs, verdicts and crashes come between.
THEOREM AnswersAlwaysHold ==
  ASSUME "search" \notin Events
  PROVE  Spec => []QInv
  <1>1. Init => QInv
    BY InitPairInv DEF PairInv
  <1>2. ASSUME QInv, [Next]_vars PROVE QInv'
    <2>1. Typed'
      BY <1>2, TypedKeeps DEF QInv
    <2> QED
      BY <1>2, <2>1, QueuedFreeKeeps, AnswersKeep DEF QInv
  <1> QED
    BY <1>1, <1>2, PTL DEF Spec

\* A user in waiting_queue has no partner key, so the Lua script's match breaks
\* up no chat: with any number of verdicts and crashes, unless somebody
\* searches with filters.
THEOREM QueuedAlwaysFree ==
  ASSUME "search" \notin Events
  PROVE  Spec => []QueuedAreFree
  <1>1. QInv => QueuedAreFree
    BY DEF QInv
  <1> QED
    BY <1>1, AnswersAlwaysHold, PTL

\* Without filtered searches, verdicts and crashes, at each of the steps of
\* set_partner and clear_partner all pairs but the one in hand are mutual.
THEOREM PairsAlwaysKept ==
  ASSUME "search" \notin Events, Verdicts = {}, Crashes = 0
  PROVE  Spec => []PairInv
  <1>1. Init => PairInv
    BY InitPairInv
  <1>2. ASSUME PairInv, [Next]_vars PROVE PairInv'
    <2>1. Typed'
      BY <1>2, TypedKeeps DEF PairInv, QInv
    <2>2. AnswersHold' /\ QueuedAreFree'
      BY <1>2, QueuedFreeKeeps, AnswersKeep DEF PairInv
    <2> QED
      BY <1>2, <2>1, <2>2, HalfWayKeeps, AlmostKeeps DEF PairInv, QInv
  <1> QED
    BY <1>1, <1>2, PTL DEF Spec

\* Between two updates every pair is mutual.
THEOREM MutualAlwaysBetweenUpdates ==
  ASSUME "search" \notin Events, Verdicts = {}, Crashes = 0
  PROVE  Spec => []MutualBetweenUpdates
  <1>1. PairInv => MutualBetweenUpdates
    BY DEF PairInv, Almost, MutualBetweenUpdates
  <1> QED
    BY <1>1, PairsAlwaysKept, PTL

\* The redis commands of start, next and stop, with timeout jobs and the purge
\* between any two of them, implement indivisible pairing and parting.
THEOREM HandlersImplementPairing ==
  ASSUME "search" \notin Events, Verdicts = {}, Crashes = 0
  PROVE  Spec => PairingSpec
  <1>1. Init => P!PInit
    <2> SUFFICES ASSUME Init PROVE P!PInit
      OBVIOUS
    <2>1. Claimed = {} /\ \A v \in Users : PartnerOf(v) = None
      BY Mapped DEF Init, Tasks
    <2> QED
      BY <2>1 DEF Init, P!PInit
  <1>2. PairInv /\ [Next]_vars => [P!PNext]_(P!pairs)
    BY StepRefines
  <1> QED
    BY <1>1, <1>2, PairsAlwaysKept, PTL DEF Spec, PairingSpec, P!PSpec

\* What Pairing promises: pairs are mutual, nobody is their own partner, and no
\* user waits while in a chat.
THEOREM PairsAlwaysMutual == PairingSpec => []P!PairingInv
  <1>1. P!PInit => P!PairingInv
    BY OneToOneAssumption DEF P!PInit, P!PairingInv, P!PairingTypeOK, P!Mutual, P!WaitingIsFree
  <1> QED
    BY <1>1, PairingStep, PTL DEF PairingSpec, P!PSpec

=============================================================================

--------------------------- MODULE JudgementProofs ---------------------------
(***************************************************************************)
(* For any users, reports, limit, reward and jobs: the last warning bans,  *)
(* a ban stays and is carried out, a report is judged once at most and is  *)
(* not forgotten.                                                          *)
(*                                                                         *)
(* JInv strengthens these.  QueueOK and PushOK say that a report is in one *)
(* place at a time, the list, the hands of the handler or a task, and not  *)
(* judged before its task has begun; PlanOK says of what a task has still  *)
(* to do that a write comes first and a ban is followed by its             *)
(* enforcement.  Both survive a lost transaction, because no commit writes *)
(* the column that another has set to TRUE back to FALSE.                  *)
(***************************************************************************)
EXTENDS Judgement, SequenceTheorems, TLAPS

Todo == [op : Ops, user : Users \cup {None}]

\* What a report's task has still to do, if its verdict is not yet written or is.
PlanOK(plan, written) ==
  \A i \in DOMAIN plan :
    /\ plan[i].op \in {"warn", "reward", "ban", "enforce"} => plan[i].user \in Users
    /\ plan[i].op = "write" => i = 1 /\ written = 0
    /\ plan[i].op = "ban" => \E j \in DOMAIN plan : j > i /\ plan[j] = Do("enforce", plan[i].user)

Answered(plan) == \E i \in DOMAIN plan, answer \in Answers : plan[i] = Do(answer, None)

QueueOK ==
  /\ \A i, j \in DOMAIN queue : queue[i] = queue[j] => i = j
  /\ \A i \in DOMAIN queue :
       report[queue[i]] # None /\ todo[queue[i]] = <<>> /\ judged[queue[i]] = 0

PushOK ==
  LET r == bot[Handler].report
  IN  IF bot[Handler].op = "push"
      THEN /\ r \in Reports /\ report[r] # None
           /\ todo[r] = <<>> /\ judged[r] = 0
           /\ \A i \in DOMAIN queue : queue[i] # r
      ELSE r = None

TasksOK ==
  \A r \in Reports :
    /\ PlanOK(todo[r], judged[r])
    /\ report[r] = None => todo[r] = <<>> /\ judged[r] = 0

JInv ==
  /\ TypeOK /\ QueueOK /\ PushOK /\ TasksOK
  /\ FifthBans /\ JudgedOnce /\ BansEnforced /\ ReportersHear

-----------------------------------------------------------------------------
(* Lists of things to do. *)

\* What is left of a list when its head is done and more is appended.
LEMMA RestList ==
  ASSUME NEW S, NEW s \in Seq(S), s # <<>>, NEW more \in Seq(S)
  PROVE  LET t == Tail(s) \o more
         IN  /\ t \in Seq(S)
             /\ Len(t) = Len(s) - 1 + Len(more)
             /\ \A i \in 1 .. Len(t) : t[i] = IF i < Len(s) THEN s[i + 1] ELSE more[i - Len(s) + 1]
             /\ \A i \in 1 .. Len(s) : i > 1 => t[i - 1] = s[i]
  <1>1. Len(s) \in Nat /\ Len(s) > 0 /\ Len(more) \in Nat
    BY EmptySeq, LenProperties
  <1>2. /\ Tail(s) \in Seq(S) /\ Len(Tail(s)) = Len(s) - 1
        /\ \A i \in 1 .. Len(Tail(s)) : Tail(s)[i] = s[i + 1]
    BY HeadTailProperties, <1>1
  <1>3. /\ Tail(s) \o more \in Seq(S)
        /\ Len(Tail(s) \o more) = Len(Tail(s)) + Len(more)
        /\ \A i \in 1 .. Len(Tail(s)) + Len(more) :
             (Tail(s) \o more)[i] =
               IF i <= Len(Tail(s)) THEN Tail(s)[i] ELSE more[i - Len(Tail(s))]
    BY <1>2, ConcatProperties
  <1> QED
    BY <1>1, <1>2, <1>3

LEMMA RestPlan ==
  ASSUME NEW s \in Seq(Todo), s # <<>>, NEW more \in Seq(Todo), NEW w, NEW v,
         PlanOK(s, w),
         \A i \in DOMAIN more : more[i].op = "enforce" /\ more[i].user \in Users
  PROVE  /\ Tail(s) \o more \in Seq(Todo)
         /\ PlanOK(Tail(s) \o more, v)
  <1> DEFINE t == Tail(s) \o more
  <1>1. /\ t \in Seq(Todo)
        /\ Len(t) = Len(s) - 1 + Len(more)
        /\ \A i \in 1 .. Len(t) : t[i] = IF i < Len(s) THEN s[i + 1] ELSE more[i - Len(s) + 1]
        /\ \A i \in 1 .. Len(s) : i > 1 => t[i - 1] = s[i]
    BY RestList
  <1>2. /\ Len(s) \in Nat /\ Len(s) > 0 /\ DOMAIN s = 1 .. Len(s)
        /\ Len(more) \in Nat /\ DOMAIN more = 1 .. Len(more)
        /\ DOMAIN t = 1 .. Len(t)
    BY <1>1, EmptySeq, LenProperties
  <1> HIDE DEF t
  <1>3. ASSUME NEW i \in DOMAIN t
        PROVE  /\ t[i].op \in {"warn", "reward", "ban", "enforce"} => t[i].user \in Users
               /\ t[i].op = "write" => i = 1 /\ v = 0
               /\ t[i].op = "ban" => \E j \in DOMAIN t : j > i /\ t[j] = Do("enforce", t[i].user)
    <2>1. CASE i < Len(s)
      <3>1. i + 1 \in DOMAIN s /\ i + 1 > 1 /\ t[i] = s[i + 1]
        BY <1>1, <1>2, <2>1
      <3>2. t[i].op # "write"
        BY <3>1 DEF PlanOK
      <3>3. t[i].op = "ban" => \E j \in DOMAIN s : j > i + 1 /\ s[j] = Do("enforce", t[i].user)
        BY <3>1 DEF PlanOK
      <3>4. ASSUME NEW j \in DOMAIN s, j > i + 1
            PROVE  j - 1 \in DOMAIN t /\ j - 1 > i /\ t[j - 1] = s[j]
        BY <1>1, <1>2, <2>1, <3>4
      <3> QED
        BY <3>1, <3>2, <3>3, <3>4 DEF PlanOK
    <2>2. CASE ~(i < Len(s))
      <3>1. i - Len(s) + 1 \in DOMAIN more /\ t[i] = more[i - Len(s) + 1]
        BY <1>1, <1>2, <2>2
      <3> QED
        BY <3>1
    <2> QED
      BY <2>1, <2>2
  <1> QED
    BY <1>1, <1>3 DEF PlanOK, t

\* A thing to do that is not the head stays to be done.
LEMMA RestKeeps ==
  ASSUME NEW s \in Seq(Todo), s # <<>>, NEW more \in Seq(Todo), NEW x, x # Head(s)
  PROVE  (\E i \in DOMAIN s : s[i] = x) => \E i \in DOMAIN (Tail(s) \o more) : (Tail(s) \o more)[i] = x
  <1> DEFINE t == Tail(s) \o more
  <1>1. /\ t \in Seq(Todo)
        /\ Len(t) = Len(s) - 1 + Len(more)
        /\ \A i \in 1 .. Len(s) : i > 1 => t[i - 1] = s[i]
    BY RestList
  <1>2. /\ Len(s) \in Nat /\ Len(s) > 0 /\ DOMAIN s = 1 .. Len(s)
        /\ Len(more) \in Nat /\ DOMAIN t = 1 .. Len(t)
    BY <1>1, EmptySeq, LenProperties
  <1>3. Head(s) = s[1]
    BY <1>2, HeadTailProperties
  <1> HIDE DEF t
  <1>4. ASSUME NEW i \in DOMAIN s, s[i] = x
        PROVE  i - 1 \in DOMAIN t /\ t[i - 1] = x
    BY <1>1, <1>2, <1>3, <1>4
  <1> QED
    BY <1>4 DEF t

\* What is appended is to be done.
LEMMA RestAdds ==
  ASSUME NEW s \in Seq(Todo), s # <<>>, NEW x \in Todo
  PROVE  \E i \in DOMAIN (Tail(s) \o <<x>>) : (Tail(s) \o <<x>>)[i] = x
  <1> DEFINE t == Tail(s) \o <<x>>
  <1>1. <<x>> \in Seq(Todo) /\ Len(<<x>>) = 1 /\ <<x>>[1] = x
    OBVIOUS
  <1>2. /\ t \in Seq(Todo)
        /\ Len(t) = Len(s) - 1 + 1
        /\ \A i \in 1 .. Len(t) : t[i] = IF i < Len(s) THEN s[i + 1] ELSE <<x>>[i - Len(s) + 1]
    BY <1>1, RestList
  <1>3. /\ Len(s) \in Nat /\ Len(s) > 0 /\ DOMAIN t = 1 .. Len(t)
    BY <1>2, EmptySeq, LenProperties
  <1> HIDE DEF t
  <1>4. Len(s) \in DOMAIN t /\ t[Len(s)] = x
    BY <1>1, <1>2, <1>3
  <1> QED
    BY <1>4 DEF t

-----------------------------------------------------------------------------
(* The plans of a verdict. *)

\* Every plan may be carried out, and answers the reporter.
LEMMA PlansOK ==
  ASSUME TypeOK, NEW r \in Reports, report[r] # None, NEW plan \in Plans(r)
  PROVE  plan \in Seq(Todo) /\ PlanOK(plan, 0) /\ Answered(plan)
  <1> DEFINE by == report[r].by
             of == report[r].of
  <1>1. by \in Users /\ of \in Users
    BY DEF TypeOK, ReportRow
  <1>2. \/ plan = <<Do("pending", None)>>
        \/ plan = <<Do("write", None), Do("verdict", None)>>
        \/ plan = <<Do("write", None), Do("warn", of), Do("reward", by), Do("verdict", None)>>
        \/ plan = <<Do("write", None), Do("warn", of), Do("reward", by), Do("warn", by), Do("verdict", None)>>
        \/ plan = <<Do("write", None), Do("warn", by), Do("verdict", None)>>
        \/ plan = <<Do("write", None), Do("warn", by), Do("warn", by), Do("verdict", None)>>
        \/ plan = <<Do("write", None), Do("ban", of), Do("reward", by), Do("verdict", None), Do("enforce", of)>>
    BY DEF Plans, ChatPlans, ProfilePlans, Pending, Dismissed, Verdict
  <1>3. CASE plan = <<Do("pending", None)>>
    <2>1. /\ DOMAIN plan = 1 .. 1
          /\ plan[1] = Do("pending", None)
      BY <1>3
    <2> QED
      BY <1>1, <1>3, <2>1 DEF Todo, Ops, Answers, Do, PlanOK, Answered
  <1>4. CASE plan = <<Do("write", None), Do("verdict", None)>>
    <2>1. /\ DOMAIN plan = 1 .. 2
          /\ plan[1] = Do("write", None) /\ plan[2] = Do("verdict", None)
      BY <1>4
    <2> QED
      BY <1>1, <1>4, <2>1 DEF Todo, Ops, Answers, Do, PlanOK, Answered
  <1>5. CASE plan = <<Do("write", None), Do("warn", of), Do("reward", by), Do("verdict", None)>>
    <2>1. /\ DOMAIN plan = 1 .. 4
          /\ plan[1] = Do("write", None) /\ plan[2] = Do("warn", of) /\ plan[3] = Do("reward", by) /\ plan[4] = Do("verdict", None)
      BY <1>5
    <2> QED
      BY <1>1, <1>5, <2>1 DEF Todo, Ops, Answers, Do, PlanOK, Answered
  <1>6. CASE plan = <<Do("write", None), Do("warn", of), Do("reward", by), Do("warn", by), Do("verdict", None)>>
    <2>1. /\ DOMAIN plan = 1 .. 5
          /\ plan[1] = Do("write", None) /\ plan[2] = Do("warn", of) /\ plan[3] = Do("reward", by) /\ plan[4] = Do("warn", by) /\ plan[5] = Do("verdict", None)
      BY <1>6
    <2> QED
      BY <1>1, <1>6, <2>1 DEF Todo, Ops, Answers, Do, PlanOK, Answered
  <1>7. CASE plan = <<Do("write", None), Do("warn", by), Do("verdict", None)>>
    <2>1. /\ DOMAIN plan = 1 .. 3
          /\ plan[1] = Do("write", None) /\ plan[2] = Do("warn", by) /\ plan[3] = Do("verdict", None)
      BY <1>7
    <2> QED
      BY <1>1, <1>7, <2>1 DEF Todo, Ops, Answers, Do, PlanOK, Answered
  <1>8. CASE plan = <<Do("write", None), Do("warn", by), Do("warn", by), Do("verdict", None)>>
    <2>1. /\ DOMAIN plan = 1 .. 4
          /\ plan[1] = Do("write", None) /\ plan[2] = Do("warn", by) /\ plan[3] = Do("warn", by) /\ plan[4] = Do("verdict", None)
      BY <1>8
    <2> QED
      BY <1>1, <1>8, <2>1 DEF Todo, Ops, Answers, Do, PlanOK, Answered
  <1>9. CASE plan = <<Do("write", None), Do("ban", of), Do("reward", by), Do("verdict", None), Do("enforce", of)>>
    <2>1. /\ DOMAIN plan = 1 .. 5
          /\ plan[1] = Do("write", None) /\ plan[2] = Do("ban", of) /\ plan[3] = Do("reward", by) /\ plan[4] = Do("verdict", None) /\ plan[5] = Do("enforce", of)
      BY <1>9
    <2> QED
      BY <1>1, <1>9, <2>1 DEF Todo, Ops, Answers, Do, PlanOK, Answered
  <1> QED
    BY <1>2, <1>3, <1>4, <1>5, <1>6, <1>7, <1>8, <1>9

-----------------------------------------------------------------------------
(* What the steps have in common. *)

\* Steps of the bot, and reads: no list changes, nobody is warned or banned.
LEMMA QuietKeeps ==
  ASSUME JInv,
         users' \in [Users -> Row], row' \in [Tasks -> Row \cup {None}],
         bot' \in [BotTasks -> [op : {"idle", "update", "push", "deduct", "refund"},
                                user : Users \cup {None}, report : Reports \cup {None}]],
         \A u \in Users : /\ users'[u].banned = users[u].banned
                           /\ users'[u].warnings = users[u].warnings,
         UNCHANGED <<filed, outcome, todo, mishaps>>,
         \/ bot'[Handler] = bot[Handler]
         \/ bot[Handler].op # "push" /\ bot'[Handler].op # "push" /\ bot'[Handler].report = None
  PROVE  JInv'
  <1> USE DEF filed, outcome
  <1>1. TypeOK'
    BY DEF JInv, TypeOK
  <1>2. QueueOK' /\ TasksOK' /\ JudgedOnce'
    BY DEF JInv, QueueOK, TasksOK, PlanOK, JudgedOnce
  <1>3. PushOK'
    BY DEF JInv, PushOK
  <1>4. FifthBans' /\ BansEnforced'
    BY DEF JInv, FifthBans, BansEnforced, Does
  <1>5. ReportersHear'
    <2>1. bot[Handler].report # None => bot'[Handler] = bot[Handler]
      BY DEF JInv, PushOK
    <2> QED
      BY <2>1, JudgementAssumption DEF JInv, ReportersHear, Does
  <1> QED
    BY <1>1, <1>2, <1>3, <1>4, <1>5 DEF JInv

\* A task does the next thing on its list, and may have to enforce a ban later.
LEMMA WorkKeeps ==
  ASSUME JInv, NEW r \in Reports, todo[r] # <<>>, NEW more \in Seq(Todo),
         \A i \in DOMAIN more : more[i].op = "enforce" /\ more[i].user \in Users,
         Rest(r, more), UNCHANGED <<filed, bot>>,
         judged' \in [Reports -> 0 .. 2], judged'[r] <= 1,
         \A s \in Reports \ {r} : judged'[s] = judged[s]
  PROVE  /\ todo' \in [Reports -> Seq(Todo)]
         /\ QueueOK' /\ PushOK' /\ TasksOK' /\ JudgedOnce'
         /\ \A s \in Reports, op \in Ops, u \in Users \cup {None} :
              Does(s, op, u) /\ (s = r => Head(todo[r]) # Do(op, u)) => Does(s, op, u)'
  <1> USE DEF filed
  <1>1. /\ todo \in [Reports -> Seq(Todo)] /\ judged \in [Reports -> 0 .. 2]
        /\ queue \in Seq(Reports)
    BY DEF JInv, TypeOK, Todo
  <1>2. todo[r] \in Seq(Todo) /\ PlanOK(todo[r], judged[r]) /\ report[r] # None
    BY <1>1 DEF JInv, TasksOK
  <1>3. /\ Tail(todo[r]) \o more \in Seq(Todo)
        /\ PlanOK(Tail(todo[r]) \o more, judged'[r])
    BY <1>2, RestPlan
  <1>4. /\ todo' \in [Reports -> Seq(Todo)]
        /\ todo'[r] = Tail(todo[r]) \o more
        /\ \A s \in Reports \ {r} : todo'[s] = todo[s]
    BY <1>1, <1>3 DEF Rest
  <1>5. QueueOK'
    <2>1. \A i \in DOMAIN queue : queue[i] \in Reports
      BY <1>1
    <2>2. \A i \in DOMAIN queue : queue[i] \in Reports \ {r}
      BY <2>1 DEF JInv, QueueOK
    <2> QED
      BY <1>4, <2>2 DEF JInv, QueueOK
  <1>6. PushOK'
    BY <1>4 DEF JInv, PushOK
  <1>7. TasksOK'
    <2>1. ASSUME NEW s \in Reports
          PROVE  PlanOK(todo'[s], judged'[s])
      BY <1>3, <1>4 DEF JInv, TasksOK
    <2> QED
      BY <1>2, <1>4, <2>1 DEF JInv, TasksOK, PlanOK
  <1>8. JudgedOnce'
    BY <1>1 DEF JInv, JudgedOnce
  <1>9. ASSUME NEW s \in Reports, NEW op \in Ops, NEW u \in Users \cup {None},
               Does(s, op, u), s = r => Head(todo[r]) # Do(op, u)
        PROVE  Does(s, op, u)'
    <2>1. CASE s = r
      <3>1. \E i \in DOMAIN todo[r] : todo[r][i] = Do(op, u)
        BY <1>9, <2>1 DEF Does
      <3>2. \E i \in DOMAIN (Tail(todo[r]) \o more) : (Tail(todo[r]) \o more)[i] = Do(op, u)
        <4> DEFINE x == Do(op, u)
        <4>1. Head(todo[r]) # x /\ \E i \in DOMAIN todo[r] : todo[r][i] = x
          BY <1>9, <2>1, <3>1
        <4> HIDE DEF x
        <4>2. \E i \in DOMAIN (Tail(todo[r]) \o more) : (Tail(todo[r]) \o more)[i] = x
          BY <1>2, <4>1, RestKeeps
        <4> QED
          BY <4>2 DEF x
      <3> QED
        BY <1>4, <2>1, <3>2 DEF Does
    <2>2. CASE s # r
      BY <1>4, <1>9, <2>2 DEF Does
    <2> QED
      BY <2>1, <2>2
  <1> QED
    BY <1>4, <1>5, <1>6, <1>7, <1>8, <1>9

\* While what a task does is no answer, nobody's answer gets lost.
LEMMA WorkHears ==
  ASSUME JInv, NEW r \in Reports, Head(todo[r]).op \notin Answers,
         \A s \in Reports, op \in Ops, u \in Users \cup {None} :
            Does(s, op, u) /\ (s = r => Head(todo[r]) # Do(op, u)) => Does(s, op, u)',
         UNCHANGED <<filed, bot, mishaps, told>>
  PROVE  ReportersHear'
  <1>1. \A answer \in Answers : Head(todo[r]) # Do(answer, None) /\ answer \in Ops
    BY DEF Do, Ops
  <1>2. \A s \in Reports, answer \in Answers : Does(s, answer, None) => Does(s, answer, None)'
    BY <1>1
  <1> QED
    BY <1>2 DEF JInv, ReportersHear, filed

\* Who was banned before a task's step, other than the enforcement, stays seen to.
LEMMA WorkEnforces ==
  ASSUME JInv, NEW r \in Reports, Head(todo[r]).op # "enforce",
         \A s \in Reports, op \in Ops, u \in Users \cup {None} :
            Does(s, op, u) /\ (s = r => Head(todo[r]) # Do(op, u)) => Does(s, op, u)',
         UNCHANGED <<mishaps, enforced>>,
         \A u \in Users : users'[u].banned /\ ~users[u].banned => Does(r, "enforce", u)'
  PROVE  BansEnforced'
  <1>1. \A u \in Users : Head(todo[r]) # Do("enforce", u)
    BY DEF Do
  <1>2. \A s \in Reports, u \in Users : Does(s, "enforce", u) => Does(s, "enforce", u)'
    BY <1>1 DEF Ops
  <1> QED
    BY <1>2 DEF JInv, BansEnforced

-----------------------------------------------------------------------------
(* The steps of the bot. *)

LEMMA UpdateKeeps ==
  ASSUME JInv, NEW u \in Users, Update(u)
  PROVE  JInv'
  <1>1. bot \in [BotTasks -> [op : {"idle", "update", "push", "deduct", "refund"},
                              user : Users \cup {None}, report : Reports \cup {None}]]
    BY DEF JInv, TypeOK
  <1>2. bot'[Handler] = Doing("update", u, None)
    BY <1>1 DEF Update, BotTasks
  <1> QED
    BY <1>1, <1>2, QuietKeeps DEF JInv, TypeOK, Update, Doing

LEMMA FiledKeeps ==
  ASSUME JInv, NEW r \in Reports, NEW kind \in Kinds, NEW u \in Users, NEW v \in Users,
         Filed(r, kind, u, v)
  PROVE  JInv'
  <1> DEFINE new == [kind |-> kind, by |-> u, of |-> v]
  <1>1. new \in ReportRow /\ new # None
    BY JudgementAssumption DEF ReportRow
  <1>2. /\ report[r] = None /\ report' \in [Reports -> ReportRow \cup {None}]
        /\ report'[r] = new /\ \A s \in Reports \ {r} : report'[s] = report[s]
    BY <1>1 DEF JInv, TypeOK, Filed
  <1>3. /\ bot[Handler].op = "update"
        /\ bot' = [bot EXCEPT ![Handler] = Doing("push", u, r)]
        /\ bot'[Handler] = Doing("push", u, r)
    BY DEF JInv, TypeOK, Filed, Updating, Doing, BotTasks
  <1>4. UNCHANGED <<users, queue, judged, told, enforced, todo, row, mishaps>>
    BY DEF Filed, outcome
  <1> HIDE DEF new
  <1>5. TypeOK'
    BY <1>2, <1>3, <1>4 DEF JInv, TypeOK, Doing
  <1>6. bot[Handler].report = None
    BY <1>3 DEF JInv, PushOK
  <1>7. todo[r] = <<>> /\ judged[r] = 0
    BY <1>2 DEF JInv, TasksOK
  <1>8. \A i \in DOMAIN queue : queue[i] \in Reports \ {r}
    <2>1. \A i \in DOMAIN queue : queue[i] \in Reports
      BY DEF JInv, TypeOK
    <2> QED
      BY <1>2, <2>1 DEF JInv, QueueOK
  <1>9. QueueOK' /\ PushOK'
    BY <1>1, <1>2, <1>3, <1>4, <1>7, <1>8 DEF JInv, QueueOK, PushOK, Doing
  <1>10. TasksOK'
    BY <1>2, <1>4 DEF JInv, TasksOK, PlanOK
  <1>11. FifthBans' /\ JudgedOnce' /\ BansEnforced'
    BY <1>4 DEF JInv, FifthBans, JudgedOnce, BansEnforced, Does
  <1>12. ReportersHear'
    BY <1>2, <1>3, <1>4, <1>6, JudgementAssumption DEF JInv, ReportersHear, Does, Doing
  <1> QED
    BY <1>5, <1>9, <1>10, <1>11, <1>12 DEF JInv

LEMMA PushKeeps ==
  ASSUME JInv, Push
  PROVE  JInv'
  <1> DEFINE r == bot[Handler].report
  <1>1. /\ bot[Handler].op = "push"
        /\ bot'[Handler].op = "update" /\ bot'[Handler].report = None
        /\ queue' = Append(queue, r)
        /\ UNCHANGED <<users, report, judged, told, enforced, todo, row, mishaps>>
    BY DEF JInv, TypeOK, Push, Doing, BotTasks, outcome
  <1>2. /\ r \in Reports /\ report[r] # None /\ todo[r] = <<>> /\ judged[r] = 0
        /\ \A i \in DOMAIN queue : queue[i] # r
    BY <1>1 DEF JInv, PushOK
  <1>3. TypeOK'
    <2>1. bot' \in [BotTasks -> [op : {"idle", "update", "push", "deduct", "refund"},
                                 user : Users \cup {None}, report : Reports \cup {None}]]
      BY DEF JInv, TypeOK, Push, Doing
    <2>2. queue' \in Seq(Reports)
      BY <1>1, <1>2 DEF JInv, TypeOK
    <2> QED
      BY <1>1, <2>1, <2>2 DEF JInv, TypeOK
  <1> HIDE DEF r
  <1>4. /\ Len(queue) \in Nat /\ DOMAIN queue = 1 .. Len(queue)
        /\ DOMAIN queue' = 1 .. Len(queue) + 1
        /\ queue'[Len(queue) + 1] = r
        /\ \A i \in DOMAIN queue : queue'[i] = queue[i]
    BY <1>1, <1>2, LenProperties, AppendProperties DEF JInv, TypeOK
  <1>5. QueueOK'
    <2>1. \A i \in DOMAIN queue' : i \in DOMAIN queue \/ i = Len(queue) + 1
      BY <1>4
    <2>2. \A i, j \in DOMAIN queue' : queue'[i] = queue'[j] => i = j
      BY <1>2, <1>4, <2>1 DEF JInv, QueueOK
    <2>3. \A i \in DOMAIN queue' :
            report'[queue'[i]] # None /\ todo'[queue'[i]] = <<>> /\ judged'[queue'[i]] = 0
      BY <1>1, <1>2, <1>4, <2>1 DEF JInv, QueueOK
    <2> QED
      BY <2>2, <2>3 DEF QueueOK
  <1>6. PushOK'
    BY <1>1 DEF PushOK
  <1>7. TasksOK' /\ FifthBans' /\ JudgedOnce' /\ BansEnforced'
    BY <1>1 DEF JInv, TasksOK, PlanOK, FifthBans, JudgedOnce, BansEnforced, Does
  <1>8. ReportersHear'
    <2>1. \E i \in DOMAIN queue' : queue'[i] = r
      BY <1>4
    <2>2. \A s \in Reports : (\E i \in DOMAIN queue : queue[i] = s) => \E i \in DOMAIN queue' : queue'[i] = s
      BY <1>4
    <2> QED
      BY <1>1, <2>1, <2>2 DEF JInv, ReportersHear, Does, r
  <1> QED
    BY <1>3, <1>5, <1>6, <1>7, <1>8 DEF JInv

LEMMA SpendKeeps ==
  ASSUME JInv, NEW t \in BotTasks, NEW op \in Payments, NEW u \in Users, Spend(t, op, u)
  PROVE  JInv'
  <1>1. op \in {"deduct", "refund"}
    BY JudgementAssumption
  <1>2. bot[t].op # "push"
    <2>1. (\E v \in Users : bot[t] = Doing("update", v, None)) \/ bot[t] = Idle
      BY DEF Spend, Updating
    <2>2. ASSUME NEW v \in Users
          PROVE  Doing("update", v, None).op = "update"
      BY DEF Doing
    <2>3. Idle.op = "idle"
      BY DEF Doing, Idle
    <2> QED
      BY <2>1, <2>2, <2>3
  <1>3. /\ bot' = [bot EXCEPT ![t] = Doing(op, u, None)] /\ row' = [row EXCEPT ![t] = users[u]]
        /\ UNCHANGED <<users, filed, outcome, todo, mishaps>>
    BY DEF Spend, Load
  <1>4. bot' \in [BotTasks -> [op : {"idle", "update", "push", "deduct", "refund"},
                               user : Users \cup {None}, report : Reports \cup {None}]]
    BY <1>1, <1>3 DEF JInv, TypeOK, Doing
  <1>5. \/ bot'[Handler] = bot[Handler]
        \/ bot[Handler].op # "push" /\ bot'[Handler].op # "push" /\ bot'[Handler].report = None
    BY <1>1, <1>2, <1>3 DEF JInv, TypeOK, Doing, BotTasks
  <1>6. users' \in [Users -> Row] /\ row' \in [Tasks -> Row \cup {None}]
    BY <1>3 DEF JInv, TypeOK
  <1> QED
    BY <1>3, <1>4, <1>5, <1>6, QuietKeeps

\* What a transaction that only changes coins leaves in the row.
LEMMA CoinsKeep ==
  ASSUME TypeOK, NEW t \in Tasks, NEW u \in Users,
         \/ \E n \in Nat : AddCoins(t, u, n)
         \/ Deduct(t, u, 1)
  PROVE  /\ users' \in [Users -> Row] /\ row' \in [Tasks -> Row \cup {None}]
         /\ \A v \in Users : /\ users'[v].banned = users[v].banned
                              /\ users'[v].warnings = users[v].warnings
  <1>1. users \in [Users -> Row] /\ row \in [Tasks -> Row \cup {None}]
    BY DEF TypeOK
  <1>2. ASSUME NEW n \in Nat, AddCoins(t, u, n)
        PROVE  /\ row' = [row EXCEPT ![t] = None]
               /\ \E c \in Nat : users' = [users EXCEPT ![u] = [users[u] EXCEPT !.coins = c]]
    <2>1. row[t].coins \in Nat
      BY <1>1, <1>2 DEF AddCoins, Commit, Row
    <2>2. Capped(row[t].coins + n) \in Nat
      BY <2>1, JudgementAssumption DEF Capped
    <2> QED
      BY <1>2, <2>2 DEF AddCoins, Commit
  <1>3. ASSUME Deduct(t, u, 1), row[t] # None
        PROVE  /\ row' = [row EXCEPT ![t] = None]
               /\ users' = users \/ \E c \in Nat : users' = [users EXCEPT ![u] = [users[u] EXCEPT !.coins = c]]
    <2>1. row[t].coins \in Nat
      BY <1>1, <1>3 DEF Row
    <2> QED
      BY <1>3, <2>1 DEF Deduct, Commit
  <1>4. ASSUME Deduct(t, u, 1), row[t] = None
        PROVE  row' = [row EXCEPT ![t] = None] /\ users' = users
    BY <1>4 DEF Deduct, Commit
  <1>5. /\ row' = [row EXCEPT ![t] = None]
        /\ users' = users \/ \E c \in Nat : users' = [users EXCEPT ![u] = [users[u] EXCEPT !.coins = c]]
    BY <1>2, <1>3, <1>4
  <1> QED
    BY <1>1, <1>5 DEF Row

LEMMA SettleKeeps ==
  ASSUME JInv, NEW t \in BotTasks, Settle(t)
  PROVE  JInv'
  <1>1. /\ bot[t].op \in {"deduct", "refund"}
        /\ bot' = [bot EXCEPT ![t] = IF t = Handler THEN Doing("update", bot[t].user, None) ELSE Idle]
        /\ UNCHANGED <<filed, outcome, todo, mishaps>>
    BY DEF Settle
  <1>2. bot' \in [BotTasks -> [op : {"idle", "update", "push", "deduct", "refund"},
                               user : Users \cup {None}, report : Reports \cup {None}]]
    BY <1>1 DEF JInv, TypeOK, Doing, Idle
  <1>3. \/ bot'[Handler] = bot[Handler]
        \/ bot[Handler].op # "push" /\ bot'[Handler].op # "push" /\ bot'[Handler].report = None
    BY <1>1 DEF JInv, TypeOK, Doing, BotTasks
  <1>4. /\ users' \in [Users -> Row] /\ row' \in [Tasks -> Row \cup {None}]
        /\ \A v \in Users : /\ users'[v].banned = users[v].banned
                             /\ users'[v].warnings = users[v].warnings
    <2>1. t \in Tasks /\ 1 \in Nat
      BY DEF Tasks
    <2>2. CASE bot[t].user \in Users
      BY <2>1, <2>2, CoinsKeep DEF JInv, Settle
    <2>3. CASE bot[t].user \notin Users
      <3>1. users \in [Users -> Row] /\ row \in [Tasks -> Row \cup {None}]
        BY DEF JInv, TypeOK
      <3>2. ASSUME NEW changed
            PROVE  [users EXCEPT ![bot[t].user] = changed] = users
        BY <2>3, <3>1
      <3>3. users' = users /\ row' = [row EXCEPT ![t] = None]
        BY <3>2 DEF Settle, Deduct, AddCoins, Commit
      <3> QED
        BY <3>1, <3>3
    <2> QED
      BY <2>2, <2>3
  <1> QED
    BY <1>1, <1>2, <1>3, <1>4, QuietKeeps

LEMMA InviteKeeps ==
  ASSUME JInv, NEW u \in Users, Invite(u)
  PROVE  JInv'
  <1>1. users \in [Users -> Row]
    BY DEF JInv, TypeOK
  <1>2. Capped(users[u].coins + Reward) \in Nat
    BY <1>1, JudgementAssumption DEF Capped, Row
  <1>3. users' = [users EXCEPT ![u] = [users[u] EXCEPT !.coins = Capped(users[u].coins + Reward)]]
    BY <1>1 DEF Invite
  <1>4. /\ users' \in [Users -> Row]
        /\ \A v \in Users : /\ users'[v].banned = users[v].banned
                             /\ users'[v].warnings = users[v].warnings
    BY <1>1, <1>2, <1>3 DEF Row
  <1>5. UNCHANGED <<filed, outcome, todo, row, bot, mishaps>>
    BY DEF Invite
  <1>6. /\ row' \in [Tasks -> Row \cup {None}]
        /\ bot' \in [BotTasks -> [op : {"idle", "update", "push", "deduct", "refund"},
                                   user : Users \cup {None}, report : Reports \cup {None}]]
    BY <1>5 DEF JInv, TypeOK
  <1> QED
    BY <1>4, <1>5, <1>6, QuietKeeps

-----------------------------------------------------------------------------
(* The steps of the worker. *)

LEMMA PopJobKeeps ==
  ASSUME JInv, PopJob
  PROVE  JInv'
  <1>1. /\ queue \in Seq(Reports) /\ queue # <<>> /\ queue' = Tail(queue)
        /\ UNCHANGED <<users, report, judged, told, enforced, row, bot, mishaps>>
    BY DEF JInv, TypeOK, PopJob, outcome
  <1> PICK r \in Reports : r = Head(queue)
    BY <1>1, EmptySeq, LenProperties, HeadTailProperties
  <1>2. /\ Len(queue) \in Nat /\ Len(queue) > 0 /\ DOMAIN queue = 1 .. Len(queue)
        /\ queue' \in Seq(Reports) /\ DOMAIN queue' = 1 .. Len(queue) - 1
        /\ \A i \in DOMAIN queue' : i + 1 \in DOMAIN queue /\ queue'[i] = queue[i + 1]
        /\ r = queue[1]
    BY <1>1, EmptySeq, LenProperties, HeadTailProperties
  <1>3. report[r] # None /\ todo[r] = <<>> /\ judged[r] = 0
    BY <1>2 DEF JInv, QueueOK
  <1>4. PICK plan \in Plans(r) : todo' = [todo EXCEPT ![r] = plan]
    BY DEF PopJob
  <1>5. plan \in Seq(Todo) /\ PlanOK(plan, 0) /\ Answered(plan)
    BY <1>2, <1>3, PlansOK DEF JInv
  <1>6. /\ todo' \in [Reports -> Seq(Todo)] /\ todo'[r] = plan
        /\ \A s \in Reports \ {r} : todo'[s] = todo[s]
    BY <1>2, <1>4, <1>5 DEF JInv, TypeOK, Todo
  <1>7. TypeOK'
    BY <1>1, <1>2, <1>6 DEF JInv, TypeOK, Todo
  <1>8. \A i \in DOMAIN queue' : queue'[i] \in Reports \ {r}
    <2>1. ASSUME NEW i \in DOMAIN queue', queue'[i] = r
          PROVE  FALSE
      <3>1. i + 1 \in DOMAIN queue /\ 1 \in DOMAIN queue /\ queue[i + 1] = queue[1] /\ i + 1 # 1
        BY <1>2, <2>1
      <3> QED
        BY <3>1 DEF JInv, QueueOK
    <2>2. \A i \in DOMAIN queue' : queue'[i] \in Reports
      BY <1>2
    <2> QED
      BY <2>1, <2>2
  <1>9. QueueOK'
    <2>1. \A i, j \in DOMAIN queue' : queue'[i] = queue'[j] => i = j
      <3> SUFFICES ASSUME NEW i \in DOMAIN queue', NEW j \in DOMAIN queue', queue'[i] = queue'[j]
                   PROVE  i = j
        OBVIOUS
      <3>1. i + 1 = j + 1
        BY <1>2 DEF JInv, QueueOK
      <3> QED
        BY <1>2, <3>1
    <2>2. \A i \in DOMAIN queue' :
            report[queue'[i]] # None /\ todo[queue'[i]] = <<>> /\ judged[queue'[i]] = 0
      BY <1>2 DEF JInv, QueueOK
    <2> QED
      BY <1>1, <1>6, <1>8, <2>1, <2>2 DEF QueueOK
  <1>10. PushOK'
    <2>1. bot[Handler].op = "push" => bot[Handler].report # r
      BY <1>2 DEF JInv, PushOK
    <2>2. bot[Handler].op = "push" => \A i \in DOMAIN queue' : queue'[i] # bot[Handler].report
      BY <1>2 DEF JInv, PushOK
    <2> QED
      BY <1>1, <1>6, <2>1, <2>2 DEF JInv, PushOK
  <1>11. TasksOK'
    <2>1. ASSUME NEW s \in Reports
          PROVE  /\ PlanOK(todo'[s], judged[s])
                 /\ report[s] = None => todo'[s] = <<>> /\ judged[s] = 0
      <3>1. CASE s = r
        BY <1>3, <1>5, <1>6, <3>1
      <3>2. CASE s # r
        BY <1>6, <3>2 DEF JInv, TasksOK
      <3> QED
        BY <3>1, <3>2
    <2> QED
      BY <1>1, <2>1 DEF TasksOK, PlanOK
  <1>12. FifthBans' /\ JudgedOnce'
    BY <1>1 DEF JInv, FifthBans, JudgedOnce
  <1>13. \A s \in Reports, op \in Ops, u \in Users \cup {None} : Does(s, op, u) => Does(s, op, u)'
    BY <1>3, <1>6 DEF Does
  <1>14. BansEnforced'
    BY <1>1, <1>13 DEF JInv, BansEnforced, Ops
  <1>15. ReportersHear'
    <2>1. \E answer \in Answers : Does(r, answer, None)'
      BY <1>5, <1>6 DEF Answered, Does
    <2>2. ASSUME NEW s \in Reports \ {r}, \E i \in DOMAIN queue : queue[i] = s
          PROVE  \E i \in DOMAIN queue' : queue'[i] = s
      <3>1. PICK i \in DOMAIN queue : queue[i] = s
        BY <2>2
      <3>2. i # 1
        BY <1>2, <3>1
      <3>3. i - 1 \in DOMAIN queue' /\ (i - 1) + 1 = i
        BY <1>2, <3>2
      <3>4. queue'[i - 1] = s
        BY <1>2, <3>1, <3>3
      <3> QED
        BY <3>3, <3>4
    <2>3. Answers \subseteq Ops
      BY DEF Ops
    <2> QED
      BY <1>1, <1>13, <2>1, <2>2, <2>3 DEF JInv, ReportersHear
  <1> QED
    BY <1>7, <1>9, <1>10, <1>11, <1>12, <1>14, <1>15 DEF JInv

LEMMA WriteVerdictKeeps ==
  ASSUME JInv, NEW r \in Reports, WriteVerdict(r)
  PROVE  JInv'
  <1>1. /\ todo[r] # <<>> /\ Head(todo[r]).op = "write" /\ Rest(r, <<>>)
        /\ judged' = [judged EXCEPT ![r] = IF judged[r] < 2 THEN judged[r] + 1 ELSE judged[r]]
        /\ UNCHANGED <<users, report, queue, told, enforced, row, bot, mishaps>>
    BY DEF WriteVerdict, Now, filed
  <1>2. judged[r] = 0
    <2>1. todo[r] \in Seq(Todo)
      BY DEF JInv, TypeOK, Todo
    <2>2. 1 \in DOMAIN todo[r] /\ Head(todo[r]) = todo[r][1]
      BY <1>1, <2>1, EmptySeq, LenProperties, HeadTailProperties
    <2> QED
      BY <1>1, <2>2 DEF JInv, TasksOK, PlanOK
  <1>3. /\ judged' \in [Reports -> 0 .. 2] /\ judged'[r] <= 1
        /\ \A s \in Reports \ {r} : judged'[s] = judged[s]
    BY <1>1, <1>2 DEF JInv, TypeOK
  <1>4. <<>> \in Seq(Todo) /\ DOMAIN <<>> = {}
    OBVIOUS
  <1>5. /\ todo' \in [Reports -> Seq(Todo)]
        /\ QueueOK' /\ PushOK' /\ TasksOK' /\ JudgedOnce'
        /\ \A s \in Reports, op \in Ops, u \in Users \cup {None} :
             Does(s, op, u) /\ (s = r => Head(todo[r]) # Do(op, u)) => Does(s, op, u)'
    BY <1>1, <1>3, <1>4, WorkKeeps DEF filed
  <1>6. TypeOK'
    BY <1>1, <1>3, <1>5 DEF JInv, TypeOK, Todo
  <1>7. ReportersHear'
    BY <1>1, <1>5, WorkHears DEF filed, Answers
  <1>8. BansEnforced'
    BY <1>1, <1>5, WorkEnforces
  <1>9. FifthBans'
    BY <1>1 DEF JInv, FifthBans
  <1> QED
    BY <1>5, <1>6, <1>7, <1>8, <1>9 DEF JInv

\* Who a task is to warn, reward or ban is a user.
LEMMA HeadUser ==
  ASSUME JInv, NEW r \in Reports, todo[r] # <<>>,
         Head(todo[r]).op \in {"warn", "reward", "ban", "enforce"}
  PROVE  Head(todo[r]).user \in Users
  <1>1. todo[r] \in Seq(Todo)
    BY DEF JInv, TypeOK, Todo
  <1>2. 1 \in DOMAIN todo[r] /\ Head(todo[r]) = todo[r][1]
    BY <1>1, EmptySeq, LenProperties, HeadTailProperties
  <1> QED
    BY <1>2 DEF JInv, TasksOK, PlanOK

LEMMA LoadUserKeeps ==
  ASSUME JInv, NEW r \in Reports, LoadUser(r)
  PROVE  JInv'
  <1>1. Head(todo[r]).user \in Users
    BY HeadUser DEF LoadUser, Now
  <1>2. /\ row' = [row EXCEPT ![r] = users[Head(todo[r]).user]]
        /\ UNCHANGED <<users, filed, outcome, todo, bot, mishaps>>
    BY DEF LoadUser, Load
  <1>3. /\ users' \in [Users -> Row] /\ row' \in [Tasks -> Row \cup {None}]
        /\ bot' \in [BotTasks -> [op : {"idle", "update", "push", "deduct", "refund"},
                                   user : Users \cup {None}, report : Reports \cup {None}]]
    BY <1>1, <1>2 DEF JInv, TypeOK
  <1> QED
    BY <1>2, <1>3, QuietKeeps

LEMMA WarnUserKeeps ==
  ASSUME JInv, NEW r \in Reports, WarnUser(r)
  PROVE  JInv'
  <1> PICK u \in Users : u = Head(todo[r]).user
    BY HeadUser DEF WarnUser, Now
  <1> DEFINE n == row[r].warnings + 1
             more == IF AutoBanned(r) THEN <<Do("enforce", u)>> ELSE <<>>
  <1>1. /\ todo[r] # <<>> /\ Head(todo[r]).op = "warn"
        /\ row[r] # None /\ row' = [row EXCEPT ![r] = None]
        /\ users' = [users EXCEPT ![u] =
             [users[u] EXCEPT !.warnings = n, !.banned = users[u].banned \/ n >= WarningLimit]]
        /\ Rest(r, more)
        /\ UNCHANGED <<report, queue, judged, told, enforced, bot, mishaps>>
    BY DEF WarnUser, Now, Warn, Commit, filed, outcome
  <1>2. Do("enforce", u) \in Todo
    BY DEF Do, Todo, Ops
  <1>3. users \in [Users -> Row] /\ row \in [Tasks -> Row \cup {None}] /\ r \in Tasks
        /\ todo[r] \in Seq(Todo)
    BY DEF JInv, TypeOK, Tasks, Todo
  <1>4. n \in Nat
    BY <1>1, <1>3 DEF Row
  <1>5. /\ more \in Seq(Todo)
        /\ \A i \in DOMAIN more : more[i].op = "enforce" /\ more[i].user \in Users
    <2>1. CASE AutoBanned(r)
      <3>1. more = <<Do("enforce", u)>> /\ DOMAIN more = 1 .. 1 /\ more[1] = Do("enforce", u)
        BY <2>1
      <3> QED
        BY <1>2, <3>1 DEF Do
    <2>2. CASE ~AutoBanned(r)
      <3>1. more = <<>> /\ DOMAIN more = {}
        BY <2>2
      <3> QED
        BY <3>1
    <2> QED
      BY <2>1, <2>2
  <1>6. AutoBanned(r) <=> n >= WarningLimit
    BY DEF AutoBanned
  <1>7. /\ users' \in [Users -> Row] /\ row' \in [Tasks -> Row \cup {None}]
        /\ users'[u].warnings = n /\ users'[u].banned = (users[u].banned \/ n >= WarningLimit)
        /\ \A v \in Users \ {u} : users'[v] = users[v]
    BY <1>1, <1>2, <1>3, <1>4 DEF Row
  <1> HIDE DEF n, more
  <1>8. judged' \in [Reports -> 0 .. 2] /\ judged'[r] <= 1
    BY <1>1 DEF JInv, TypeOK, JudgedOnce
  <1>9. /\ todo' \in [Reports -> Seq(Todo)]
        /\ QueueOK' /\ PushOK' /\ TasksOK' /\ JudgedOnce'
        /\ \A s \in Reports, op \in Ops, v \in Users \cup {None} :
             Does(s, op, v) /\ (s = r => Head(todo[r]) # Do(op, v)) => Does(s, op, v)'
    BY <1>1, <1>5, <1>8, WorkKeeps DEF filed
  <1>10. TypeOK'
    BY <1>1, <1>7, <1>9 DEF JInv, TypeOK, Todo
  <1>11. ReportersHear'
    BY <1>1, <1>9, WorkHears DEF filed, Answers
  <1>12. BansEnforced'
    <2>1. ASSUME n >= WarningLimit
          PROVE  Does(r, "enforce", u)'
      <3>1. todo'[r] = Tail(todo[r]) \o <<Do("enforce", u)>>
        BY <1>1, <1>6, <2>1 DEF more, Rest, JInv, TypeOK
      <3> DEFINE x == Do("enforce", u)
      <3> HIDE DEF x
      <3>2. \E i \in DOMAIN (Tail(todo[r]) \o <<x>>) : (Tail(todo[r]) \o <<x>>)[i] = x
        BY <1>1, <1>2, <1>3, RestAdds DEF x
      <3> QED
        BY <3>1, <3>2 DEF Does, x
    <2>2. \A v \in Users : users'[v].banned /\ ~users[v].banned => Does(r, "enforce", v)'
      BY <1>7, <2>1
    <2> QED
      BY <1>1, <1>9, <2>2, WorkEnforces
  <1>13. FifthBans'
    BY <1>7 DEF JInv, FifthBans
  <1> QED
    BY <1>9, <1>10, <1>11, <1>12, <1>13 DEF JInv

LEMMA RewardUserKeeps ==
  ASSUME JInv, NEW r \in Reports, RewardUser(r)
  PROVE  JInv'
  <1>1. /\ todo[r] # <<>> /\ Head(todo[r]).op = "reward"
        /\ AddCoins(r, Head(todo[r]).user, Reward) /\ Rest(r, <<>>)
        /\ UNCHANGED <<report, queue, judged, told, enforced, bot, mishaps>>
    BY DEF RewardUser, Now, filed, outcome
  <1>2. Head(todo[r]).user \in Users
    BY <1>1, HeadUser
  <1>3. /\ users' \in [Users -> Row] /\ row' \in [Tasks -> Row \cup {None}]
        /\ \A v \in Users : /\ users'[v].banned = users[v].banned
                             /\ users'[v].warnings = users[v].warnings
    BY <1>1, <1>2, CoinsKeep, JudgementAssumption DEF JInv, Tasks
  <1>4. /\ judged' \in [Reports -> 0 .. 2] /\ judged'[r] <= 1
        /\ <<>> \in Seq(Todo) /\ DOMAIN <<>> = {}
    BY <1>1 DEF JInv, TypeOK, JudgedOnce
  <1>5. /\ todo' \in [Reports -> Seq(Todo)]
        /\ QueueOK' /\ PushOK' /\ TasksOK' /\ JudgedOnce'
        /\ \A s \in Reports, op \in Ops, v \in Users \cup {None} :
             Does(s, op, v) /\ (s = r => Head(todo[r]) # Do(op, v)) => Does(s, op, v)'
    BY <1>1, <1>4, WorkKeeps DEF filed
  <1>6. TypeOK'
    BY <1>1, <1>3, <1>5 DEF JInv, TypeOK, Todo
  <1>7. ReportersHear'
    BY <1>1, <1>5, WorkHears DEF filed, Answers
  <1>8. BansEnforced'
    BY <1>1, <1>3, <1>5, WorkEnforces
  <1>9. FifthBans'
    BY <1>3 DEF JInv, FifthBans
  <1> QED
    BY <1>5, <1>6, <1>7, <1>8, <1>9 DEF JInv

LEMMA BanUserKeeps ==
  ASSUME JInv, NEW r \in Reports, BanUser(r)
  PROVE  JInv'
  <1> PICK u \in Users : u = Head(todo[r]).user
    BY HeadUser DEF BanUser, Now
  <1>1. /\ todo[r] # <<>> /\ Head(todo[r]).op = "ban"
        /\ row' = [row EXCEPT ![r] = None]
        /\ users' = [users EXCEPT ![u] = [users[u] EXCEPT !.banned = TRUE]]
        /\ Rest(r, <<>>)
        /\ UNCHANGED <<report, queue, judged, told, enforced, bot, mishaps>>
    BY DEF BanUser, Now, Commit, filed, outcome
  <1>3. todo[r] \in Seq(Todo)
    BY DEF JInv, TypeOK, Todo
  <1>4. /\ users' \in [Users -> Row] /\ row' \in [Tasks -> Row \cup {None}]
        /\ users'[u].banned /\ users'[u].warnings = users[u].warnings
        /\ \A v \in Users \ {u} : users'[v] = users[v]
    BY <1>1 DEF JInv, TypeOK, Row
  <1>5. Does(r, "enforce", u) /\ Head(todo[r]) # Do("enforce", u)
    <2>1. 1 \in DOMAIN todo[r] /\ Head(todo[r]) = todo[r][1]
      BY <1>1, <1>3, EmptySeq, LenProperties, HeadTailProperties
    <2>2. \E j \in DOMAIN todo[r] : todo[r][j] = Do("enforce", todo[r][1].user)
      BY <1>1, <2>1 DEF JInv, TasksOK, PlanOK
    <2> QED
      BY <1>1, <2>1, <2>2 DEF Does, Do
  <1>6. /\ judged' \in [Reports -> 0 .. 2] /\ judged'[r] <= 1
        /\ <<>> \in Seq(Todo) /\ DOMAIN <<>> = {}
    BY <1>1 DEF JInv, TypeOK, JudgedOnce
  <1>7. /\ todo' \in [Reports -> Seq(Todo)]
        /\ QueueOK' /\ PushOK' /\ TasksOK' /\ JudgedOnce'
        /\ \A s \in Reports, op \in Ops, v \in Users \cup {None} :
             Does(s, op, v) /\ (s = r => Head(todo[r]) # Do(op, v)) => Does(s, op, v)'
    BY <1>1, <1>6, WorkKeeps DEF filed
  <1>8. TypeOK'
    BY <1>1, <1>4, <1>7 DEF JInv, TypeOK, Todo
  <1>9. ReportersHear'
    BY <1>1, <1>7, WorkHears DEF filed, Answers
  <1>10. Does(r, "enforce", u)'
    BY <1>5, <1>7 DEF Ops
  <1>11. BansEnforced'
    <2>1. \A v \in Users : users'[v].banned /\ ~users[v].banned => Does(r, "enforce", v)'
      BY <1>4, <1>10
    <2> QED
      BY <1>1, <1>7, <2>1, WorkEnforces
  <1>12. FifthBans'
    BY <1>4 DEF JInv, FifthBans
  <1> QED
    BY <1>7, <1>8, <1>9, <1>11, <1>12 DEF JInv

LEMMA TellKeeps ==
  ASSUME JInv, NEW r \in Reports, Tell(r)
  PROVE  JInv'
  <1> PICK answer \in Answers : Now(r, answer) /\ told' = [told EXCEPT ![r] = answer]
    BY DEF Tell
  <1>1. /\ todo[r] # <<>> /\ Head(todo[r]).op = answer /\ Rest(r, <<>>)
        /\ UNCHANGED <<users, report, queue, judged, enforced, row, bot, mishaps>>
    BY DEF Tell, Now, filed
  <1>2. /\ told' \in [Reports -> Answers \cup {"nothing"}]
        /\ told'[r] # "nothing" /\ \A s \in Reports \ {r} : told'[s] = told[s]
    BY DEF JInv, TypeOK, Answers
  <1>3. /\ judged' \in [Reports -> 0 .. 2] /\ judged'[r] <= 1
        /\ <<>> \in Seq(Todo) /\ DOMAIN <<>> = {}
    BY <1>1 DEF JInv, TypeOK, JudgedOnce
  <1>4. /\ todo' \in [Reports -> Seq(Todo)]
        /\ QueueOK' /\ PushOK' /\ TasksOK' /\ JudgedOnce'
        /\ \A s \in Reports, op \in Ops, v \in Users \cup {None} :
             Does(s, op, v) /\ (s = r => Head(todo[r]) # Do(op, v)) => Does(s, op, v)'
    BY <1>1, <1>3, WorkKeeps DEF filed
  <1>5. TypeOK'
    BY <1>1, <1>2, <1>4 DEF JInv, TypeOK, Todo
  <1>6. ReportersHear'
    <2>1. \A s \in Reports \ {r}, a \in Answers : Does(s, a, None) => Does(s, a, None)'
      BY <1>4 DEF Ops
    <2> QED
      BY <1>1, <1>2, <2>1 DEF JInv, ReportersHear
  <1>7. BansEnforced'
    BY <1>1, <1>4, WorkEnforces DEF Answers
  <1>8. FifthBans'
    BY <1>1 DEF JInv, FifthBans
  <1> QED
    BY <1>4, <1>5, <1>6, <1>7, <1>8 DEF JInv

LEMMA EnforceKeeps ==
  ASSUME JInv, NEW r \in Reports, Enforce(r)
  PROVE  JInv'
  <1> PICK u \in Users : u = Head(todo[r]).user
    BY HeadUser DEF Enforce, Now
  <1>1. /\ todo[r] # <<>> /\ Head(todo[r]).op = "enforce" /\ Rest(r, <<>>)
        /\ enforced' = enforced \cup {u}
        /\ UNCHANGED <<users, report, queue, judged, told, row, bot, mishaps>>
    BY DEF Enforce, Now, filed
  <1>2. /\ judged' \in [Reports -> 0 .. 2] /\ judged'[r] <= 1
        /\ <<>> \in Seq(Todo) /\ DOMAIN <<>> = {}
    BY <1>1 DEF JInv, TypeOK, JudgedOnce
  <1>3. /\ todo' \in [Reports -> Seq(Todo)]
        /\ QueueOK' /\ PushOK' /\ TasksOK' /\ JudgedOnce'
        /\ \A s \in Reports, op \in Ops, v \in Users \cup {None} :
             Does(s, op, v) /\ (s = r => Head(todo[r]) # Do(op, v)) => Does(s, op, v)'
    BY <1>1, <1>2, WorkKeeps DEF filed
  <1>4. TypeOK'
    BY <1>1, <1>3 DEF JInv, TypeOK, Todo
  <1>5. ReportersHear'
    BY <1>1, <1>3, WorkHears DEF filed, Answers
  <1>6. BansEnforced'
    <2>1. ASSUME NEW v \in Users, v # u
          PROVE  Head(todo[r]) # Do("enforce", v)
      BY <2>1 DEF Do
    <2>2. \A s \in Reports, v \in Users \ {u} : Does(s, "enforce", v) => Does(s, "enforce", v)'
      BY <1>3, <2>1 DEF Ops
    <2> QED
      BY <1>1, <2>2 DEF JInv, BansEnforced
  <1>7. FifthBans'
    BY <1>1 DEF JInv, FifthBans
  <1> QED
    BY <1>3, <1>4, <1>5, <1>6, <1>7 DEF JInv

-----------------------------------------------------------------------------
(* What may go wrong. *)

LEMMA RaiseKeeps ==
  ASSUME JInv, NEW r \in Reports, Raise(r)
  PROVE  JInv'
  <1> DEFINE left == IF told[r] = "nothing" THEN <<Do("pending", None)>> ELSE <<>>
  <1>1. /\ "raise" \in Mishaps /\ todo[r] # <<>>
        /\ todo' = [todo EXCEPT ![r] = left]
        /\ row' = [row EXCEPT ![r] = None] /\ mishaps' = mishaps \cup {"raise"}
        /\ UNCHANGED <<users, report, queue, judged, told, enforced, bot>>
    BY DEF Raise, filed, outcome
  <1>2. /\ left \in Seq(Todo)
        /\ \A w : PlanOK(left, w)
        /\ told[r] = "nothing" => \E i \in DOMAIN left : left[i] = Do("pending", None)
    <2>1. CASE told[r] = "nothing"
      <3>1. left = <<Do("pending", None)>> /\ DOMAIN left = 1 .. 1 /\ left[1] = Do("pending", None)
        BY <2>1
      <3>2. Do("pending", None) \in Todo
        BY DEF Do, Todo, Ops, Answers
      <3>3. left \in Seq(Todo)
        BY <3>1, <3>2
      <3>4. \A w : PlanOK(left, w)
        BY <3>1 DEF PlanOK, Do
      <3> QED
        BY <3>1, <3>3, <3>4
    <2>2. CASE told[r] # "nothing"
      <3>1. left = <<>> /\ DOMAIN left = {}
        BY <2>2
      <3> QED
        BY <2>2, <3>1 DEF PlanOK
    <2> QED
      BY <2>1, <2>2
  <1> HIDE DEF left
  <1>3. /\ todo' \in [Reports -> Seq(Todo)] /\ todo'[r] = left
        /\ \A s \in Reports \ {r} : todo'[s] = todo[s]
    BY <1>1, <1>2 DEF JInv, TypeOK, Todo
  <1>4. TypeOK'
    BY <1>1, <1>3 DEF JInv, TypeOK, Todo
  <1>5. report[r] # None
    BY <1>1 DEF JInv, TasksOK
  <1>6. QueueOK'
    <2>1. \A i \in DOMAIN queue : queue[i] \in Reports
      BY DEF JInv, TypeOK
    <2>2. \A i \in DOMAIN queue : queue[i] \in Reports \ {r}
      BY <1>1, <2>1 DEF JInv, QueueOK
    <2> QED
      BY <1>1, <1>3, <2>2 DEF JInv, QueueOK
  <1>7. PushOK'
    BY <1>1, <1>3 DEF JInv, PushOK
  <1>8. TasksOK'
    <2>1. ASSUME NEW s \in Reports
          PROVE  PlanOK(todo'[s], judged[s])
      BY <1>2, <1>3 DEF JInv, TasksOK
    <2> QED
      BY <1>1, <1>3, <1>5, <2>1 DEF JInv, TasksOK, PlanOK
  <1>9. FifthBans' /\ JudgedOnce'
    BY <1>1 DEF JInv, FifthBans, JudgedOnce
  <1>10. BansEnforced'
    BY <1>1 DEF BansEnforced
  <1>11. ReportersHear'
    <2>1. told[r] = "nothing" => Does(r, "pending", None)'
      BY <1>2, <1>3 DEF Does
    <2>2. \A s \in Reports \ {r}, a \in Answers : Does(s, a, None) => Does(s, a, None)'
      BY <1>3 DEF Does
    <2> QED
      BY <1>1, <2>1, <2>2 DEF JInv, ReportersHear, Answers
  <1> QED
    BY <1>4, <1>6, <1>7, <1>8, <1>9, <1>10, <1>11 DEF JInv

LEMMA KillWorkerKeeps ==
  ASSUME JInv, KillWorker
  PROVE  JInv'
  <1>1. /\ "kill" \in Mishaps /\ mishaps' = mishaps \cup {"kill"}
        /\ todo' = [r \in Reports |-> <<>>]
        /\ row' = [t \in Tasks |-> IF t \in Reports THEN None ELSE row[t]]
        /\ UNCHANGED <<users, report, queue, judged, told, enforced, bot>>
    BY DEF KillWorker, filed, outcome
  <1>2. TypeOK'
    BY <1>1 DEF JInv, TypeOK
  <1>3. QueueOK'
    <2>1. \A i \in DOMAIN queue : queue[i] \in Reports
      BY DEF JInv, TypeOK
    <2> QED
      BY <1>1, <2>1 DEF JInv, QueueOK
  <1>4. PushOK' /\ TasksOK'
    BY <1>1 DEF JInv, PushOK, TasksOK, PlanOK
  <1>5. FifthBans' /\ JudgedOnce' /\ BansEnforced' /\ ReportersHear'
    BY <1>1 DEF JInv, FifthBans, JudgedOnce, BansEnforced, ReportersHear
  <1> QED
    BY <1>2, <1>3, <1>4, <1>5 DEF JInv

LEMMA KillBotKeeps ==
  ASSUME JInv, KillBot
  PROVE  JInv'
  <1>1. /\ "kill" \in Mishaps /\ mishaps' = mishaps \cup {"kill"}
        /\ bot' = [t \in BotTasks |-> Idle]
        /\ row' = [t \in Tasks |-> IF t \in BotTasks THEN None ELSE row[t]]
        /\ UNCHANGED <<users, report, queue, judged, told, enforced, todo>>
    BY DEF KillBot, filed, outcome
  <1>2. TypeOK'
    BY <1>1 DEF JInv, TypeOK, Idle, Doing
  <1>3. QueueOK' /\ TasksOK'
    BY <1>1 DEF JInv, QueueOK, TasksOK, PlanOK
  <1>4. PushOK'
    <2>1. bot'[Handler].op = "idle" /\ bot'[Handler].report = None
      BY <1>1 DEF Idle, Doing, BotTasks
    <2> QED
      BY <2>1 DEF PushOK
  <1>5. FifthBans' /\ JudgedOnce' /\ BansEnforced' /\ ReportersHear'
    BY <1>1 DEF JInv, FifthBans, JudgedOnce, BansEnforced, ReportersHear
  <1> QED
    BY <1>2, <1>3, <1>4, <1>5 DEF JInv

-----------------------------------------------------------------------------
(* The theorems. *)

LEMMA InitEstablishes == Init => JInv
  <1> SUFFICES ASSUME Init
               PROVE  JInv
    OBVIOUS
  <1> USE DEF Init
  <1>1. TypeOK
    BY JudgementAssumption DEF TypeOK, Row, Idle, Doing
  <1>2. QueueOK /\ TasksOK
    BY DEF QueueOK, TasksOK, PlanOK
  <1>3. PushOK
    BY DEF PushOK, Idle, Doing, BotTasks
  <1>4. FifthBans /\ JudgedOnce /\ BansEnforced /\ ReportersHear
    BY JudgementAssumption DEF FifthBans, JudgedOnce, BansEnforced, ReportersHear
  <1> QED
    BY <1>1, <1>2, <1>3, <1>4 DEF JInv

LEMMA StutterKeeps ==
  ASSUME JInv, UNCHANGED vars
  PROVE  JInv'
  <1>1. UNCHANGED <<users, report, judged, queue, todo, row, told, enforced, bot, mishaps>>
    BY DEF vars, filed, outcome
  <1>2. TypeOK' /\ QueueOK' /\ PushOK'
    BY <1>1 DEF JInv, TypeOK, QueueOK, PushOK
  <1>3. TasksOK' /\ FifthBans' /\ JudgedOnce'
    BY <1>1 DEF JInv, TasksOK, PlanOK, FifthBans, JudgedOnce
  <1>4. BansEnforced' /\ ReportersHear'
    BY <1>1 DEF JInv, BansEnforced, ReportersHear, Does
  <1> QED
    BY <1>2, <1>3, <1>4 DEF JInv

LEMMA NextKeeps ==
  ASSUME JInv, [Next]_vars
  PROVE  JInv'
  <1>1. ASSUME NEW u \in Users, Update(u)
        PROVE  JInv'
    BY <1>1, UpdateKeeps
  <1>2. ASSUME NEW r \in Reports, NEW u \in Users, NEW v \in Users,
               FileChat(r, u, v) \/ FileProfile(r, u, v)
        PROVE  JInv'
    BY <1>2, FiledKeeps DEF FileChat, FileProfile, Kinds
  <1>3. ASSUME NEW t \in BotTasks, NEW op \in Payments, NEW u \in Users, Spend(t, op, u)
        PROVE  JInv'
    BY <1>3, SpendKeeps
  <1>4. ASSUME NEW u \in Users, Invite(u)
        PROVE  JInv'
    BY <1>4, InviteKeeps
  <1>5. ASSUME NEW t \in BotTasks, Handle(t)
        PROVE  JInv'
    BY <1>5, PushKeeps, SettleKeeps DEF Handle
  <1>6. ASSUME NEW r \in Reports, Work(r)
        PROVE  JInv'
    BY <1>6, WriteVerdictKeeps, LoadUserKeeps, WarnUserKeeps, RewardUserKeeps, BanUserKeeps,
       TellKeeps, EnforceKeeps DEF Work
  <1>7. ASSUME NEW r \in Reports, Raise(r)
        PROVE  JInv'
    BY <1>7, RaiseKeeps
  <1> QED
    BY <1>1, <1>2, <1>3, <1>4, <1>5, <1>6, <1>7, PopJobKeeps, KillWorkerKeeps, KillBotKeeps,
       StutterKeeps DEF Next, Worker

\* The strengthened invariant holds of every instance.
THEOREM JudgementCorrect == Spec => []JInv
  <1>1. JInv /\ [Next]_vars => JInv'
    BY NextKeeps
  <1> QED
    BY InitEstablishes, <1>1, PTL DEF Spec

\* Rows, lists and jobs keep their types.
THEOREM VerdictTypesAlwaysOK == Spec => []TypeOK
  <1>1. JInv => TypeOK
    BY DEF JInv
  <1> QED
    BY JudgementCorrect, <1>1, PTL

\* Whatever verdicts overlap, whoever has the last warning is banned.
THEOREM LastWarningAlwaysBans == Spec => []FifthBans
  <1>1. JInv => FifthBans
    BY DEF JInv
  <1> QED
    BY JudgementCorrect, <1>1, PTL

\* No report gets a second verdict.
THEOREM ReportsJudgedOnce == Spec => []JudgedOnce
  <1>1. JInv => JudgedOnce
    BY DEF JInv
  <1> QED
    BY JudgementCorrect, <1>1, PTL

\* Without a mishap, every ban has been or will be enforced by a task.
THEOREM BansAlwaysEnforced == Spec => []BansEnforced
  <1>1. JInv => BansEnforced
    BY DEF JInv
  <1> QED
    BY JudgementCorrect, <1>1, PTL

\* While no process is killed, every reporter has or will get an answer.
THEOREM ReportersAlwaysHear == Spec => []ReportersHear
  <1>1. JInv => ReportersHear
    BY DEF JInv
  <1> QED
    BY JudgementCorrect, <1>1, PTL

\* What a commit does to the ban of a row, whatever was loaded before it.
LEMMA StepKeepsBans ==
  ASSUME JInv, Next, NEW v \in Users, users[v].banned
  PROVE  users'[v].banned
  <1>1. users \in [Users -> Row]
    BY DEF JInv, TypeOK
  <1>2. CASE UNCHANGED users
    BY <1>2
  <1>3. ASSUME NEW u \in Users, Invite(u)
        PROVE  users'[v].banned
    BY <1>1, <1>3 DEF Invite, Row
  <1>4. ASSUME NEW t \in BotTasks, Settle(t)
        PROVE  users'[v].banned
    <2>1. \/ users' = users
          \/ \E c : users' = [users EXCEPT ![bot[t].user] = [users[bot[t].user] EXCEPT !.coins = c]]
      BY <1>4 DEF Settle, Deduct, AddCoins, Commit
    <2> QED
      BY <1>1, <2>1 DEF Row
  <1>5. ASSUME NEW r \in Reports, WarnUser(r)
        PROVE  users'[v].banned
    <2>1. PICK u \in Users : u = Head(todo[r]).user
      BY <1>5, HeadUser DEF WarnUser, Now
    <2>2. users' = [users EXCEPT ![u] = [users[u] EXCEPT
            !.warnings = row[r].warnings + 1,
            !.banned = users[u].banned \/ row[r].warnings + 1 >= WarningLimit]]
      BY <1>5, <2>1 DEF WarnUser, Warn, Commit
    <2> QED
      BY <1>1, <2>2 DEF Row
  <1>6. ASSUME NEW r \in Reports, RewardUser(r)
        PROVE  users'[v].banned
    <2>1. \E c : users' = [users EXCEPT ![Head(todo[r]).user] =
                             [users[Head(todo[r]).user] EXCEPT !.coins = c]]
      BY <1>6 DEF RewardUser, AddCoins, Commit
    <2> QED
      BY <1>1, <2>1 DEF Row
  <1>7. ASSUME NEW r \in Reports, BanUser(r)
        PROVE  users'[v].banned
    <2>1. users' = [users EXCEPT ![Head(todo[r]).user] =
                     [users[Head(todo[r]).user] EXCEPT !.banned = TRUE]]
      BY <1>7 DEF BanUser, Commit
    <2> QED
      BY <1>1, <2>1 DEF Row
  <1>8. ASSUME NEW u \in Users, Update(u)
        PROVE  UNCHANGED users
    BY <1>8 DEF Update
  <1>9. ASSUME NEW r \in Reports, NEW u \in Users, NEW w \in Users,
               FileChat(r, u, w) \/ FileProfile(r, u, w)
        PROVE  UNCHANGED users
    BY <1>9 DEF FileChat, FileProfile, Filed
  <1>10. ASSUME NEW t \in BotTasks, NEW op \in Payments, NEW u \in Users, Spend(t, op, u)
         PROVE  UNCHANGED users
    BY <1>10 DEF Spend
  <1>11. ASSUME NEW r \in Reports,
                WriteVerdict(r) \/ LoadUser(r) \/ Tell(r) \/ Enforce(r) \/ Raise(r)
         PROVE  UNCHANGED users
    BY <1>11 DEF WriteVerdict, LoadUser, Tell, Enforce, Raise
  <1>12. Push \/ PopJob \/ KillWorker \/ KillBot => UNCHANGED users
    BY DEF Push, PopJob, KillWorker, KillBot
  <1> QED
    BY <1>2, <1>3, <1>4, <1>5, <1>6, <1>7, <1>8, <1>9, <1>10, <1>11, <1>12
       DEF Next, Handle, Worker, Work

\* A ban stays, whichever transaction was open when it was committed.
THEOREM BansAreForGood == Spec => BannedForGood
  <1>1. JInv /\ [Next]_vars => [\A u \in Users : users[u].banned => users'[u].banned]_vars
    BY StepKeepsBans
  <1> QED
    BY JudgementCorrect, <1>1, PTL DEF Spec, BannedForGood
=============================================================================

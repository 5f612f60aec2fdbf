----------------------------- MODULE Judgement -----------------------------
(***************************************************************************)
(* Reports, verdicts and the columns of the users row that they change:    *)
(* handlers/report.py files a report and pushes a job, worker.py takes the *)
(* jobs from the redis list and runs each as a task of its own, judge.py   *)
(* and profile_judge.py ask a language model and then warn, ban and reward *)
(* (db/queries.py), and enforce_ban puts the banned out of chat and room.  *)
(*                                                                         *)
(* Every transaction on a users row loads the row, changes the object and  *)
(* commits; the UPDATE of SQLAlchemy names the changed columns only, with  *)
(* the values computed from what was loaded, and only                      *)
(* grant_referral_bonus locks the row.  A transaction is two steps here,   *)
(* the load and the commit, between which other tasks may commit.          *)
(*                                                                         *)
(* A call may raise (a database that does not answer), a model may fail,   *)
(* and the worker or the bot may be killed at any moment.                  *)
(***************************************************************************)
EXTENDS Naturals, Sequences, FiniteSets

CONSTANTS Users, None,
          Reports,       \* bound: the reports filed
          WarningLimit,  \* the warnings that ban
          Reward,        \* REPORT_REWARD_COINS, and what an invitation pays
          InitialCoins,
          CoinBound,     \* bound: coins beyond it are not counted
          Handler,       \* the bot's dispatcher of updates
          Jobs,          \* jobs of the bot that pay back
          Payments,      \* what the bot does to coins, of "deduct" and "refund"
          Mishaps        \* what may happen, of "raise" and "kill"

Kinds == {"chat", "profile"}
ReportRow == [kind : Kinds, by : Users, of : Users]

ASSUME JudgementAssumption ==
  /\ None \notin Users \cup Reports \cup ReportRow
  /\ WarningLimit \in Nat \ {0} /\ Reward \in Nat
  /\ InitialCoins \in Nat /\ CoinBound \in Nat /\ InitialCoins <= CoinBound
  /\ Payments \subseteq {"deduct", "refund"}
  /\ Mishaps \subseteq {"raise", "kill"}

VARIABLES users,     \* user -> the columns [coins, warnings, banned]
          report,    \* report -> its row [kind, by, of], or None
          judged,    \* history: report -> verdicts written to its row
          queue,     \* the redis list of the jobs, the next one first
          todo,      \* report -> what its task has still to do
          row,       \* task -> the row it has loaded, or None
          told,      \* report -> what its reporter was told
          enforced,  \* the users enforce_ban was called for
          bot,       \* the bot's handler and job: what they are doing
          mishaps    \* history: whether a call has raised, or a process been killed

filed == <<report, queue>>
outcome == <<judged, told, enforced>>
vars == <<users, filed, outcome, todo, row, bot, mishaps>>

BotTasks == {Handler} \cup Jobs
Tasks == Reports \cup BotTasks
Answers == {"pending", "verdict"}
Row == [coins : Nat, warnings : Nat, banned : BOOLEAN]

Doing(op, u, r) == [op |-> op, user |-> u, report |-> r]
Idle == Doing("idle", None, None)

Init ==
  /\ users = [u \in Users |-> [coins |-> InitialCoins, warnings |-> 0, banned |-> FALSE]]
  /\ report = [r \in Reports |-> None]
  /\ judged = [r \in Reports |-> 0]
  /\ queue = <<>>
  /\ todo = [r \in Reports |-> <<>>] /\ row = [t \in Tasks |-> None]
  /\ told = [r \in Reports |-> "nothing"] /\ enforced = {}
  /\ bot = [t \in BotTasks |-> Idle]
  /\ mishaps = {}

-----------------------------------------------------------------------------
(* A transaction on a users row. *)

\* session.get: the object of this task.
Load(t, u) ==
  /\ row[t] = None
  /\ row' = [row EXCEPT ![t] = users[u]]

Commit(t, u, changed) ==
  /\ row[t] # None
  /\ users' = [users EXCEPT ![u] = changed]
  /\ row' = [row EXCEPT ![t] = None]

Capped(n) == IF n < CoinBound THEN n ELSE CoinBound

AddCoins(t, u, n) == Commit(t, u, [users[u] EXCEPT !.coins = Capped(row[t].coins + n)])

\* Mutant: the UPDATE writes every column.
WarnRow(t, u) ==
  LET n == row[t].warnings + 1
  IN  Commit(t, u, [row[t] EXCEPT !.warnings = n, !.banned = @ \/ n >= WarningLimit])

\* Mutant: one warning too late.
WarnLate(t, u) ==
  LET n == row[t].warnings + 1
  IN  Commit(t, u, [users[u] EXCEPT !.warnings = n, !.banned = @ \/ n > WarningLimit])

\* add_warning
Warn(t, u) ==
  LET n == row[t].warnings + 1
  IN  Commit(t, u, [users[u] EXCEPT !.warnings = n, !.banned = @ \/ n >= WarningLimit])

AutoBanned(t) == row[t].warnings + 1 >= WarningLimit

\* Mutant: a deduction does not look at the balance.
DeductAny(t, u, cost) == Commit(t, u, [users[u] EXCEPT !.coins = row[t].coins - cost])

\* deduct_coins
Deduct(t, u, cost) ==
  IF row[t].coins < cost
  THEN row' = [row EXCEPT ![t] = None] /\ UNCHANGED users
  ELSE Commit(t, u, [users[u] EXCEPT !.coins = row[t].coins - cost])

-----------------------------------------------------------------------------
(* The bot: one update at a time, and a job. *)

\* reject_banned_users, at the start of an update; the one before has ended.
Update(u) ==
  /\ bot[Handler].op \in {"idle", "update"}
  /\ ~users[u].banned
  /\ bot' = [bot EXCEPT ![Handler] = Doing("update", u, None)]
  /\ UNCHANGED <<users, filed, outcome, todo, row, mishaps>>

Updating(u) == bot[Handler] = Doing("update", u, None)

\* A report: the row is committed, then the job pushed.  Nothing keeps a user
\* from reporting the same chat, message or profile once more.
Filed(r, kind, u, v) ==
  /\ Updating(u) /\ report[r] = None
  /\ report' = [report EXCEPT ![r] = [kind |-> kind, by |-> u, of |-> v]]
  /\ bot' = [bot EXCEPT ![Handler] = Doing("push", u, r)]
  /\ UNCHANGED <<users, queue, outcome, todo, row, mishaps>>

\* report_reason_callback, and message_report_reason_callback for a message.
FileChat(r, u, v) == u # v /\ Filed(r, "chat", u, v)

\* handle_profile_report
FileProfile(r, u, v) == u # v /\ Filed(r, "profile", u, v)

\* push_ai_job: LPUSH at the end of the list that BRPOP does not read.
Push ==
  /\ bot[Handler].op = "push"
  /\ queue' = Append(queue, bot[Handler].report)
  /\ bot' = [bot EXCEPT ![Handler] = Doing("update", @.user, None)]
  /\ UNCHANGED <<users, report, outcome, todo, row, mishaps>>

\* The handlers take coins of the user whose update it is, and pay back to
\* any user; the jobs pay back.
Spend(t, op, u) ==
  /\ \/ t = Handler /\ Updating(u)
     \/ t = Handler /\ op = "refund" /\ \E v \in Users : Updating(v)
     \/ t \in Jobs /\ op = "refund" /\ bot[t] = Idle
  /\ bot' = [bot EXCEPT ![t] = Doing(op, u, None)]
  /\ Load(t, u)
  /\ UNCHANGED <<users, filed, outcome, todo, mishaps>>

Settle(t) ==
  /\ \/ bot[t].op = "deduct" /\ Deduct(t, bot[t].user, 1)
     \/ bot[t].op = "refund" /\ AddCoins(t, bot[t].user, 1)
  /\ bot' = [bot EXCEPT ![t] = IF t = Handler THEN Doing("update", @.user, None) ELSE Idle]
  /\ UNCHANGED <<filed, outcome, todo, mishaps>>

\* grant_referral_bonus: its lock keeps other commits out between its SELECT
\* and its COMMIT.
Invite(u) ==
  /\ \E v \in Users : Updating(v)
  /\ users' = [users EXCEPT ![u].coins = Capped(@ + Reward)]
  /\ UNCHANGED <<filed, outcome, todo, row, bot, mishaps>>

-----------------------------------------------------------------------------
(* The worker: a task for every job. *)

Do(op, u) == [op |-> op, user |-> u]

Verdict == <<Do("verdict", None)>>

\* The model fails, or its answer is not one: the report stays as it is.
Pending == <<Do("pending", None)>>

Dismissed(r) == <<Do("write", None), Do("warn", report[r].by)>>

\* judge_report: what follows from there being no session or no text, and from
\* the answer of the model.
ChatPlans(r) ==
  LET guilty == <<Do("write", None), Do("warn", report[r].of), Do("reward", report[r].by)>>
      reporter_also_guilty == {<<>>, <<Do("warn", report[r].by)>>}
      no_history == <<Do("write", None)>> \o Verdict
  IN  {no_history, Pending} \cup
      {verdict \o also \o Verdict : verdict \in {guilty, Dismissed(r)}, also \in reporter_also_guilty}

\* judge_profile_report: guilty bans at once.
ProfilePlans(r) ==
  LET of == report[r].of
      guilty == <<Do("write", None), Do("ban", of), Do("reward", report[r].by)>>
  IN  {Pending, guilty \o Verdict \o <<Do("enforce", of)>>, Dismissed(r) \o Verdict}

Plans(r) == IF report[r].kind = "chat" THEN ChatPlans(r) ELSE ProfilePlans(r)

\* Mutant: the job stays in the list.
PeekJob ==
  /\ queue # <<>> /\ todo[Head(queue)] = <<>>
  /\ \E plan \in Plans(Head(queue)) : todo' = [todo EXCEPT ![Head(queue)] = plan]
  /\ UNCHANGED <<users, filed, outcome, row, bot, mishaps>>

\* pop_ai_job: BRPOP, and the task.
PopJob ==
  /\ queue # <<>>
  /\ queue' = Tail(queue)
  /\ \E plan \in Plans(Head(queue)) : todo' = [todo EXCEPT ![Head(queue)] = plan]
  /\ UNCHANGED <<users, report, outcome, row, bot, mishaps>>

Now(r, op) == todo[r] # <<>> /\ Head(todo[r]).op = op
Rest(r, more) == todo' = [todo EXCEPT ![r] = Tail(@) \o more]

\* update_report_verdict: the reports row is this task's own.
WriteVerdict(r) ==
  /\ Now(r, "write")
  /\ judged' = [judged EXCEPT ![r] = IF @ < 2 THEN @ + 1 ELSE @]
  /\ Rest(r, <<>>)
  /\ UNCHANGED <<users, filed, told, enforced, row, bot, mishaps>>

LoadUser(r) ==
  /\ \E op \in {"warn", "reward", "ban"} : Now(r, op)
  /\ Load(r, Head(todo[r]).user)
  /\ UNCHANGED <<users, filed, outcome, todo, bot, mishaps>>

\* Mutant: only the ban of the reported is enforced.
WarnForgetful(r) ==
  /\ Now(r, "warn")
  /\ LET u == Head(todo[r]).user
     IN  /\ Warn(r, u)
         /\ Rest(r, IF AutoBanned(r) /\ u = report[r].of THEN <<Do("enforce", u)>> ELSE <<>>)
  /\ UNCHANGED <<filed, outcome, bot, mishaps>>

\* Whoever is banned automatically is put out when all the rest is done.
WarnUser(r) ==
  /\ Now(r, "warn")
  /\ LET u == Head(todo[r]).user
     IN  /\ Warn(r, u)
         /\ Rest(r, IF AutoBanned(r) THEN <<Do("enforce", u)>> ELSE <<>>)
  /\ UNCHANGED <<filed, outcome, bot, mishaps>>

RewardUser(r) ==
  /\ Now(r, "reward")
  /\ AddCoins(r, Head(todo[r]).user, Reward)
  /\ Rest(r, <<>>)
  /\ UNCHANGED <<filed, outcome, bot, mishaps>>

BanUser(r) ==
  /\ Now(r, "ban")
  /\ Commit(r, Head(todo[r]).user, [users[Head(todo[r]).user] EXCEPT !.banned = TRUE])
  /\ Rest(r, <<>>)
  /\ UNCHANGED <<filed, outcome, bot, mishaps>>

\* notify_chat_verdict and notify_profile_verdict.
Tell(r) ==
  /\ \E answer \in Answers : Now(r, answer) /\ told' = [told EXCEPT ![r] = answer]
  /\ Rest(r, <<>>)
  /\ UNCHANGED <<users, filed, judged, enforced, row, bot, mishaps>>

\* enforce_ban, whose effects are in ChatRooms, OneToOne and SessionHistory.
Enforce(r) ==
  /\ Now(r, "enforce")
  /\ enforced' = enforced \cup {Head(todo[r]).user}
  /\ Rest(r, <<>>)
  /\ UNCHANGED <<users, filed, judged, told, row, bot, mishaps>>

-----------------------------------------------------------------------------
(* What may go wrong. *)

\* Mutant: nobody hears of an exception.
RaiseSilently(r) ==
  /\ "raise" \in Mishaps /\ todo[r] # <<>> /\ ~\E answer \in Answers : Now(r, answer)
  /\ todo' = [todo EXCEPT ![r] = <<>>]
  /\ row' = [row EXCEPT ![r] = None]
  /\ mishaps' = mishaps \cup {"raise"}
  /\ UNCHANGED <<users, filed, outcome, bot>>

\* An exception in the judge: the transaction is rolled back, the rest of the
\* verdict is dropped, the enforcement of its bans too, and the reporter hears
\* that it is pending.  One in enforce_ban ends the task.  The messages catch
\* the errors of telegram themselves.
Raise(r) ==
  /\ "raise" \in Mishaps /\ todo[r] # <<>> /\ ~\E answer \in Answers : Now(r, answer)
  /\ todo' = [todo EXCEPT ![r] =
       IF told[r] = "nothing" THEN <<Do("pending", None)>> ELSE <<>>]
  /\ row' = [row EXCEPT ![r] = None]
  /\ mishaps' = mishaps \cup {"raise"}
  /\ UNCHANGED <<users, filed, outcome, bot>>

\* The worker is killed: its tasks are gone, and their jobs with them.
KillWorker ==
  /\ "kill" \in Mishaps
  /\ todo' = [r \in Reports |-> <<>>]
  /\ row' = [t \in Tasks |-> IF t \in Reports THEN None ELSE row[t]]
  /\ mishaps' = mishaps \cup {"kill"}
  /\ UNCHANGED <<users, filed, outcome, bot>>

\* The bot is killed, perhaps between the report and its job; a call that
\* raises leaves the handler's work undone in the same way.
KillBot ==
  /\ "kill" \in Mishaps
  /\ bot' = [t \in BotTasks |-> Idle]
  /\ row' = [t \in Tasks |-> IF t \in BotTasks THEN None ELSE row[t]]
  /\ mishaps' = mishaps \cup {"kill"}
  /\ UNCHANGED <<users, filed, outcome, todo>>

-----------------------------------------------------------------------------

Handle(t) == (t = Handler /\ Push) \/ Settle(t)

Work(r) ==
  \/ WriteVerdict(r) \/ LoadUser(r) \/ WarnUser(r) \/ RewardUser(r) \/ BanUser(r)
  \/ Tell(r) \/ Enforce(r)

Worker == PopJob \/ \E r \in Reports : Work(r)

Next ==
  \/ \E u \in Users : Update(u)
  \/ \E r \in Reports, u, v \in Users : FileChat(r, u, v) \/ FileProfile(r, u, v)
  \/ \E t \in BotTasks, op \in Payments, u \in Users : Spend(t, op, u)
  \/ \E u \in Users : Invite(u)
  \/ \E t \in BotTasks : Handle(t)
  \/ Worker
  \/ \E r \in Reports : Raise(r)
  \/ KillWorker \/ KillBot

Spec == Init /\ [][Next]_vars

-----------------------------------------------------------------------------
(* Properties *)

Ops == {"write", "warn", "reward", "ban", "enforce"} \cup Answers

TypeOK ==
  /\ users \in [Users -> Row]
  /\ report \in [Reports -> ReportRow \cup {None}]
  /\ judged \in [Reports -> 0 .. 2]
  /\ queue \in Seq(Reports)
  /\ todo \in [Reports -> Seq([op : Ops, user : Users \cup {None}])]
  /\ row \in [Tasks -> Row \cup {None}]
  /\ told \in [Reports -> Answers \cup {"nothing"}]
  /\ enforced \subseteq Users
  /\ bot \in [BotTasks -> [op : {"idle", "update", "push", "deduct", "refund"},
                           user : Users \cup {None}, report : Reports \cup {None}]]
  /\ mishaps \subseteq Mishaps

\* The fifth warning bans, although verdicts that overlap overwrite each
\* other's count: nobody is left with WarningLimit warnings and no ban.
FifthBans == \A u \in Users : users[u].warnings >= WarningLimit => users[u].banned

\* No transaction that has loaded a row before a ban lifts the ban when it
\* commits after it: refunds, rewards, warnings and invitations included.
BannedForGood == [][\A u \in Users : users[u].banned => users'[u].banned]_vars

\* A report gets one verdict at most, however often the worker is killed: jobs
\* are lost, never repeated, so nobody is warned or rewarded twice for one.
JudgedOnce == \A r \in Reports : judged[r] <= 1

Does(r, op, u) == \E i \in DOMAIN todo[r] : todo[r][i] = Do(op, u)

\* Unless something raises or is killed, whoever is banned is also put out of
\* chat and room, by whichever of several overlapping verdicts it was: a task
\* that has not yet done so still has it to do.
BansEnforced ==
  \A u \in Users :
    users[u].banned /\ mishaps = {} => u \in enforced \/ \E r \in Reports : Does(r, "enforce", u)

\* Unless a process is killed, no report is forgotten, also when its judge
\* raises: its job is being pushed, in the list, or a task that will answer
\* the reporter, or the reporter has the answer.
ReportersHear ==
  \A r \in Reports :
    report[r] # None /\ "kill" \notin mishaps =>
      \/ bot[Handler].report = r
      \/ \E i \in DOMAIN queue : queue[i] = r
      \/ \E answer \in Answers : Does(r, answer, None)
      \/ told[r] # "nothing"
=============================================================================

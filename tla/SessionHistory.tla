--------------------------- MODULE SessionHistory ---------------------------
(***************************************************************************)
(* What is kept of a 1:1 chat, and how it is erased: the relay of messages *)
(* (handlers/chat/relay.py), the offer made at the end of a chat, its      *)
(* confirmation by both sides and the automatic purge (extras.py), and the *)
(* daily purge (main.py), for the chats of two users, one after another.   *)
(* A step is one redis command or one Postgres transaction; commands in a  *)
(* row are one step where what comes between them makes no difference.     *)
(*                                                                         *)
(* The bot handles one update at a time; the purge jobs run between its    *)
(* awaits, and the worker may ban one of the two and close their chat at   *)
(* any moment.  A crash of the bot loses the handler and the jobs.         *)
(*                                                                         *)
(* The messages of a chat are told apart by the user who sees them and by  *)
(* the key of the redis list they are in.                                  *)
(***************************************************************************)
EXTENDS Naturals, FiniteSets

CONSTANTS A, B,
          MaxSession, \* bound: the chats A and B may have
          Bans,       \* whether the worker may ban one of the two
          Crashes     \* whether the bot may crash, any number of times

ASSUME SessionHistoryAssumption ==
  A # B /\ MaxSession \in Nat /\ Bans \in BOOLEAN /\ Crashes \in BOOLEAN

Users == {A, B}
Sessions == 1 .. MaxSession
NoSession == 0  \* None, where a session id is expected
Keys == Sessions \cup {NoSession}

VARIABLES paired,    \* the partner keys of A and B
          session,   \* their session_id keys
          last,      \* the id of the last session that has begun
          stored,    \* the sessions with rows in chat_messages
          erased,    \* the sessions with history_deleted
          lists,     \* key -> users with a chat_history list
          visible,   \* session -> users whose telegram still shows what was relayed
          windows,   \* the keys with a pending_delete:...:active key
          agreed,    \* key -> the pending_delete set
          buttons,   \* the keys of the offers sent
          pressed,   \* history: session -> the users who pressed "delete"
          jobs,      \* <<key, next step>> of the scheduled purges
          closing,   \* the worker's next step
          pc, call   \* the handler's next step, and what it has read

chat == <<paired, session, last>>
text == <<stored, erased, lists, visible>>
offers == <<windows, agreed, buttons, pressed>>
vars == <<chat, text, offers, jobs, closing, pc, call>>

NoCall == [user |-> A, key |-> NoSession, found |-> {}]
Other(u) == CHOOSE v \in Users : v # u

Init ==
  /\ paired = FALSE /\ session = NoSession /\ last = 0
  /\ stored = {} /\ erased = {}
  /\ lists = [k \in Keys |-> {}] /\ visible = [k \in Sessions |-> {}]
  /\ windows = {} /\ buttons = {}
  /\ agreed = [k \in Keys |-> {}] /\ pressed = [k \in Sessions |-> {}]
  /\ jobs = {} /\ closing = "no"
  /\ pc = "idle" /\ call = NoCall

Goto(label) == pc' = label
Done == pc' = "idle" /\ call' = NoCall

-----------------------------------------------------------------------------
(* What the handler and the purge job have in common. *)

\* pop_history.
Pop(k, whose) == lists' = [lists EXCEPT ![k] = @ \ whose]

\* clear_pending_delete.
ClearWindow(k) ==
  /\ windows' = windows \ {k}
  /\ agreed' = [agreed EXCEPT ![k] = {}]

\* Mutant: the rows stay.
MarkOnly(k) ==
  /\ erased' = IF k = NoSession THEN erased ELSE erased \cup {k}
  /\ UNCHANGED stored

\* Mutant: whether there is a session is not asked.
MarkAny(k) == stored' = stored \ {k} /\ erased' = erased \cup {k}

\* mark_session_history_deleted, when there is a session.
Mark(k) ==
  IF k = NoSession
  THEN UNCHANGED <<stored, erased>>
  ELSE stored' = stored \ {k} /\ erased' = erased \cup {k}

-----------------------------------------------------------------------------
(* A chat begins.  A crash may come before set_session_id. *)

Begin ==
  /\ pc = "idle" /\ ~paired /\ closing = "no"
  /\ last < MaxSession
  /\ last' = last + 1 /\ paired' = TRUE
  /\ call' = [NoCall EXCEPT !.key = last + 1] /\ Goto("begun")
  /\ UNCHANGED <<session, text, offers, jobs>>

SetSessionId ==
  /\ pc = "begun"
  /\ session' = call.key
  /\ Done
  /\ UNCHANGED <<paired, last, text, offers, jobs>>

-----------------------------------------------------------------------------
(* relay_message: the message is sent, then recorded for both sides under *)
(* the session id read after that, then stored, if there is a session.    *)

Relay ==
  /\ pc = "idle" /\ paired
  /\ Goto("sent")
  /\ UNCHANGED <<chat, text, offers, jobs, call>>

RelaySession ==
  /\ pc = "sent"
  /\ call' = [call EXCEPT !.key = session]
  /\ visible' = [k \in Sessions |-> IF k = session THEN Users ELSE visible[k]]
  /\ Goto("record")
  /\ UNCHANGED <<chat, stored, erased, lists, offers, jobs>>

RelayRecord ==
  /\ pc = "record"
  /\ lists' = [lists EXCEPT ![call.key] = Users]
  /\ IF call.key = NoSession THEN Done ELSE Goto("store") /\ UNCHANGED call
  /\ UNCHANGED <<chat, stored, erased, visible, offers, jobs>>

RelayStore ==
  /\ pc = "store"
  /\ stored' = stored \cup {call.key}
  /\ Done
  /\ UNCHANGED <<chat, erased, lists, visible, offers, jobs>>

-----------------------------------------------------------------------------
(* stop_chat and next_chat: clear_partner, _end_session_record and         *)
(* offer_history_deletion.                                                 *)

StopPair ==
  /\ \/ pc = "idle" /\ paired /\ Goto("unpair") /\ UNCHANGED paired
     \/ pc = "unpair" /\ paired' = FALSE /\ Goto("end")
  /\ UNCHANGED <<session, last, text, offers, jobs, call>>

\* An offer is made if there is anything to erase.
EndSession ==
  /\ pc = "end"
  /\ session' = NoSession
  /\ IF lists[session] = {}
     THEN Done
     ELSE call' = [call EXCEPT !.key = session] /\ Goto("open")
  /\ UNCHANGED <<paired, last, text, offers, jobs>>

\* start_pending_delete, then the keyboards and the job.
Offer ==
  /\ \/ /\ pc = "open"
        /\ agreed' = [agreed EXCEPT ![call.key] = {}]
        /\ windows' = windows \cup {call.key}
        /\ Goto("send")
        /\ UNCHANGED <<buttons, jobs, call>>
     \/ /\ pc = "send"
        /\ buttons' = buttons \cup {call.key}
        /\ jobs' = jobs \cup {<<call.key, "due">>}
        /\ Done
        /\ UNCHANGED <<agreed, windows>>
  /\ UNCHANGED <<chat, text, pressed>>

-----------------------------------------------------------------------------
(* handle_delete_history_callback *)

\* A button under the offer, any time later and any number of times.
Press(u, k) ==
  /\ pc = "idle" /\ k \in buttons
  /\ pressed' = [s \in Sessions |-> IF s = k THEN pressed[s] \cup {u} ELSE pressed[s]]
  /\ call' = [NoCall EXCEPT !.user = u, !.key = k] /\ Goto("exists")
  /\ UNCHANGED <<chat, text, windows, agreed, buttons, jobs>>

ConfirmExists ==
  /\ pc = "exists"
  /\ IF call.key \in windows THEN Goto("sadd") /\ UNCHANGED call ELSE Done
  /\ UNCHANGED <<chat, text, offers, jobs>>

ConfirmAdd ==
  /\ pc = "sadd"
  /\ agreed' = [agreed EXCEPT ![call.key] = @ \cup {call.user}]
  /\ Goto("members")
  /\ UNCHANGED <<chat, text, windows, buttons, pressed, jobs, call>>

\* Mutant: one side is enough.
ConfirmAlone ==
  /\ pc = "members"
  /\ IF agreed[call.key] # {} THEN Goto("clear") /\ UNCHANGED call ELSE Done
  /\ UNCHANGED <<chat, text, offers, jobs>>

ConfirmMembers ==
  /\ pc = "members"
  /\ IF agreed[call.key] = Users THEN Goto("clear") /\ UNCHANGED call ELSE Done
  /\ UNCHANGED <<chat, text, offers, jobs>>

\* schedule_removal stops a job that has not started.
DeleteClear ==
  /\ pc = "clear"
  /\ ClearWindow(call.key)
  /\ jobs' = jobs \ {<<call.key, "due">>}
  /\ Goto("popA")
  /\ UNCHANGED <<chat, text, buttons, pressed, call>>

\* The ids in the list, then each message: telegram may refuse.
DeletePop(u, label, next) ==
  /\ pc = label
  /\ Pop(call.key, {u})
  /\ IF u \in lists[call.key]
     THEN /\ call' = [call EXCEPT !.found = @ \cup {u}]
          /\ \E left \in {{}, {u}} :
               visible' = [k \in Sessions |->
                 IF k = call.key THEN visible[k] \ ({u} \ left) ELSE visible[k]]
     ELSE UNCHANGED <<call, visible>>
  /\ Goto(next)
  /\ UNCHANGED <<chat, stored, erased, offers, jobs>>

\* Then both are told, if anything was found, that all is deleted for both.
DeleteMark ==
  /\ pc = "mark"
  /\ Mark(call.key)
  /\ Done
  /\ UNCHANGED <<chat, lists, visible, offers, jobs>>

Update ==
  \/ Begin
  \/ Relay
  \/ \E u \in Users, k \in Keys : Press(u, k)
  \/ pc = "idle" /\ StopPair

Handle ==
  \/ SetSessionId
  \/ RelaySession \/ RelayRecord \/ RelayStore
  \/ (pc # "idle" /\ StopPair) \/ EndSession \/ Offer
  \/ ConfirmExists \/ ConfirmAdd \/ ConfirmMembers \/ DeleteClear
  \/ DeletePop(A, "popA", "popB") \/ DeletePop(B, "popB", "mark")
  \/ DeleteMark

-----------------------------------------------------------------------------
(* The jobs and the clocks. *)

\* _auto_purge_session_history_job: telegram is left as it is.
AutoPurge(k) ==
  \/ /\ <<k, "due">> \in jobs
     /\ ClearWindow(k)
     /\ jobs' = (jobs \ {<<k, "due">>}) \cup {<<k, "pop">>}
     /\ UNCHANGED <<text, buttons, pressed>>
  \/ /\ <<k, "pop">> \in jobs
     /\ Pop(k, Users) /\ Mark(k)
     /\ jobs' = jobs \ {<<k, "pop">>}
     /\ UNCHANGED <<visible, offers>>

\* Mutant: the daily purge finds nothing.
PurgeNothing(k) ==
  /\ k \in stored
  /\ UNCHANGED <<text, offers, jobs>>

\* _purge_old_messages_job: the rows of a day ago, here chat by chat.
PurgeOld(k) ==
  /\ k \in stored /\ stored' = stored \ {k}
  /\ UNCHANGED <<erased, lists, visible, offers, jobs>>

\* TTL_PENDING_DELETE.  The set of who has agreed may live a little longer:
\* only the message to the other side depends on it then.
Expire(k) ==
  /\ k \in windows
  /\ ClearWindow(k)
  /\ UNCHANGED <<text, buttons, pressed, jobs>>

-----------------------------------------------------------------------------
(* _close_active_1to1_chat, in the worker: the chat ends without an offer. *)

Close ==
  /\ \/ Bans /\ closing = "no" /\ paired /\ closing' = "unpair" /\ UNCHANGED <<paired, session>>
     \/ closing = "unpair" /\ paired' = FALSE /\ closing' = "session" /\ UNCHANGED session
     \/ closing = "session" /\ session' = NoSession /\ closing' = "done" /\ UNCHANGED paired
  /\ UNCHANGED <<last, text, offers, jobs, pc, call>>

Crash ==
  /\ Crashes
  /\ pc' = "idle" /\ call' = NoCall /\ jobs' = {}
  /\ UNCHANGED <<chat, text, offers, closing>>

Jobs == (\E k \in Keys : AutoPurge(k)) /\ UNCHANGED <<chat, closing, pc, call>>
Daily(k) == PurgeOld(k) /\ UNCHANGED <<chat, closing, pc, call>>

Next ==
  \/ (Update \/ Handle) /\ UNCHANGED closing
  \/ Jobs \/ \E k \in Sessions : Daily(k)
  \/ (\E k \in Keys : Expire(k)) /\ UNCHANGED <<chat, closing, pc, call>>
  \/ Close \/ Crash

Spec == Init /\ [][Next]_vars

\* A handler goes on to its end, and the daily job is run every day.
FairSpec ==
  /\ Spec
  /\ WF_vars(Handle /\ UNCHANGED closing)
  /\ \A k \in Sessions : WF_vars(Daily(k))

-----------------------------------------------------------------------------
(* Properties *)

Labels ==
  {"idle", "begun", "sent", "record", "store", "unpair", "end", "open", "send",
   "exists", "sadd", "members", "clear", "popA", "popB", "mark"}

ChatTypes == paired \in BOOLEAN /\ session \in Keys /\ last \in 0 .. MaxSession

TextTypes ==
  /\ stored \subseteq Sessions /\ erased \subseteq Sessions
  /\ lists \in [Keys -> SUBSET Users] /\ visible \in [Sessions -> SUBSET Users]

OfferTypes ==
  /\ windows \subseteq Keys /\ buttons \subseteq Keys
  /\ agreed \in [Keys -> SUBSET Users] /\ pressed \in [Sessions -> SUBSET Users]

TaskTypes ==
  /\ jobs \subseteq Keys \X {"due", "pop"}
  /\ closing \in {"no", "unpair", "session", "done"}
  /\ pc \in Labels
  /\ call \in [user : Users, key : Keys, found : SUBSET Users]

TypeOK == ChatTypes /\ TextTypes /\ OfferTypes /\ TaskTypes

\* Nothing is deleted from telegram unless both have pressed the button of that
\* very chat: neither the purge, nor an old button or an old consent pressed
\* during a later offer, nor a crash between two steps brings it about.
ConsentBeforeErasure ==
  [][\A k \in Sessions : visible[k] \ visible'[k] # {} => pressed[k] = Users]_vars

\* A session that get_session_transcript calls deleted has no rows and no lists
\* left, and gets none, whoever erased it and whatever else was under way.
ErasedIsWhole ==
  \A k \in erased : k \notin stored /\ lists[k] = {}

\* The text of a session that is no longer current goes for good, also when a
\* ban has ended it without an offer or a crash has lost the job.
TextGoes ==
  \A k \in Sessions : (k <= last /\ session # k /\ pc # "begun") ~> [](k \notin stored)

\* What the summary tells both: the history was deleted for the two of them.
DeletedForBoth ==
  pc = "mark" /\ call.found # {} => call.found = Users
=============================================================================

------------------------ MODULE SessionHistoryProofs ------------------------
(***************************************************************************)
(* For any number of chats, with bans and crashes or without: a session    *)
(* that is marked deleted is gone from redis and Postgres and stays gone,  *)
(* and nothing is taken from telegram that both have not agreed to.        *)
(*                                                                         *)
(* What makes them inductive: only a chat that has ended, and that no      *)
(* relay under way still writes to, has an offer, a purge or a deletion    *)
(* (EndedOnly); the deletion marks after it has popped both lists          *)
(* (PoppedFirst); and who is in the set has pressed the button (Consent).  *)
(***************************************************************************)
EXTENDS SessionHistory, TLAPS

Writing == {"begun", "record", "store"}
Deleting == {"clear", "popA", "popB"}
Ending == {"open", "send", "exists", "sadd", "members", "mark"} \cup Deleting

\* k is over: it is not current, nor will anything under way make it so or
\* write to it.
Over(k) ==
  k # NoSession => k <= last /\ session # k /\ ~(pc \in Writing /\ call.key = k)

Offered(k) ==
  k \in buttons \/ k \in erased \/ \E step \in {"due", "pop"} : <<k, step>> \in jobs

Known ==
  /\ session <= last
  /\ pc \in Writing => call.key <= last
  /\ pc \in {"begun", "store"} => call.key # NoSession

EndedOnly ==
  /\ \A k \in Keys : Offered(k) => Over(k)
  /\ pc \in Ending => Over(call.key)

PoppedFirst ==
  /\ pc = "popB" => A \notin lists[call.key]
  /\ pc = "mark" => lists[call.key] = {}

Consent ==
  /\ \A k \in Sessions : agreed[k] \subseteq pressed[k]
  /\ pc \in {"exists", "sadd"} /\ call.key # NoSession => call.user \in pressed[call.key]
  /\ pc \in Deleting /\ call.key # NoSession => pressed[call.key] = Users

SInv == TypeOK /\ Known /\ EndedOnly /\ PoppedFirst /\ Consent /\ ErasedIsWhole

-----------------------------------------------------------------------------
(* The sets that stay folded in what follows. *)

LEMMA KeyFacts ==
  /\ NoSession = 0 /\ NoSession \in Keys /\ NoSession \notin Sessions
  /\ \A k : k \in Sessions <=> k \in Keys /\ k # NoSession
  /\ \A k \in Keys : k \in Nat /\ k <= MaxSession
  /\ MaxSession \in Nat
  /\ \A n \in Nat : n > 0 /\ n <= MaxSession => n \in Sessions
  BY SessionHistoryAssumption DEF NoSession, Keys, Sessions

LEMMA UserFacts ==
  /\ A \in Users /\ B \in Users /\ A # B
  /\ \A u \in Users : u = A \/ u = B
  BY SessionHistoryAssumption DEF Users

LEMMA InitSInv == ASSUME Init PROVE SInv
  <1> USE KeyFacts, UserFacts DEF Init, NoCall
  <1>1. ChatTypes /\ TextTypes /\ OfferTypes
    <2>1. 0 \in 0 .. MaxSession
      BY KeyFacts
    <2> QED
      BY <2>1 DEF ChatTypes, TextTypes, OfferTypes
  <1>2. TaskTypes
    BY DEF TaskTypes, Labels
  <1>3. Known /\ EndedOnly
    BY DEF Known, EndedOnly, Offered, Over, Writing, Ending, Deleting
  <1>4. PoppedFirst /\ Consent /\ ErasedIsWhole
    BY DEF PoppedFirst, Consent, Deleting, ErasedIsWhole
  <1> QED
    BY <1>1, <1>2, <1>3, <1>4 DEF SInv, TypeOK

-----------------------------------------------------------------------------
(* One lemma for each action. *)

\* A chat begins.
LEMMA BeginKeeps == ASSUME SInv, Begin, UNCHANGED closing PROVE SInv'
  <1> USE KeyFacts, UserFacts DEF SInv, Begin, Goto, NoCall, text, offers
  <1>1. TypeOK'
    BY DEF TypeOK, ChatTypes, TextTypes, OfferTypes, TaskTypes, Labels
  <1>2. Known'
    BY DEF Known, TypeOK, ChatTypes, TaskTypes, Writing
  <1>3. EndedOnly'
    BY DEF EndedOnly, Known, Offered, Over, Writing, Ending, Deleting, TypeOK, ChatTypes, TaskTypes
  <1>4. PoppedFirst'
    BY DEF PoppedFirst, TypeOK, TextTypes, TaskTypes
  <1>5. Consent'
    BY DEF Consent, Deleting, TypeOK, OfferTypes, TaskTypes
  <1>6. ErasedIsWhole'
    BY DEF ErasedIsWhole, EndedOnly, Known, Offered, Over, Writing, Ending, PoppedFirst, TypeOK, TextTypes, TaskTypes
  <1> QED
    BY <1>1, <1>2, <1>3, <1>4, <1>5, <1>6

\* Its key is set: no offer was made of it.
LEMMA SetIdKeeps == ASSUME SInv, SetSessionId, UNCHANGED closing PROVE SInv'
  <1> USE KeyFacts, UserFacts DEF SInv, SetSessionId, Done, NoCall, text, offers
  <1>1. TypeOK'
    BY DEF TypeOK, ChatTypes, TextTypes, OfferTypes, TaskTypes, Labels
  <1>2. Known'
    BY DEF Known, TypeOK, ChatTypes, TaskTypes, Writing
  <1>3. EndedOnly'
    BY DEF EndedOnly, Known, Offered, Over, Writing, Ending, Deleting, TypeOK, ChatTypes, TaskTypes
  <1>4. PoppedFirst'
    BY DEF PoppedFirst, TypeOK, TextTypes, TaskTypes
  <1>5. Consent'
    BY DEF Consent, Deleting, TypeOK, OfferTypes, TaskTypes
  <1>6. ErasedIsWhole'
    BY DEF ErasedIsWhole, EndedOnly, Known, Offered, Over, Writing, Ending, PoppedFirst, TypeOK, TextTypes, TaskTypes
  <1> QED
    BY <1>1, <1>2, <1>3, <1>4, <1>5, <1>6

\* A message is sent.
LEMMA RelayKeeps == ASSUME SInv, Relay, UNCHANGED closing PROVE SInv'
  <1> USE KeyFacts, UserFacts DEF SInv, Relay, Goto, chat, text, offers
  <1>1. TypeOK'
    BY DEF TypeOK, ChatTypes, TextTypes, OfferTypes, TaskTypes, Labels
  <1>2. Known'
    BY DEF Known, TypeOK, ChatTypes, TaskTypes, Writing
  <1>3. EndedOnly'
    BY DEF EndedOnly, Known, Offered, Over, Writing, Ending, Deleting, TypeOK, ChatTypes, TaskTypes
  <1>4. PoppedFirst'
    BY DEF PoppedFirst, TypeOK, TextTypes, TaskTypes
  <1>5. Consent'
    BY DEF Consent, Deleting, TypeOK, OfferTypes, TaskTypes
  <1>6. ErasedIsWhole'
    BY DEF ErasedIsWhole, EndedOnly, Known, Offered, Over, Writing, Ending, PoppedFirst, TypeOK, TextTypes, TaskTypes
  <1> QED
    BY <1>1, <1>2, <1>3, <1>4, <1>5, <1>6

\* It will be recorded under the current session, which is not over.
LEMMA RelaySessionKeeps == ASSUME SInv, RelaySession, UNCHANGED closing PROVE SInv'
  <1> USE KeyFacts, UserFacts DEF SInv, RelaySession, Goto, chat, offers
  <1>1. TypeOK'
    BY DEF TypeOK, ChatTypes, TextTypes, OfferTypes, TaskTypes, Labels
  <1>2. Known'
    BY DEF Known, TypeOK, ChatTypes, TaskTypes, Writing
  <1>3. EndedOnly'
    BY DEF EndedOnly, Known, Offered, Over, Writing, Ending, Deleting, TypeOK, ChatTypes, TaskTypes
  <1>4. PoppedFirst'
    BY DEF PoppedFirst, TypeOK, TextTypes, TaskTypes
  <1>5. Consent'
    BY DEF Consent, Deleting, TypeOK, OfferTypes, TaskTypes
  <1>6. ErasedIsWhole'
    BY DEF ErasedIsWhole, EndedOnly, Known, Offered, Over, Writing, Ending, PoppedFirst, TypeOK, TextTypes, TaskTypes
  <1> QED
    BY <1>1, <1>2, <1>3, <1>4, <1>5, <1>6

\* What a relay writes to is not over, hence not erased.
LEMMA RelayRecordKeeps == ASSUME SInv, RelayRecord, UNCHANGED closing PROVE SInv'
  <1> USE KeyFacts, UserFacts DEF SInv, RelayRecord, Goto, Done, NoCall, chat, offers
  <1>1. TypeOK'
    BY DEF TypeOK, ChatTypes, TextTypes, OfferTypes, TaskTypes, Labels
  <1>2. Known'
    BY DEF Known, TypeOK, ChatTypes, TaskTypes, Writing
  <1>3. EndedOnly'
    BY DEF EndedOnly, Known, Offered, Over, Writing, Ending, Deleting, TypeOK, ChatTypes, TaskTypes
  <1>4. PoppedFirst'
    BY DEF PoppedFirst, TypeOK, TextTypes, TaskTypes
  <1>5. Consent'
    BY DEF Consent, Deleting, TypeOK, OfferTypes, TaskTypes
  <1>6. ErasedIsWhole'
    BY DEF ErasedIsWhole, EndedOnly, Known, Offered, Over, Writing, Ending, PoppedFirst, TypeOK, TextTypes, TaskTypes
  <1> QED
    BY <1>1, <1>2, <1>3, <1>4, <1>5, <1>6

\* The same of its row.
LEMMA RelayStoreKeeps == ASSUME SInv, RelayStore, UNCHANGED closing PROVE SInv'
  <1> USE KeyFacts, UserFacts DEF SInv, RelayStore, Done, NoCall, chat, offers
  <1>1. TypeOK'
    <2>1. ChatTypes' /\ TextTypes'
      BY DEF TypeOK, ChatTypes, TextTypes, TaskTypes, Known
    <2>2. OfferTypes'
      BY DEF TypeOK, OfferTypes, TaskTypes
    <2>3. jobs' \subseteq Keys \X {"due", "pop"}
      BY DEF TypeOK, TaskTypes
    <2>4. TaskTypes'
      BY <2>3 DEF TypeOK, TaskTypes, Labels
    <2> QED
      BY <2>1, <2>2, <2>4 DEF TypeOK
  <1>2. Known'
    BY DEF Known, TypeOK, ChatTypes, TaskTypes, Writing
  <1>3. EndedOnly'
    BY DEF EndedOnly, Known, Offered, Over, Writing, Ending, Deleting, TypeOK, ChatTypes, TaskTypes
  <1>4. PoppedFirst'
    BY DEF PoppedFirst, TypeOK, TextTypes, TaskTypes
  <1>5. Consent'
    BY DEF Consent, Deleting, TypeOK, OfferTypes, TaskTypes
  <1>6. ErasedIsWhole'
    BY DEF ErasedIsWhole, EndedOnly, Known, Offered, Over, Writing, Ending, PoppedFirst, TypeOK, TextTypes, TaskTypes
  <1> QED
    BY <1>1, <1>2, <1>3, <1>4, <1>5, <1>6

\* The pair ends.
LEMMA StopKeeps == ASSUME SInv, StopPair, UNCHANGED closing PROVE SInv'
  <1> USE KeyFacts, UserFacts DEF SInv, StopPair, Goto, text, offers
  <1>1. TypeOK'
    BY DEF TypeOK, ChatTypes, TextTypes, OfferTypes, TaskTypes, Labels
  <1>2. Known'
    BY DEF Known, TypeOK, ChatTypes, TaskTypes, Writing
  <1>3. EndedOnly'
    BY DEF EndedOnly, Known, Offered, Over, Writing, Ending, Deleting, TypeOK, ChatTypes, TaskTypes
  <1>4. PoppedFirst'
    BY DEF PoppedFirst, TypeOK, TextTypes, TaskTypes
  <1>5. Consent'
    BY DEF Consent, Deleting, TypeOK, OfferTypes, TaskTypes
  <1>6. ErasedIsWhole'
    BY DEF ErasedIsWhole, EndedOnly, Known, Offered, Over, Writing, Ending, PoppedFirst, TypeOK, TextTypes, TaskTypes
  <1> QED
    BY <1>1, <1>2, <1>3, <1>4, <1>5, <1>6

\* The session is over: its key is gone and no relay is under way.
LEMMA EndKeeps == ASSUME SInv, EndSession, UNCHANGED closing PROVE SInv'
  <1> USE KeyFacts, UserFacts DEF SInv, EndSession, Goto, Done, NoCall, text, offers
  <1>1. TypeOK'
    BY DEF TypeOK, ChatTypes, TextTypes, OfferTypes, TaskTypes, Labels
  <1>2. Known'
    BY DEF Known, TypeOK, ChatTypes, TaskTypes, Writing
  <1>3. EndedOnly'
    BY DEF EndedOnly, Known, Offered, Over, Writing, Ending, Deleting, TypeOK, ChatTypes, TaskTypes
  <1>4. PoppedFirst'
    BY DEF PoppedFirst, TypeOK, TextTypes, TaskTypes
  <1>5. Consent'
    BY DEF Consent, Deleting, TypeOK, OfferTypes, TaskTypes
  <1>6. ErasedIsWhole'
    BY DEF ErasedIsWhole, EndedOnly, Known, Offered, Over, Writing, Ending, PoppedFirst, TypeOK, TextTypes, TaskTypes
  <1> QED
    BY <1>1, <1>2, <1>3, <1>4, <1>5, <1>6

\* The offer and the job are about a session that is over.
LEMMA OfferKeeps == ASSUME SInv, Offer, UNCHANGED closing PROVE SInv'
  <1> USE KeyFacts, UserFacts DEF SInv, Offer, Goto, Done, NoCall, chat, text
  <1>1. TypeOK'
    <2>1. ChatTypes' /\ TextTypes'
      BY DEF TypeOK, ChatTypes, TextTypes, TaskTypes, Known
    <2>2. OfferTypes'
      BY DEF TypeOK, OfferTypes, TaskTypes
    <2>3. jobs' \subseteq Keys \X {"due", "pop"}
      BY DEF TypeOK, TaskTypes
    <2>4. TaskTypes'
      BY <2>3 DEF TypeOK, TaskTypes, Labels
    <2> QED
      BY <2>1, <2>2, <2>4 DEF TypeOK
  <1>2. Known'
    BY DEF Known, TypeOK, ChatTypes, TaskTypes, Writing
  <1>3. EndedOnly'
    BY DEF EndedOnly, Known, Offered, Over, Writing, Ending, Deleting, TypeOK, ChatTypes, TaskTypes
  <1>4. PoppedFirst'
    BY DEF PoppedFirst, TypeOK, TextTypes, TaskTypes
  <1>5. Consent'
    BY DEF Consent, Deleting, TypeOK, OfferTypes, TaskTypes
  <1>6. ErasedIsWhole'
    BY DEF ErasedIsWhole, EndedOnly, Known, Offered, Over, Writing, Ending, PoppedFirst, TypeOK, TextTypes, TaskTypes
  <1> QED
    BY <1>1, <1>2, <1>3, <1>4, <1>5, <1>6

\* A button is pressed.
LEMMA PressKeeps == ASSUME SInv, NEW u \in Users, NEW k \in Keys, Press(u, k), UNCHANGED closing PROVE SInv'
  <1> USE KeyFacts, UserFacts DEF SInv, Press, Goto, NoCall, chat, text
  <1>1. TypeOK'
    BY DEF TypeOK, ChatTypes, TextTypes, OfferTypes, TaskTypes, Labels
  <1>2. Known'
    BY DEF Known, TypeOK, ChatTypes, TaskTypes, Writing
  <1>3. EndedOnly'
    BY DEF EndedOnly, Known, Offered, Over, Writing, Ending, Deleting, TypeOK, ChatTypes, TaskTypes
  <1>4. PoppedFirst'
    BY DEF PoppedFirst, TypeOK, TextTypes, TaskTypes
  <1>5. Consent'
    BY DEF Consent, Deleting, TypeOK, OfferTypes, TaskTypes
  <1>6. ErasedIsWhole'
    BY DEF ErasedIsWhole, EndedOnly, Known, Offered, Over, Writing, Ending, PoppedFirst, TypeOK, TextTypes, TaskTypes
  <1> QED
    BY <1>1, <1>2, <1>3, <1>4, <1>5, <1>6

\* The window is looked at.
LEMMA ExistsKeeps == ASSUME SInv, ConfirmExists, UNCHANGED closing PROVE SInv'
  <1> USE KeyFacts, UserFacts DEF SInv, ConfirmExists, Goto, Done, NoCall, chat, text, offers
  <1>1. TypeOK'
    BY DEF TypeOK, ChatTypes, TextTypes, OfferTypes, TaskTypes, Labels
  <1>2. Known'
    BY DEF Known, TypeOK, ChatTypes, TaskTypes, Writing
  <1>3. EndedOnly'
    BY DEF EndedOnly, Known, Offered, Over, Writing, Ending, Deleting, TypeOK, ChatTypes, TaskTypes
  <1>4. PoppedFirst'
    BY DEF PoppedFirst, TypeOK, TextTypes, TaskTypes
  <1>5. Consent'
    BY DEF Consent, Deleting, TypeOK, OfferTypes, TaskTypes
  <1>6. ErasedIsWhole'
    BY DEF ErasedIsWhole, EndedOnly, Known, Offered, Over, Writing, Ending, PoppedFirst, TypeOK, TextTypes, TaskTypes
  <1> QED
    BY <1>1, <1>2, <1>3, <1>4, <1>5, <1>6

\* Who is added to the set has pressed the button.
LEMMA AddKeeps == ASSUME SInv, ConfirmAdd, UNCHANGED closing PROVE SInv'
  <1> USE KeyFacts, UserFacts DEF SInv, ConfirmAdd, Goto, chat, text
  <1>1. TypeOK'
    BY DEF TypeOK, ChatTypes, TextTypes, OfferTypes, TaskTypes, Labels
  <1>2. Known'
    BY DEF Known, TypeOK, ChatTypes, TaskTypes, Writing
  <1>3. EndedOnly'
    BY DEF EndedOnly, Known, Offered, Over, Writing, Ending, Deleting, TypeOK, ChatTypes, TaskTypes
  <1>4. PoppedFirst'
    BY DEF PoppedFirst, TypeOK, TextTypes, TaskTypes
  <1>5. Consent'
    BY DEF Consent, Deleting, TypeOK, OfferTypes, TaskTypes
  <1>6. ErasedIsWhole'
    BY DEF ErasedIsWhole, EndedOnly, Known, Offered, Over, Writing, Ending, PoppedFirst, TypeOK, TextTypes, TaskTypes
  <1> QED
    BY <1>1, <1>2, <1>3, <1>4, <1>5, <1>6

\* Both are in the set, so both have pressed it.
LEMMA MembersKeep == ASSUME SInv, ConfirmMembers, UNCHANGED closing PROVE SInv'
  <1> USE KeyFacts, UserFacts DEF SInv, ConfirmMembers, Goto, Done, NoCall, chat, text, offers
  <1>1. TypeOK'
    BY DEF TypeOK, ChatTypes, TextTypes, OfferTypes, TaskTypes, Labels
  <1>2. Known'
    BY DEF Known, TypeOK, ChatTypes, TaskTypes, Writing
  <1>3. EndedOnly'
    BY DEF EndedOnly, Known, Offered, Over, Writing, Ending, Deleting, TypeOK, ChatTypes, TaskTypes
  <1>4. PoppedFirst'
    BY DEF PoppedFirst, TypeOK, TextTypes, TaskTypes
  <1>5. Consent'
    BY DEF Consent, Deleting, TypeOK, OfferTypes, TaskTypes
  <1>6. ErasedIsWhole'
    BY DEF ErasedIsWhole, EndedOnly, Known, Offered, Over, Writing, Ending, PoppedFirst, TypeOK, TextTypes, TaskTypes
  <1> QED
    BY <1>1, <1>2, <1>3, <1>4, <1>5, <1>6

\* The window is closed, the job removed.
LEMMA ClearKeeps == ASSUME SInv, DeleteClear, UNCHANGED closing PROVE SInv'
  <1> USE KeyFacts, UserFacts DEF SInv, DeleteClear, ClearWindow, Goto, chat, text
  <1>1. TypeOK'
    BY DEF TypeOK, ChatTypes, TextTypes, OfferTypes, TaskTypes, Labels
  <1>2. Known'
    BY DEF Known, TypeOK, ChatTypes, TaskTypes, Writing
  <1>3. EndedOnly'
    BY DEF EndedOnly, Known, Offered, Over, Writing, Ending, Deleting, TypeOK, ChatTypes, TaskTypes
  <1>4. PoppedFirst'
    BY DEF PoppedFirst, TypeOK, TextTypes, TaskTypes
  <1>5. Consent'
    BY DEF Consent, Deleting, TypeOK, OfferTypes, TaskTypes
  <1>6. ErasedIsWhole'
    BY DEF ErasedIsWhole, EndedOnly, Known, Offered, Over, Writing, Ending, PoppedFirst, TypeOK, TextTypes, TaskTypes
  <1> QED
    BY <1>1, <1>2, <1>3, <1>4, <1>5, <1>6

\* The lists go, one after the other.
LEMMA PopKeeps == ASSUME SInv, DeletePop(A, "popA", "popB") \/ DeletePop(B, "popB", "mark"), UNCHANGED closing PROVE SInv'
  <1> USE KeyFacts, UserFacts DEF SInv, DeletePop, Pop, Goto, chat, offers
  <1>1. TypeOK'
    BY DEF TypeOK, ChatTypes, TextTypes, OfferTypes, TaskTypes, Labels
  <1>2. Known'
    BY DEF Known, TypeOK, ChatTypes, TaskTypes, Writing
  <1>3. EndedOnly'
    BY DEF EndedOnly, Known, Offered, Over, Writing, Ending, Deleting, TypeOK, ChatTypes, TaskTypes
  <1>4. PoppedFirst'
    BY DEF PoppedFirst, TypeOK, TextTypes, TaskTypes
  <1>5. Consent'
    BY DEF Consent, Deleting, TypeOK, OfferTypes, TaskTypes
  <1>6. ErasedIsWhole'
    BY DEF ErasedIsWhole, EndedOnly, Known, Offered, Over, Writing, Ending, PoppedFirst, TypeOK, TextTypes, TaskTypes
  <1> QED
    BY <1>1, <1>2, <1>3, <1>4, <1>5, <1>6

\* Both lists are gone when the rows go.
LEMMA MarkKeeps == ASSUME SInv, DeleteMark, UNCHANGED closing PROVE SInv'
  <1> USE KeyFacts, UserFacts DEF SInv, DeleteMark, Mark, Done, NoCall, chat, offers
  <1>1. TypeOK'
    BY DEF TypeOK, ChatTypes, TextTypes, OfferTypes, TaskTypes, Labels
  <1>2. Known'
    BY DEF Known, TypeOK, ChatTypes, TaskTypes, Writing
  <1>3. EndedOnly'
    BY DEF EndedOnly, Known, Offered, Over, Writing, Ending, Deleting, TypeOK, ChatTypes, TaskTypes
  <1>4. PoppedFirst'
    BY DEF PoppedFirst, TypeOK, TextTypes, TaskTypes
  <1>5. Consent'
    BY DEF Consent, Deleting, TypeOK, OfferTypes, TaskTypes
  <1>6. ErasedIsWhole'
    BY DEF ErasedIsWhole, EndedOnly, Known, Offered, Over, Writing, Ending, PoppedFirst, TypeOK, TextTypes, TaskTypes
  <1> QED
    BY <1>1, <1>2, <1>3, <1>4, <1>5, <1>6

\* The job of a session that is over.
LEMMA AutoPurgeKeeps == ASSUME SInv, NEW k \in Keys, AutoPurge(k), UNCHANGED <<chat, closing, pc, call>> PROVE SInv'
  <1> USE KeyFacts, UserFacts DEF SInv, AutoPurge, ClearWindow, Pop, Mark, chat, text, offers
  <1>1. TypeOK'
    <2>1. ChatTypes' /\ TextTypes'
      BY DEF TypeOK, ChatTypes, TextTypes, TaskTypes, Known
    <2>2. OfferTypes'
      BY DEF TypeOK, OfferTypes, TaskTypes
    <2>3. jobs' \subseteq Keys \X {"due", "pop"}
      BY DEF TypeOK, TaskTypes
    <2>4. TaskTypes'
      BY <2>3 DEF TypeOK, TaskTypes, Labels
    <2> QED
      BY <2>1, <2>2, <2>4 DEF TypeOK
  <1>2. Known'
    BY DEF Known, TypeOK, ChatTypes, TaskTypes, Writing
  <1>3. EndedOnly'
    BY DEF EndedOnly, Known, Offered, Over, Writing, Ending, Deleting, TypeOK, ChatTypes, TaskTypes
  <1>4. PoppedFirst'
    <2>1. \A j \in Keys : lists'[j] \subseteq lists[j]
      BY DEF TypeOK, TextTypes
    <2>2. call.key \in Keys /\ UNCHANGED <<pc, call>>
      BY DEF TypeOK, TaskTypes
    <2> QED
      BY <2>1, <2>2 DEF PoppedFirst
  <1>5. Consent'
    BY DEF Consent, Deleting, TypeOK, OfferTypes, TaskTypes
  <1>6. ErasedIsWhole'
    BY DEF ErasedIsWhole, EndedOnly, Known, Offered, Over, Writing, Ending, PoppedFirst, TypeOK, TextTypes, TaskTypes
  <1> QED
    BY <1>1, <1>2, <1>3, <1>4, <1>5, <1>6

\* The daily purge.
LEMMA PurgeOldKeeps == ASSUME SInv, NEW k \in Sessions, PurgeOld(k), UNCHANGED <<chat, closing, pc, call>> PROVE SInv'
  <1> USE KeyFacts, UserFacts DEF SInv, PurgeOld, chat, offers
  <1>1. TypeOK'
    BY DEF TypeOK, ChatTypes, TextTypes, OfferTypes, TaskTypes, Labels
  <1>2. Known'
    BY DEF Known, TypeOK, ChatTypes, TaskTypes, Writing
  <1>3. EndedOnly'
    BY DEF EndedOnly, Known, Offered, Over, Writing, Ending, Deleting, TypeOK, ChatTypes, TaskTypes
  <1>4. PoppedFirst'
    BY DEF PoppedFirst, TypeOK, TextTypes, TaskTypes
  <1>5. Consent'
    BY DEF Consent, Deleting, TypeOK, OfferTypes, TaskTypes
  <1>6. ErasedIsWhole'
    BY DEF ErasedIsWhole, EndedOnly, Known, Offered, Over, Writing, Ending, PoppedFirst, TypeOK, TextTypes, TaskTypes
  <1> QED
    BY <1>1, <1>2, <1>3, <1>4, <1>5, <1>6

\* A window that expires empties the set.
LEMMA ExpireKeeps == ASSUME SInv, NEW k \in Keys, Expire(k), UNCHANGED <<chat, closing, pc, call>> PROVE SInv'
  <1> USE KeyFacts, UserFacts DEF SInv, Expire, ClearWindow, chat, text
  <1>1. TypeOK'
    BY DEF TypeOK, ChatTypes, TextTypes, OfferTypes, TaskTypes, Labels
  <1>2. Known'
    BY DEF Known, TypeOK, ChatTypes, TaskTypes, Writing
  <1>3. EndedOnly'
    BY DEF EndedOnly, Known, Offered, Over, Writing, Ending, Deleting, TypeOK, ChatTypes, TaskTypes
  <1>4. PoppedFirst'
    BY DEF PoppedFirst, TypeOK, TextTypes, TaskTypes
  <1>5. Consent'
    BY DEF Consent, Deleting, TypeOK, OfferTypes, TaskTypes
  <1>6. ErasedIsWhole'
    BY DEF ErasedIsWhole, EndedOnly, Known, Offered, Over, Writing, Ending, PoppedFirst, TypeOK, TextTypes, TaskTypes
  <1> QED
    BY <1>1, <1>2, <1>3, <1>4, <1>5, <1>6

\* A ban ends the chat.
LEMMA CloseKeeps == ASSUME SInv, Close PROVE SInv'
  <1> USE KeyFacts, UserFacts DEF SInv, Close, text, offers
  <1>1. TypeOK'
    BY DEF TypeOK, ChatTypes, TextTypes, OfferTypes, TaskTypes, Labels
  <1>2. Known'
    BY DEF Known, TypeOK, ChatTypes, TaskTypes, Writing
  <1>3. EndedOnly'
    BY DEF EndedOnly, Known, Offered, Over, Writing, Ending, Deleting, TypeOK, ChatTypes, TaskTypes
  <1>4. PoppedFirst'
    BY DEF PoppedFirst, TypeOK, TextTypes, TaskTypes
  <1>5. Consent'
    BY DEF Consent, Deleting, TypeOK, OfferTypes, TaskTypes
  <1>6. ErasedIsWhole'
    BY DEF ErasedIsWhole, EndedOnly, Known, Offered, Over, Writing, Ending, PoppedFirst, TypeOK, TextTypes, TaskTypes
  <1> QED
    BY <1>1, <1>2, <1>3, <1>4, <1>5, <1>6

\* A crash forgets what the handler had read.
LEMMA CrashKeeps == ASSUME SInv, Crash PROVE SInv'
  <1> USE KeyFacts, UserFacts DEF SInv, Crash, NoCall, chat, text, offers
  <1>1. TypeOK'
    BY DEF TypeOK, ChatTypes, TextTypes, OfferTypes, TaskTypes, Labels
  <1>2. Known'
    BY DEF Known, TypeOK, ChatTypes, TaskTypes, Writing
  <1>3. EndedOnly'
    BY DEF EndedOnly, Known, Offered, Over, Writing, Ending, Deleting, TypeOK, ChatTypes, TaskTypes
  <1>4. PoppedFirst'
    BY DEF PoppedFirst, TypeOK, TextTypes, TaskTypes
  <1>5. Consent'
    BY DEF Consent, Deleting, TypeOK, OfferTypes, TaskTypes
  <1>6. ErasedIsWhole'
    BY DEF ErasedIsWhole, EndedOnly, Known, Offered, Over, Writing, Ending, PoppedFirst, TypeOK, TextTypes, TaskTypes
  <1> QED
    BY <1>1, <1>2, <1>3, <1>4, <1>5, <1>6

-----------------------------------------------------------------------------
(* The theorems. *)

LEMMA StepKeeps == ASSUME SInv, [Next]_vars PROVE SInv'
  <1>1. CASE (Update \/ Handle) /\ UNCHANGED closing
    BY <1>1, BeginKeeps, SetIdKeeps, RelayKeeps, RelaySessionKeeps, RelayRecordKeeps, RelayStoreKeeps,
       StopKeeps, EndKeeps, OfferKeeps, PressKeeps, ExistsKeeps, AddKeeps, MembersKeep, ClearKeeps,
       PopKeeps, MarkKeeps
       DEF Update, Handle
  <1>2. CASE Jobs \/ (\E k \in Sessions : Daily(k))
    BY <1>2, AutoPurgeKeeps, PurgeOldKeeps DEF Jobs, Daily
  <1>3. CASE (\E k \in Keys : Expire(k)) /\ UNCHANGED <<chat, closing, pc, call>>
    BY <1>3, ExpireKeeps
  <1>4. CASE Close \/ Crash
    BY <1>4, CloseKeeps, CrashKeeps
  <1>5. CASE UNCHANGED vars
    BY <1>5 DEF vars, chat, text, offers, SInv, TypeOK, ChatTypes, TextTypes, OfferTypes, TaskTypes,
       Known, EndedOnly, Offered, Over, PoppedFirst, Consent, ErasedIsWhole
  <1> QED
    BY <1>1, <1>2, <1>3, <1>4, <1>5 DEF Next

\* The inductive invariant: offers, purges and deletions are about chats that
\* are over, the lists go before the rows, and consent is given by pressing.
THEOREM HistoryCorrect == Spec => []SInv
  <1>1. Init => SInv
    BY InitSInv
  <1>2. SInv /\ [Next]_vars => SInv'
    BY StepKeeps
  <1> QED
    BY <1>1, <1>2, PTL DEF Spec

\* The variables of the history keep their types.
THEOREM HistoryTypesAlwaysOK == Spec => []TypeOK
  <1>1. SInv => TypeOK
    BY DEF SInv
  <1> QED
    BY HistoryCorrect, <1>1, PTL

\* A session marked deleted has no rows and no lists left, and gets none,
\* whoever erased it and whatever crashed or was under way.
THEOREM ErasedAlwaysWhole == Spec => []ErasedIsWhole
  <1>1. SInv => ErasedIsWhole
    BY DEF SInv
  <1> QED
    BY HistoryCorrect, <1>1, PTL

LEMMA OnlyConsentErases ==
  ASSUME SInv, Next
  PROVE  \A k \in Sessions : visible[k] \ visible'[k] # {} => pressed[k] = Users
  <1> SUFFICES ASSUME NEW k \in Sessions, NEW v \in visible[k], v \notin visible'[k]
               PROVE  pressed[k] = Users
    OBVIOUS
  <1>1. visible[k] \subseteq Users
    BY DEF SInv, TypeOK, TextTypes
  <1>2. ~RelaySession
    BY <1>1 DEF RelaySession
  <1>3. visible' # visible
    OBVIOUS
  <1>4. DeletePop(A, "popA", "popB") \/ DeletePop(B, "popB", "mark")
    BY <1>2, <1>3
       DEF Next, Update, Handle, Jobs, Daily, Begin, SetSessionId, Relay, RelayRecord, RelayStore,
           StopPair, EndSession, Offer, Press, ConfirmExists, ConfirmAdd, ConfirmMembers, DeleteClear,
           DeleteMark, AutoPurge, PurgeOld, Expire, Close, Crash, text
  <1>5. k = call.key /\ pc \in Deleting
    BY <1>4 DEF DeletePop, Deleting, SInv, TypeOK, TextTypes
  <1> QED
    BY <1>5, KeyFacts DEF SInv, Consent

\* Nothing is deleted from telegram unless both have pressed the button of that
\* very chat.
THEOREM ConsentAlwaysBeforeErasure == Spec => ConsentBeforeErasure
  <1>1. SInv /\ [Next]_vars =>
          [\A k \in Sessions : visible[k] \ visible'[k] # {} => pressed[k] = Users]_vars
    BY OnlyConsentErases
  <1> QED
    BY HistoryCorrect, <1>1, PTL DEF Spec, ConsentBeforeErasure
=============================================================================

------------------------------ MODULE Pairing ------------------------------
(***************************************************************************)
(* What the 1:1 chat promises: every user is free, waiting in the queue or *)
(* paired with one other user, and the pairs are mutual.  Two users become *)
(* and cease to be a pair in one indivisible step.                         *)
(*                                                                         *)
(* OneToOne is the detailed specification, with the redis commands of the  *)
(* handlers, the timeout jobs and the purge of the queue.                  *)
(***************************************************************************)
CONSTANTS Users,   \* telegram users
          None     \* no partner: the redis key is absent

VARIABLES waiting,   \* the users in the queue
          partner    \* user -> the other user of the chat

pairs == <<waiting, partner>>

Free(u) == u \notin waiting /\ partner[u] = None

PInit ==
  /\ waiting = {}
  /\ partner = [u \in Users |-> None]

\* No compatible user is waiting.
Wait(u) ==
  /\ Free(u)
  /\ waiting' = waiting \cup {u}
  /\ UNCHANGED partner

\* A waiting user is claimed.
Pair(u, v) ==
  /\ u # v
  /\ Free(u)
  /\ v \in waiting
  /\ waiting' = waiting \ {v}
  /\ partner' = [partner EXCEPT ![u] = v, ![v] = u]

\* Cancelled, timed out or purged.
Withdraw(u) ==
  /\ u \in waiting
  /\ waiting' = waiting \ {u}
  /\ UNCHANGED partner

Part(u) ==
  /\ partner[u] # None
  /\ partner' = [partner EXCEPT ![u] = None, ![partner[u]] = None]
  /\ UNCHANGED waiting

PNext ==
  \E u \in Users :
    Wait(u) \/ Withdraw(u) \/ Part(u) \/ \E v \in Users : Pair(u, v)

PSpec == PInit /\ [][PNext]_pairs

-----------------------------------------------------------------------------
PairingTypeOK ==
  /\ waiting \subseteq Users
  /\ partner \in [Users -> Users \cup {None}]

\* Whoever one writes to is the one whose answers one gets, nobody is two
\* users' partner, and nobody is paired with oneself.
Mutual ==
  \A u \in Users : partner[u] # None => partner[u] # u /\ partner[partner[u]] = u

\* A waiting user is in no chat, so that no match can break up a pair.
WaitingIsFree == \A u \in waiting : partner[u] = None

\* The three need each other: a claimed user is free because waiting users are,
\* and a new pair breaks up no other because both of its users are free.
PairingInv == PairingTypeOK /\ Mutual /\ WaitingIsFree
=============================================================================

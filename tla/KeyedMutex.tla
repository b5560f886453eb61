----------------------------- MODULE KeyedMutex -----------------------------
(***************************************************************************)
(* What runExclusive promises its callers: "Each task waits for the        *)
(* previous task on the same key to settle; different keys are             *)
(* independent."  A call is requested, enters once every call of its key   *)
(* requested before it has left, and leaves when its task has settled.     *)
(* Every storage append, token, invite, session and device update of the   *)
(* server goes through this lock.                                          *)
(***************************************************************************)

CONSTANTS
    Calls,   \* the calls that may ever be made, each made at most once
    Keys     \* the keys that can be locked

VARIABLES
    key,     \* key[c]: the key call c locks
    phase,   \* phase[c]: how far call c has got
    ahead    \* ahead[c]: the calls of its key still owed a turn when c arrived

vars == <<key, phase, ahead>>

Phases == {"idle", "waiting", "holding", "released"}

Pending(k) == {c \in Calls : key[c] = k /\ phase[c] \in {"waiting", "holding"}}

Init ==
    /\ key \in [Calls -> Keys]
    /\ phase = [c \in Calls |-> "idle"]
    /\ ahead = [c \in Calls |-> {}]

Request(c) ==
    /\ phase[c] = "idle"
    /\ phase' = [phase EXCEPT ![c] = "waiting"]
    /\ ahead' = [ahead EXCEPT ![c] = Pending(key[c])]
    /\ UNCHANGED key

Enter(c) ==
    /\ phase[c] = "waiting"
    /\ \A d \in ahead[c] : phase[d] = "released"
    /\ phase' = [phase EXCEPT ![c] = "holding"]
    /\ UNCHANGED <<key, ahead>>

Leave(c) ==
    /\ phase[c] = "holding"
    /\ phase' = [phase EXCEPT ![c] = "released"]
    /\ UNCHANGED <<key, ahead>>

Next == \E c \in Calls : Request(c) \/ Enter(c) \/ Leave(c)

Spec == Init /\ [][Next]_vars

-----------------------------------------------------------------------------

TypeOK ==
    /\ key \in [Calls -> Keys]
    /\ phase \in [Calls -> Phases]
    /\ ahead \in [Calls -> SUBSET Calls]

\* Two calls that hold the same key are the same call.
Exclusive ==
    \A c, d \in Calls :
        key[c] = key[d] /\ phase[c] = "holding" /\ phase[d] = "holding" => c = d

\* Of two calls owed a turn on one key, one arrived while the other was there.
Ordered ==
    \A c, d \in Calls :
        key[c] = key[d] /\ c # d /\ {phase[c], phase[d]} \subseteq {"waiting", "holding"}
            => c \in ahead[d] \/ d \in ahead[c]

\* A call that got its turn has nobody left ahead of it.
TurnTaken ==
    \A c \in Calls :
        phase[c] = "holding" => \A d \in ahead[c] : phase[d] = "released"

IInv == TypeOK /\ Ordered /\ TurnTaken
=============================================================================

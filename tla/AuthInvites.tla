----------------------------- MODULE AuthInvites -----------------------------
(***************************************************************************)
(* server/src/auth: registering an account with an invite.  The invite     *)
(* counts its uses and failed attempts; a registration spends a use, then  *)
(* writes account, device and session one after the other, and gives the   *)
(* use back when the device cannot be added.  Every Valkey operation is a  *)
(* step; a request is at the label pc[r] of the operation it awaits, and   *)
(* who is inside a runExclusive lock follows from pc.  The operator's      *)
(* scripts (revokeInviteById, pruneInvites) run in a process of their own  *)
(* and take no lock.                                                       *)
(***************************************************************************)
EXTENDS Naturals, FiniteSets

CONSTANTS
    Requests,   \* POST /auth/register/verify, each made at most once
    Challenges, \* the registration challenges in the clients' cookies
    MaxUses,    \* invite.maxUses
    FailLimit,  \* FAILED_ATTEMPTS_LIMIT
    None        \* the absent challenge

VARIABLES
    invite,     \* the stored record [uses, failed], or the empty set of them
    expired,    \* the invite's expiresAt has passed
    challenges, \* the stored challenges
    accounts,   \* accounts[r]: what request r stored: "account", "listed", ...
    script,     \* the operator's script: "idle", "deleting", "done"
    pc,         \* pc[r]: the operation request r awaits, or its answer
    cookie,     \* cookie[r]: the challenge the request carries
    seen        \* seen[r]: the invite record request r has read

vars == <<invite, expired, challenges, accounts, script, pc, cookie, seen>>

Goto(r, label) == pc' = [pc EXCEPT ![r] = label]

\* How a request ends: answered 200; or with an error, after its use was given
\* back or its failure counted; or with a throw, after it spent a use or before.
Ended == {"done", "released", "counted", "refused", "stranded", "thrown"}

\* Between the use that was spent and its being given back.
Spending == {"account", "deviceList", "addDevice", "device", "session",
             "deleteAccount", "deleteList", "releaseGet", "releaseSet"}

InviteLocked == \E q \in Requests : pc[q] \in {"consumeSet", "failSet", "releaseSet"}

ChallengeLocked(c) == \E q \in Requests : pc[q] = "challengeDel" /\ cookie[q] = c

\* inviteStatus(record) = 'active'
Live(record) == ~expired /\ record.uses < MaxUses /\ record.failed < FailLimit

Init ==
    /\ invite = {[uses |-> 0, failed |-> 0]}
    /\ expired = FALSE
    /\ challenges = Challenges
    /\ accounts = [r \in Requests |-> "none"]
    /\ script = "idle"
    /\ pc = [r \in Requests |-> "idle"]
    /\ cookie = [r \in Requests |-> None]
    /\ seen = [r \in Requests |-> {}]

-----------------------------------------------------------------------------
(* postRegisterVerify                                                      *)

Begin(r) ==
    /\ pc[r] = "idle"
    /\ \E c \in Challenges : cookie' = [cookie EXCEPT ![r] = c]
    /\ Goto(r, "challengeGet")
    /\ UNCHANGED <<invite, expired, challenges, accounts, script, seen>>

\* consumeChallenge: a missing challenge is a failed attempt.
ChallengeGet(r) ==
    /\ pc[r] = "challengeGet"
    /\ ~ChallengeLocked(cookie[r])
    /\ Goto(r, IF cookie[r] \in challenges THEN "challengeDel" ELSE "failGet")
    /\ UNCHANGED <<invite, expired, challenges, accounts, script, cookie, seen>>

\* The ceremony then verifies, or not.
ChallengeDel(r) ==
    /\ pc[r] = "challengeDel"
    /\ challenges' = challenges \ {cookie[r]}
    /\ \E label \in {"consumeGet", "failGet"} : Goto(r, label)
    /\ UNCHANGED <<invite, expired, accounts, script, cookie, seen>>

\* consumeInvite: a live invite is written back with one more use.
ConsumeGet(r) ==
    /\ pc[r] = "consumeGet"
    /\ ~InviteLocked
    /\ Goto(r, IF \E record \in invite : Live(record) THEN "consumeSet" ELSE "failGet")
    /\ seen' = [seen EXCEPT ![r] = invite]
    /\ UNCHANGED <<invite, expired, challenges, accounts, script, cookie>>

\* SET with the rest of the lifetime, which Valkey rejects once it is 0.
WriteInvite(written) == ~expired /\ invite' = written

ConsumeSet(r) ==
    /\ pc[r] = "consumeSet"
    /\ WriteInvite({[record EXCEPT !.uses = @ + 1] : record \in seen[r]})
    /\ Goto(r, "account")
    /\ UNCHANGED <<expired, challenges, accounts, script, cookie, seen>>

\* createAccount writes the account and its empty device list.
CreateAccount(r) ==
    /\ pc[r] = "account"
    /\ accounts' = [accounts EXCEPT ![r] = "account"]
    /\ Goto(r, "deviceList")
    /\ UNCHANGED <<invite, expired, challenges, script, cookie, seen>>

CreateDeviceList(r) ==
    /\ pc[r] = "deviceList"
    /\ Goto(r, "addDevice")
    /\ UNCHANGED <<invite, expired, challenges, accounts, script, cookie, seen>>

\* addDeviceToAccount: listed, or an error (the limit, an unreadable account).
AddDevice(r) ==
    /\ pc[r] = "addDevice"
    /\ \/ Goto(r, "device") /\ accounts' = [accounts EXCEPT ![r] = "listed"]
       \/ Goto(r, "deleteAccount") /\ UNCHANGED accounts
    /\ UNCHANGED <<invite, expired, challenges, script, cookie, seen>>

StoreDevice(r) ==
    /\ pc[r] = "device"
    /\ accounts' = [accounts EXCEPT ![r] = "stored"]
    /\ Goto(r, "session")
    /\ UNCHANGED <<invite, expired, challenges, script, cookie, seen>>

IssueSession(r) ==
    /\ pc[r] = "session"
    /\ Goto(r, "done")
    /\ UNCHANGED <<invite, expired, challenges, accounts, script, cookie, seen>>

-----------------------------------------------------------------------------
(* What a registration that cannot go on undoes and records.               *)

DeleteAccount(r) ==
    /\ pc[r] = "deleteAccount"
    /\ accounts' = [accounts EXCEPT ![r] = "none"]
    /\ Goto(r, "deleteList")
    /\ UNCHANGED <<invite, expired, challenges, script, cookie, seen>>

DeleteDeviceList(r) ==
    /\ pc[r] = "deleteList"
    /\ Goto(r, "releaseGet")
    /\ UNCHANGED <<invite, expired, challenges, accounts, script, cookie, seen>>

\* Mutant: releaseInvite does not take the invite's lock.
ReleaseGet_NoLock(r) ==
    /\ pc[r] = "releaseGet"
    /\ seen' = [seen EXCEPT ![r] = invite]
    /\ Goto(r, IF invite # {} /\ ~expired THEN "releaseSet" ELSE "released")
    /\ UNCHANGED <<invite, expired, challenges, accounts, script, cookie>>

\* releaseInvite gives the use back.
ReleaseGet(r) ==
    /\ pc[r] = "releaseGet"
    /\ ~InviteLocked
    /\ seen' = [seen EXCEPT ![r] = invite]
    /\ Goto(r, IF invite # {} /\ ~expired THEN "releaseSet" ELSE "released")
    /\ UNCHANGED <<invite, expired, challenges, accounts, script, cookie>>

ReleaseSet(r) ==
    /\ pc[r] = "releaseSet"
    /\ WriteInvite({[record EXCEPT !.uses = IF @ = 0 THEN 0 ELSE @ - 1] : record \in seen[r]})
    /\ Goto(r, "released")
    /\ UNCHANGED <<expired, challenges, accounts, script, cookie, seen>>

\* recordInviteFailure counts a failed attempt on an invite that still lives.
FailGet(r) ==
    /\ pc[r] = "failGet"
    /\ ~InviteLocked
    /\ seen' = [seen EXCEPT ![r] = invite]
    /\ Goto(r, IF invite # {} /\ ~expired THEN "failSet" ELSE "refused")
    /\ UNCHANGED <<invite, expired, challenges, accounts, script, cookie>>

FailSet(r) ==
    /\ pc[r] = "failSet"
    /\ WriteInvite({[record EXCEPT !.failed = @ + 1] : record \in seen[r]})
    /\ Goto(r, "counted")
    /\ UNCHANGED <<expired, challenges, accounts, script, cookie, seen>>

\* A Valkey operation rejects: the handler throws, and nothing undoes its work.
Throw(r) ==
    /\ pc[r] \notin Ended \cup {"idle"}
    /\ Goto(r, IF pc[r] \in Spending THEN "stranded" ELSE "thrown")
    /\ UNCHANGED <<invite, expired, challenges, accounts, script, cookie, seen>>

-----------------------------------------------------------------------------
(* Time and the operator.                                                  *)

Expire ==
    /\ ~expired
    /\ expired' = TRUE
    /\ UNCHANGED <<invite, challenges, accounts, script, pc, cookie, seen>>

\* revokeInviteById reads the record, pruneInvites finds it dead ...
ScriptGet ==
    /\ script = "idle" /\ invite # {}
    /\ script' = "deleting"
    /\ UNCHANGED <<invite, expired, challenges, accounts, pc, cookie, seen>>

\* ... and the key is deleted.
ScriptDel ==
    /\ script = "deleting"
    /\ invite' = {}
    /\ script' = "done"
    /\ UNCHANGED <<expired, challenges, accounts, pc, cookie, seen>>

Register(r) ==
    \/ Begin(r) \/ ChallengeGet(r) \/ ChallengeDel(r) \/ ConsumeGet(r) \/ ConsumeSet(r)
    \/ CreateAccount(r) \/ CreateDeviceList(r) \/ AddDevice(r) \/ StoreDevice(r)
    \/ IssueSession(r)

Undo(r) ==
    \/ DeleteAccount(r) \/ DeleteDeviceList(r) \/ ReleaseGet(r) \/ ReleaseSet(r)
    \/ FailGet(r) \/ FailSet(r) \/ Throw(r)

Next == (\E r \in Requests : Register(r) \/ Undo(r)) \/ Expire \/ ScriptGet \/ ScriptDel

Spec == Init /\ [][Next]_vars

-----------------------------------------------------------------------------

TypeOK ==
    /\ invite \subseteq [uses : Nat, failed : Nat] /\ Cardinality(invite) <= 1
    /\ expired \in BOOLEAN
    /\ challenges \subseteq Challenges
    /\ accounts \in [Requests -> {"none", "account", "listed", "stored"}]
    /\ script \in {"idle", "deleting", "done"}
    /\ pc \in [Requests -> {"idle", "challengeGet", "challengeDel", "consumeGet", "consumeSet",
                            "failGet", "failSet"} \cup Spending \cup Ended]
    /\ cookie \in [Requests -> Challenges \cup {None}]
    /\ \A r \in Requests : seen[r] \subseteq [uses : Nat, failed : Nat]

At(labels) == Cardinality({r \in Requests : pc[r] \in labels})

\* The record is exact and bounds what it admits: a use that is spent, given
\* back, or rewritten with a failure count is never lost or counted twice,
\* whatever overlaps (invites.ts:104-168), nor is a failed attempt, on which
\* the lock-out depends; and no more than maxUses registrations are admitted,
\* also when one of them is rolled back or the record is deleted by a script.
CountsAreExact ==
    /\ TypeOK
    /\ \A record \in invite :
           /\ ~expired => record.uses = At(Spending \cup {"done", "stranded"})
           /\ record.failed = At({"counted"})
    /\ At(Spending \cup {"done"}) <= MaxUses
=============================================================================

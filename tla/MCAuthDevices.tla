---------------------------- MODULE MCAuthDevices ----------------------------
(***************************************************************************)
(* Three overlapping requests on one account.                              *)
(***************************************************************************)
EXTENDS AuthDevices, TLC

CONSTANTS v1, v2

Both == {v1, v2}

\* Revocation and logout against requests that use, refresh or start sessions.
RevokeScenarios ==
    {[operations |-> {"check", "login", "revoke"}, veterans |-> Both],
     [operations |-> {"mint", "revoke"}, veterans |-> Both],
     [operations |-> {"check", "logout"}, veterans |-> Both]}

\* Devices that join and are approved or denied while others join.
JoinScenarios ==
    {[operations |-> {"register", "approve", "deny", "claim"}, veterans |-> {v}] : v \in Both}

AllScenarios == RevokeScenarios \cup JoinScenarios

\* Two owners who revoke each other.
TwoRevocations == {[operations |-> {"revoke"}, veterans |-> Both]}

\* One owner approves what the other denies.
ApproveOrDeny == {[operations |-> {"approve", "deny"}, veterans |-> {v}] : v \in Both}

\* Requests are interchangeable, and so are the newcomers and (every scenario
\* being closed under their exchange) the veterans; no liveness is checked here.
Interchangeable == Permutations(Requests) \cup Permutations(Newcomers) \cup Permutations(Veterans)
=============================================================================

-------------------------- MODULE Recovery_proofs --------------------------
(***************************************************************************)
(* The access rules of the recovery stack, for any number of requests,     *)
(* upgrades and widgets: on their own, and composed with the browser       *)
(* service, which only ever takes steps that the stack allows.  And the    *)
(* counts of an invite (AuthInvites), for any number of registrations.     *)
(***************************************************************************)
EXTENDS MCAccess, FiniteSetTheorems, TLAPS

\* Initially nobody holds a token or a tunnel.
LEMMA AccessInitial == AccessInit => AccessInv
  BY RecoveryAssumption
     DEF AccessInit, AccessInv, OneTunnel, AccessTypeOK, Tunnel, TokenUsedOnce,
         OneLiveToken, RevokedStaysOut, TokensAreIssued, Issued, TunnelsEntered

\* A request that is asked, refused, or whose token expires disturbs nothing:
\* tokens only leave the store and no request stops being issued.
LEMMA RequestKeepsInv ==
  ASSUME AccessInv, NEW i \in Requests, Ask(i) \/ NoPage(i) \/ Expire(i)
  PROVE  AccessInv'
<1> USE DEF AccessInv
<1>1. OneTunnel' /\ TokenUsedOnce' /\ OneLiveToken' /\ RevokedStaysOut'
  BY DEF OneTunnel, AccessTypeOK, Tunnel, Ask, NoPage, Expire, TokenUsedOnce,
         OneLiveToken, RevokedStaysOut
<1>2. TokensAreIssued' /\ TunnelsEntered'
  BY DEF OneTunnel, AccessTypeOK, Tunnel, Ask, NoPage, Expire, TokensAreIssued,
         Issued, TunnelsEntered
<1> QED BY <1>1, <1>2

\* A new token is nobody's yet and replaces the widget's earlier one.
LEMMA IssueKeepsInv ==
  ASSUME AccessInv, NEW i \in Requests, Issue(i)
  PROVE  AccessInv'
<1> USE DEF AccessInv
<1>1. i \notin Issued
  BY DEF Issue, Issued
<1>2. OneTunnel' /\ TokenUsedOnce'
  BY DEF OneTunnel, AccessTypeOK, Tunnel, Issue, TokenUsedOnce
<1>3. OneLiveToken'
  BY DEF OneTunnel, AccessTypeOK, Issue, OneLiveToken, TokensOf
<1>4. TokensAreIssued'
  BY DEF OneTunnel, AccessTypeOK, Issue, TokensAreIssued, Issued
<1>5. RevokedStaysOut'
  BY <1>1 DEF Tunnel, Issue, RevokedStaysOut, TokensAreIssued
<1>6. TunnelsEntered'
  BY <1>1 DEF OneTunnel, AccessTypeOK, Tunnel, Issue, TokensAreIssued, TunnelsEntered
<1> QED BY <1>2, <1>3, <1>4, <1>5, <1>6

\* An upgrade that waits for its session, is refused or gets connected opens
\* no tunnel.
LEMMA WaitingKeepsInv ==
  ASSUME AccessInv, NEW k \in Sockets, Upgrade(k) \/ Refuse(k) \/ Connect(k)
  PROVE  AccessInv'
<1> USE DEF AccessInv
<1>1. OneTunnel'
  BY DEF OneTunnel, AccessTypeOK, Tunnel, Issued, Upgrade, Refuse, Connect
<1>2. TokenUsedOnce' /\ OneLiveToken'
  BY DEF OneTunnel, AccessTypeOK, Issued, Upgrade, Refuse, Connect, TokenUsedOnce,
         OneLiveToken, TunnelsEntered
<1>3. RevokedStaysOut' /\ TunnelsEntered'
  BY DEF OneTunnel, AccessTypeOK, Tunnel, Issued, Upgrade, Refuse, Connect,
         RevokedStaysOut, TunnelsEntered
<1>4. TokensAreIssued'
  BY DEF OneTunnel, AccessTypeOK, Issued, Upgrade, Refuse, Connect, TokensAreIssued
<1> QED BY <1>1, <1>2, <1>3, <1>4

\* The accepted upgrade takes its token out of the store: no earlier tunnel
\* had it, and no later one will.
LEMMA AcceptKeepsInv ==
  ASSUME AccessInv, NEW k \in Sockets, Accept(k)
  PROVE  AccessInv'
<1> USE DEF AccessInv
<1>1. OneTunnel'
  BY RecoveryAssumption DEF OneTunnel, AccessTypeOK, Tunnel, Accept
<1>2. TokenUsedOnce'
  BY DEF Accept, TokenUsedOnce, TunnelsEntered
<1>3. OneLiveToken' /\ TokensAreIssued'
  BY DEF OneTunnel, AccessTypeOK, Accept, OneLiveToken, TokensAreIssued, Issued
<1>4. RevokedStaysOut' /\ TunnelsEntered'
  BY DEF OneTunnel, AccessTypeOK, Tunnel, Accept, RevokedStaysOut, TunnelsEntered
<1> QED BY <1>1, <1>2, <1>3, <1>4

\* A socket that goes away takes along the store's connection only if that is
\* the socket's own.
LEMMA ClosingKeepsInv ==
  ASSUME AccessInv, NEW k \in Sockets, Teardown(k) \/ CloseEvent(k)
  PROVE  AccessInv'
<1> USE DEF AccessInv
<1>1. OneTunnel'
  BY RecoveryAssumption DEF OneTunnel, AccessTypeOK, Tunnel, Teardown, CloseEvent, Detach
<1>2. TokenUsedOnce' /\ OneLiveToken'
  BY DEF Teardown, CloseEvent, TokenUsedOnce, OneLiveToken
<1>3. RevokedStaysOut' /\ TokensAreIssued' /\ TunnelsEntered'
  BY DEF OneTunnel, AccessTypeOK, Tunnel, Issued, Teardown, CloseEvent,
         RevokedStaysOut, TokensAreIssued, TunnelsEntered
<1> QED BY <1>1, <1>2, <1>3

\* A revocation finds the only tunnel there can be, and every unused token.
LEMMA RevokeKeepsInv ==
  ASSUME AccessInv, RevokeAll \/ \E w \in Widgets : Revoke(w)
  PROVE  AccessInv'
<1> USE DEF AccessInv
<1>1. OneTunnel'
  BY RecoveryAssumption DEF OneTunnel, AccessTypeOK, Tunnel, Revoke, RevokeAll, Destroy, Issued
<1>2. TokenUsedOnce' /\ OneLiveToken'
  BY DEF Revoke, RevokeAll, TokenUsedOnce, OneLiveToken
<1>3. TokensAreIssued' /\ TunnelsEntered'
  BY RecoveryAssumption
     DEF OneTunnel, AccessTypeOK, Tunnel, Revoke, RevokeAll, Destroy, Issued,
         TokensAreIssued, TunnelsEntered
<1>4. RevokedStaysOut'
  <2>1. CASE RevokeAll
    BY <2>1, RecoveryAssumption
       DEF OneTunnel, AccessTypeOK, Tunnel, RevokeAll, Destroy, RevokedStaysOut
  <2>2. ASSUME NEW w \in Widgets, Revoke(w)
        PROVE  RevokedStaysOut'
    BY <2>2, RecoveryAssumption
       DEF OneTunnel, AccessTypeOK, Tunnel, Revoke, Destroy, TokensOf, RevokedStaysOut
  <2> QED BY <2>1, <2>2
<1> QED BY <1>1, <1>2, <1>3, <1>4

\* Every step of the recovery stack keeps its invariant.
LEMMA AccessInductive == AccessInv /\ [AccessStep]_accessVars => AccessInv'
<1> SUFFICES ASSUME AccessInv, [AccessStep]_accessVars
             PROVE  AccessInv'
  OBVIOUS
<1>1. CASE UNCHANGED accessVars
  BY <1>1 DEF accessVars, AccessInv, OneTunnel, AccessTypeOK, Tunnel, TokenUsedOnce,
              OneLiveToken, RevokedStaysOut, TokensAreIssued, Issued, TunnelsEntered
<1>2. CASE AccessStep
  BY <1>2, RequestKeepsInv, IssueKeepsInv, WaitingKeepsInv, AcceptKeepsInv,
     ClosingKeepsInv, RevokeKeepsInv DEF AccessStep
<1> QED BY <1>1, <1>2

\* The recovery stack keeps its invariant whatever the service answers.
THEOREM AccessInvariant == AccessSpec => []AccessInv
  BY AccessInitial, AccessInductive, PTL DEF AccessSpec

\* Sending a task, its arrival, the service's answers and its own steps are,
\* for the recovery stack, steps of its own or none.
LEMMA ComposedStep == [Next]_vars => [AccessStep]_accessVars
<1> SUFFICES ASSUME [Next]_vars PROVE [AccessStep]_accessVars
  OBVIOUS
<1>1. ASSUME NEW t \in Tasks, Send(t) PROVE AccessStep
  BY <1>1, ComposedAssumption DEF Send, AccessStep
<1>2. ASSUME NEW t \in Tasks, Arrive(t) PROVE UNCHANGED accessVars
  BY <1>2 DEF Arrive
<1>3. ASSUME NEW i \in Requests, Inspect(i) PROVE UNCHANGED accessVars
  BY <1>3 DEF Inspect
<1>4. ASSUME NEW i \in Requests, Answered(i) PROVE AccessStep
  BY <1>4 DEF Answered, AccessStep
<1>5. CASE ServerStep
  BY <1>5 DEF ServerStep, AccessStep
<1>6. CASE BrowserStep
  BY <1>6 DEF BrowserStep
<1>7. CASE UNCHANGED vars
  BY <1>7 DEF vars
<1> QED BY <1>1, <1>2, <1>3, <1>4, <1>5, <1>6, <1>7 DEF Next

\* Composed with the browser service, the recovery stack is still itself.
THEOREM ComposedImplementsAccess == Spec => AccessSpec
<1>1. Init => AccessInit
  BY DEF Init
<1> QED BY <1>1, ComposedStep, PTL DEF Spec, AccessSpec

\* At most one tunnel, and one the store can revoke (tunnel.ts, capability.ts).
THEOREM TunnelIsTheStores == Spec => []OneTunnel
<1>1. AccessInv => OneTunnel
  BY DEF AccessInv
<1> QED BY <1>1, ComposedImplementsAccess, AccessInvariant, PTL

\* A recovery token opens one tunnel, and a widget has one token at a time.
THEOREM TokensAreSingleUse == Spec => [](TokenUsedOnce /\ OneLiveToken)
<1>1. AccessInv => TokenUsedOnce /\ OneLiveToken
  BY DEF AccessInv
<1> QED BY <1>1, ComposedImplementsAccess, AccessInvariant, PTL

\* Nothing issued before a task was sent opens a tunnel after it.
THEOREM RevocationHolds == Spec => []RevokedStaysOut
<1>1. AccessInv => RevokedStaysOut
  BY DEF AccessInv
<1> QED BY <1>1, ComposedImplementsAccess, AccessInvariant, PTL
-----------------------------------------------------------------------------
(* The invite: which registrations its two counts stand for.               *)

Among(labels) == {r \in Registrations : pc[r] \in labels}

\* Inside the invite's lock, with a record that was read there.
SetSteps == {"consumeSet", "failSet", "releaseSet"}
Spent == Invites!Spending \cup {"done", "stranded"}

Records == [uses : Nat, failed : Nat]
OneAtMost(S) == S = {} \/ \E record \in Records : S = {record}

InvitesTyped ==
    /\ OneAtMost(invite)
    /\ expired \in BOOLEAN
    /\ challenges \subseteq Challenges
    /\ accounts \in [Registrations -> {"none", "account", "listed", "stored"}]
    /\ script \in {"idle", "deleting", "done"}
    /\ pc \in [Registrations ->
                 {"idle", "challengeGet", "challengeDel", "consumeGet", "consumeSet",
                  "failGet", "failSet"} \cup Invites!Spending \cup Invites!Ended]
    /\ cookie \in [Registrations -> Challenges \cup {None}]
    /\ seen \in [Registrations -> SUBSET Records]

\* A record that says what happened: its uses while it can still be written.
Exact(record) ==
    /\ ~expired => record.uses = Cardinality(Among(Spent))
    /\ record.failed = Cardinality(Among({"counted"}))

\* The lock has one holder, and what the holder has read is as exact as what
\* is stored: nobody else moves a count while it writes.
LockHolds ==
    /\ \A q, r \in Among(SetSteps) : q = r
    /\ \A r \in Among(SetSteps) :
           OneAtMost(seen[r]) /\ \A record \in seen[r] : Exact(record)
    /\ \A r \in Among({"consumeSet"}) : \E record \in seen[r] : record.uses < MaxUses

InvitesInv ==
    /\ InvitesTyped
    /\ IsFiniteSet({r \in Registrations : pc[r] # "idle"})
    /\ LockHolds
    /\ \A record \in invite : Exact(record)
    /\ Cardinality(Among(Spent)) <= MaxUses

\* The counting operators of the instance are those of FiniteSets.
LEMMA SameCount == \A S : Invites!Cardinality(S) = Cardinality(S)
  BY DEF Invites!Cardinality, Cardinality, Invites!IsFiniteSet, IsFiniteSet

\* A request that moves joins the requests at its new label.
LEMMA Moves ==
  ASSUME InvitesTyped, NEW r \in Registrations, NEW label, Invites!Goto(r, label),
         NEW labels
  PROVE  Among(labels)' = IF label \in labels THEN Among(labels) \cup {r}
                                             ELSE Among(labels) \ {r}
  BY DEF InvitesTyped, Invites!Goto, Among

\* Only finitely many requests have begun, so those that count are finite.
LEMMA BegunAreFinite ==
  ASSUME InvitesInv, NEW labels, "idle" \notin labels
  PROVE  /\ IsFiniteSet(Among(labels))
         /\ Cardinality(Among(labels)) \in Nat
<1>1. Among(labels) \in SUBSET {r \in Registrations : pc[r] # "idle"}
  BY DEF Among
<1> QED BY <1>1, FS_Subset, FS_CardinalityType DEF InvitesInv

LEMMA BegunStayFinite ==
  ASSUME InvitesInv, NEW r \in Registrations, NEW label, Invites!Goto(r, label)
  PROVE  IsFiniteSet({q \in Registrations : pc[q] # "idle"})'
<1> DEFINE begun == {q \in Registrations : pc[q] # "idle"}
<1>1. IsFiniteSet(begun \cup {r})
  BY FS_AddElement DEF InvitesInv
<1>2. begun' \in SUBSET (begun \cup {r})
  BY DEF InvitesInv, InvitesTyped, Invites!Goto
<1> QED BY <1>1, <1>2, FS_Subset

\* A count changes by the request that joins or leaves it.
LEMMA CountMoves ==
  ASSUME InvitesInv, NEW r \in Registrations, NEW label, Invites!Goto(r, label),
         NEW labels, "idle" \notin labels
  PROVE  Cardinality(Among(labels)') =
           IF label \in labels
           THEN IF pc[r] \in labels THEN Cardinality(Among(labels))
                ELSE Cardinality(Among(labels)) + 1
           ELSE IF pc[r] \in labels THEN Cardinality(Among(labels)) - 1
                ELSE Cardinality(Among(labels))
<1>1. /\ IsFiniteSet(Among(labels))
      /\ r \in Among(labels) <=> pc[r] \in labels
  BY BegunAreFinite DEF Among
<1>2. Among(labels)' = IF label \in labels THEN Among(labels) \cup {r}
                                           ELSE Among(labels) \ {r}
  BY Moves DEF InvitesInv
<1>3. CASE label \in labels
  BY <1>1, <1>2, <1>3, FS_AddElement
<1>4. CASE label \notin labels
  BY <1>1, <1>2, <1>4, FS_RemoveElement
<1> QED BY <1>3, <1>4

\* Everything but the types, which each action keeps by itself.
Kept ==
    /\ IsFiniteSet({r \in Registrations : pc[r] # "idle"})
    /\ LockHolds
    /\ \A record \in invite : Exact(record)
    /\ Cardinality(Among(Spent)) <= MaxUses

\* A step that takes no lock, writes no record and moves no count.
LEMMA CountlessKeeps ==
  ASSUME InvitesInv, NEW r \in Registrations, NEW label, Invites!Goto(r, label),
         UNCHANGED <<invite, expired, seen>>,
         label \notin SetSteps, label \in Spent <=> pc[r] \in Spent,
         pc[r] # "counted", label # "counted"
  PROVE  Kept'
<1>1. /\ Cardinality(Among(Spent))' = Cardinality(Among(Spent))
      /\ Cardinality(Among({"counted"}))' = Cardinality(Among({"counted"}))
  <2>1. "idle" \notin Spent /\ "idle" \notin {"counted"}
    BY DEF Spent, Invites!Spending
  <2> QED BY <2>1, CountMoves
<1>2. /\ Among(SetSteps)' \subseteq Among(SetSteps)
      /\ Among({"consumeSet"})' \subseteq Among({"consumeSet"})
  <2>1. label \notin {"consumeSet"}
    BY DEF SetSteps
  <2> QED BY <2>1, Moves DEF InvitesInv
<1>3. \A record : Exact(record)' <=> Exact(record)
  BY <1>1 DEF Exact
<1>4. LockHolds'
  BY <1>2, <1>3 DEF LockHolds, InvitesInv
<1>5. \A record \in invite' : Exact(record)'
  BY <1>3 DEF InvitesInv
<1> QED BY <1>1, <1>4, <1>5, BegunStayFinite DEF Kept, InvitesInv

\* A step under the lock that reads the record: nobody else is inside.
LEMMA ReadingKeeps ==
  ASSUME InvitesInv, NEW r \in Registrations, NEW label, Invites!Goto(r, label),
         ~Invites!InviteLocked, UNCHANGED <<invite, expired>>,
         seen' = [seen EXCEPT ![r] = invite],
         pc[r] # "counted", label # "counted",
         \/ label \in Spent <=> pc[r] \in Spent
         \/ pc[r] \in Spent /\ (invite = {} \/ expired),
         label \in Spent => pc[r] \in Spent,
         label = "consumeSet" => \E record \in invite : record.uses < MaxUses
  PROVE  Kept'
<1>0. "idle" \notin Spent /\ "idle" \notin {"counted"}
  BY DEF Spent, Invites!Spending
<1>1. /\ Cardinality(Among(Spent)) \in Nat
      /\ Cardinality(Among(Spent))' \in {Cardinality(Among(Spent)), Cardinality(Among(Spent)) - 1}
      /\ \/ Cardinality(Among(Spent))' = Cardinality(Among(Spent))
         \/ invite = {} \/ expired
      /\ Cardinality(Among({"counted"}))' = Cardinality(Among({"counted"}))
  BY <1>0, CountMoves, BegunAreFinite
<1>2. /\ Among(SetSteps)' \subseteq {r}
      /\ Among({"consumeSet"})' \subseteq {r}
      /\ r \in Among({"consumeSet"})' => label = "consumeSet"
  BY DEF Invites!InviteLocked, Invites!Goto, InvitesInv, InvitesTyped, Among, SetSteps
<1>3. \A record \in invite : Exact(record)'
  BY <1>1 DEF Exact, InvitesInv
<1>4. seen'[r] = invite /\ OneAtMost(invite)
  BY DEF InvitesInv, InvitesTyped
<1>5. LockHolds'
  BY <1>2, <1>3, <1>4 DEF LockHolds, OneAtMost
<1>6. Cardinality(Among(Spent))' <= MaxUses
  BY <1>1, UsesAssumption DEF InvitesInv
<1> QED BY <1>3, <1>5, <1>6, BegunStayFinite DEF Kept
\* A step under the lock that writes the record back: what it has read is
\* still exact, so what it writes is.
LEMMA WritingKeeps ==
  ASSUME InvitesInv, NEW r \in Registrations, NEW label, Invites!Goto(r, label),
         pc[r] \in SetSteps, label \notin SetSteps, UNCHANGED <<expired, seen>>,
         \A record \in invite' : Exact(record)',
         Cardinality(Among(Spent))' <= MaxUses
  PROVE  Kept'
<1>1. Among(SetSteps)' = {}
  BY DEF Invites!Goto, InvitesInv, InvitesTyped, LockHolds, Among
<1>2. Among({"consumeSet"})' = {}
  BY <1>1 DEF Among, SetSteps
<1> QED BY <1>1, <1>2, BegunStayFinite DEF Kept, LockHolds

\* consumeInvite's write: one more use, within maxUses.
LEMMA ConsumeSetKeeps ==
  ASSUME InvitesInv, NEW r \in Registrations, Invites!ConsumeSet(r)
  PROVE  InvitesInv'
<1>0. /\ pc[r] = "consumeSet" /\ ~expired /\ Invites!Goto(r, "account")
      /\ invite' = {[record EXCEPT !.uses = @ + 1] : record \in seen[r]}
      /\ UNCHANGED <<expired, challenges, accounts, script, cookie, seen>>
  BY DEF Invites!ConsumeSet, Invites!WriteInvite
<1>1. /\ pc[r] \in SetSteps /\ "account" \in Spent /\ "account" \notin SetSteps
      /\ pc[r] \notin Spent /\ "idle" \notin Spent
  BY <1>0 DEF SetSteps, Spent, Invites!Spending
<1>2. /\ Cardinality(Among(Spent))' = Cardinality(Among(Spent)) + 1
      /\ Cardinality(Among({"counted"}))' = Cardinality(Among({"counted"}))
      /\ Cardinality(Among(Spent)) \in Nat
  BY <1>0, <1>1, CountMoves, BegunAreFinite
<1>3. PICK record \in Records : seen[r] = {record}
  BY <1>0 DEF InvitesInv, LockHolds, Among, SetSteps, OneAtMost
<1>4. Exact(record) /\ record.uses < MaxUses
  BY <1>0, <1>3 DEF InvitesInv, LockHolds, Among, SetSteps
<1>5. invite' = {[record EXCEPT !.uses = @ + 1]}
  BY <1>0, <1>3
<1>6. [record EXCEPT !.uses = @ + 1] \in Records
  BY DEF Records
<1>7. Exact([record EXCEPT !.uses = @ + 1])'
  BY <1>0, <1>2, <1>4 DEF Exact, Records
<1>8. Cardinality(Among(Spent))' <= MaxUses
  BY <1>0, <1>2, <1>4, UsesAssumption DEF Exact, Records
<1>9. InvitesTyped'
  BY <1>0, <1>5, <1>6
     DEF InvitesInv, InvitesTyped, OneAtMost, Invites!Goto, Invites!Spending
<1> QED BY <1>0, <1>1, <1>5, <1>7, <1>8, <1>9, WritingKeeps DEF InvitesInv, Kept

\* releaseInvite's write: one use fewer.
LEMMA ReleaseSetKeeps ==
  ASSUME InvitesInv, NEW r \in Registrations, Invites!ReleaseSet(r)
  PROVE  InvitesInv'
<1> DEFINE given(record) == [record EXCEPT !.uses = IF @ = 0 THEN 0 ELSE @ - 1]
<1>0. /\ pc[r] = "releaseSet" /\ ~expired /\ Invites!Goto(r, "released")
      /\ invite' = {given(record) : record \in seen[r]}
      /\ UNCHANGED <<expired, challenges, accounts, script, cookie, seen>>
  BY DEF Invites!ReleaseSet, Invites!WriteInvite
<1>1. /\ pc[r] \in SetSteps /\ "released" \notin Spent /\ "released" \notin SetSteps
      /\ pc[r] \in Spent /\ "idle" \notin Spent
  BY <1>0 DEF SetSteps, Spent, Invites!Spending
<1>2. /\ Cardinality(Among(Spent))' = Cardinality(Among(Spent)) - 1
      /\ Cardinality(Among({"counted"}))' = Cardinality(Among({"counted"}))
      /\ Cardinality(Among(Spent)) \in Nat
  BY <1>0, <1>1, CountMoves, BegunAreFinite
<1>3. Cardinality(Among(Spent))' \in Nat
  <2>1. /\ IsFiniteSet(Among(Spent)) /\ r \in Among(Spent)
    BY <1>1, BegunAreFinite DEF Among
  <2> QED BY <1>2, <2>1, FS_EmptySet
<1>4. seen[r] = {} \/ \E record \in Records : seen[r] = {record}
  BY <1>0 DEF InvitesInv, LockHolds, Among, SetSteps, OneAtMost
<1>5. ASSUME NEW record \in Records, seen[r] = {record}
      PROVE  /\ invite' = {given(record)} /\ given(record) \in Records
             /\ Exact(given(record))'
  <2>1. Exact(record)
    BY <1>0, <1>5 DEF InvitesInv, LockHolds, Among, SetSteps
  <2>2. record.uses # 0
    BY <1>0, <1>2, <1>3, <2>1 DEF Exact
  <2>3. given(record) = [record EXCEPT !.uses = @ - 1]
    BY <2>2 DEF Records
  <2> QED BY <1>0, <1>2, <1>3, <1>5, <2>1, <2>3 DEF Exact, Records
<1> HIDE DEF given
<1>6. OneAtMost(invite') /\ \A record \in invite' : Exact(record)'
  <2>1. CASE seen[r] = {}
    BY <1>0, <2>1 DEF OneAtMost
  <2>2. ASSUME NEW record \in Records, seen[r] = {record}
        PROVE  OneAtMost(invite') /\ \A written \in invite' : Exact(written)'
    BY <1>5, <2>2 DEF OneAtMost
  <2> QED BY <1>4, <2>1, <2>2
<1>7. Cardinality(Among(Spent))' <= MaxUses
  BY <1>2, UsesAssumption DEF InvitesInv
<1>8. InvitesTyped'
  BY <1>0, <1>6 DEF InvitesInv, InvitesTyped, OneAtMost, Invites!Goto, Invites!Ended
<1> QED BY <1>0, <1>1, <1>6, <1>7, <1>8, WritingKeeps DEF InvitesInv, Kept

\* recordInviteFailure's write: one more failure, and the same uses.
LEMMA FailSetKeeps ==
  ASSUME InvitesInv, NEW r \in Registrations, Invites!FailSet(r)
  PROVE  InvitesInv'
<1> DEFINE failed(record) == [record EXCEPT !.failed = @ + 1]
<1>0. /\ pc[r] = "failSet" /\ ~expired /\ Invites!Goto(r, "counted")
      /\ invite' = {failed(record) : record \in seen[r]}
      /\ UNCHANGED <<expired, challenges, accounts, script, cookie, seen>>
  BY DEF Invites!FailSet, Invites!WriteInvite
<1>1. /\ pc[r] \in SetSteps /\ "counted" \notin Spent /\ "counted" \notin SetSteps
      /\ pc[r] \notin Spent /\ "idle" \notin Spent
  BY <1>0 DEF SetSteps, Spent, Invites!Spending
<1>2. /\ Cardinality(Among(Spent))' = Cardinality(Among(Spent))
      /\ Cardinality(Among({"counted"}))' = Cardinality(Among({"counted"})) + 1
      /\ Cardinality(Among({"counted"})) \in Nat
  BY <1>0, <1>1, CountMoves, BegunAreFinite
<1>3. seen[r] = {} \/ \E record \in Records : seen[r] = {record}
  BY <1>0 DEF InvitesInv, LockHolds, Among, SetSteps, OneAtMost
<1>4. ASSUME NEW record \in Records, seen[r] = {record}
      PROVE  /\ invite' = {failed(record)} /\ failed(record) \in Records
             /\ Exact(failed(record))'
  <2>1. Exact(record)
    BY <1>0, <1>4 DEF InvitesInv, LockHolds, Among, SetSteps
  <2> QED BY <1>0, <1>2, <1>4, <2>1 DEF Exact, Records
<1>5. OneAtMost(invite') /\ \A record \in invite' : Exact(record)'
  BY <1>0, <1>3, <1>4 DEF OneAtMost
<1>6. InvitesTyped'
  BY <1>0, <1>5 DEF InvitesInv, InvitesTyped, OneAtMost, Invites!Goto, Invites!Ended
<1> QED BY <1>0, <1>1, <1>2, <1>5, <1>6, WritingKeeps DEF InvitesInv, Kept

\* What a registration reads under the invite's lock.
LEMMA GetKeeps ==
  ASSUME InvitesInv, NEW r \in Registrations,
         Invites!ConsumeGet(r) \/ Invites!ReleaseGet(r) \/ Invites!FailGet(r)
  PROVE  InvitesInv'
<1> DEFINE label == pc'[r]
<1>1. InvitesTyped' /\ Invites!Goto(r, label)
  BY DEF InvitesInv, InvitesTyped, OneAtMost, Records, Invites!ConsumeGet, Invites!ReleaseGet,
         Invites!FailGet, Invites!Goto, Invites!Spending, Invites!Ended
<1>2. /\ ~Invites!InviteLocked /\ UNCHANGED <<invite, expired>>
      /\ seen' = [seen EXCEPT ![r] = invite]
  BY DEF Invites!ConsumeGet, Invites!ReleaseGet, Invites!FailGet
<1>3. /\ pc[r] # "counted" /\ label # "counted"
      /\ \/ label \in Spent <=> pc[r] \in Spent
         \/ pc[r] \in Spent /\ (invite = {} \/ expired)
      /\ label \in Spent => pc[r] \in Spent
      /\ label = "consumeSet" => \E record \in invite : record.uses < MaxUses
  BY DEF InvitesInv, InvitesTyped, Invites!ConsumeGet, Invites!ReleaseGet, Invites!FailGet,
         Invites!Goto, Invites!Live, Spent, Invites!Spending
<1> HIDE DEF label
<1>4. Kept'
  BY <1>1, <1>2, <1>3, ReadingKeeps
<1> QED BY <1>1, <1>4 DEF InvitesInv, Kept

\* The rest of what a registration does concerns its own account.
LEMMA AccountKeeps ==
  ASSUME InvitesInv, NEW r \in Registrations,
         \/ Invites!Begin(r) \/ Invites!ChallengeGet(r) \/ Invites!ChallengeDel(r)
         \/ Invites!CreateAccount(r) \/ Invites!CreateDeviceList(r) \/ Invites!AddDevice(r)
         \/ Invites!StoreDevice(r) \/ Invites!IssueSession(r) \/ Invites!DeleteAccount(r)
         \/ Invites!DeleteDeviceList(r) \/ Invites!Throw(r)
  PROVE  InvitesInv'
<1> DEFINE label == pc'[r]
<1>1. InvitesTyped' /\ Invites!Goto(r, label) /\ UNCHANGED <<invite, expired, seen>>
  BY DEF InvitesInv, InvitesTyped, Invites!Begin, Invites!ChallengeGet, Invites!ChallengeDel,
         Invites!CreateAccount, Invites!CreateDeviceList, Invites!AddDevice,
         Invites!StoreDevice, Invites!IssueSession, Invites!DeleteAccount, Invites!DeleteDeviceList,
         Invites!Throw,
         Invites!Goto, Invites!Spending, Invites!Ended
<1>2. /\ label \notin SetSteps /\ (label \in Spent <=> pc[r] \in Spent)
      /\ pc[r] # "counted" /\ label # "counted"
  BY DEF InvitesInv, InvitesTyped, Invites!Begin, Invites!ChallengeGet, Invites!ChallengeDel,
         Invites!CreateAccount, Invites!CreateDeviceList, Invites!AddDevice,
         Invites!StoreDevice, Invites!IssueSession, Invites!DeleteAccount, Invites!DeleteDeviceList,
         Invites!Throw,
         Invites!Goto, Invites!Spending, Invites!Ended, Spent, SetSteps
<1> HIDE DEF label
<1>3. Kept'
  BY <1>1, <1>2, CountlessKeeps
<1> QED BY <1>1, <1>3 DEF InvitesInv, Kept

\* A record that expires or is deleted says nothing any more; one that is
\* being rewritten does, also when it was deleted meanwhile.
LEMMA OutsideKeeps ==
  ASSUME InvitesInv, Invites!Expire \/ Invites!ScriptGet \/ Invites!ScriptDel
  PROVE  InvitesInv'
<1>1. /\ UNCHANGED <<pc, seen>> /\ invite' \subseteq invite /\ expired \in BOOLEAN
      /\ expired => expired'
  BY DEF InvitesInv, InvitesTyped, Invites!Expire, Invites!ScriptGet, Invites!ScriptDel
<1>2. InvitesTyped'
  BY DEF InvitesInv, InvitesTyped, OneAtMost, Invites!Expire, Invites!ScriptGet, Invites!ScriptDel
<1>3. \A labels : Among(labels)' = Among(labels)
  BY <1>1 DEF Among
<1>4. \A record : Exact(record) => Exact(record)'
  BY <1>1, <1>3 DEF Exact
<1>5. LockHolds'
  BY <1>1, <1>3, <1>4 DEF InvitesInv, LockHolds
<1> QED BY <1>1, <1>2, <1>3, <1>4, <1>5 DEF InvitesInv

\* Initially nobody has begun.
LEMMA InvitesInitial == Invites!Init => InvitesInv
<1> SUFFICES ASSUME Invites!Init PROVE InvitesInv
  OBVIOUS
<1>1. InvitesTyped
  <2>1. [uses |-> 0, failed |-> 0] \in Records
    BY DEF Records
  <2> QED BY <2>1 DEF Invites!Init, InvitesTyped, OneAtMost
<1>2. Among(Spent) = {} /\ Among({"counted"}) = {} /\ Among(SetSteps) = {} /\ Among({"consumeSet"}) = {}
  BY DEF Invites!Init, Among, Spent, SetSteps, Invites!Spending
<1>3. {r \in Registrations : pc[r] # "idle"} = {}
  BY DEF Invites!Init
<1> QED BY <1>1, <1>2, <1>3, FS_EmptySet, UsesAssumption
        DEF InvitesInv, LockHolds, Exact, Invites!Init

LEMMA InvitesInductive == InvitesInv /\ [PartNext]_<<part, vars, invitesVars>> => InvitesInv'
<1> SUFFICES ASSUME InvitesInv, [PartNext]_<<part, vars, invitesVars>>
             PROVE  InvitesInv'
  OBVIOUS
<1>1. CASE UNCHANGED invitesVars
  BY <1>1 DEF invitesVars, InvitesInv, InvitesTyped, LockHolds, Exact, Among
<1>2. CASE Invites!Next
  BY <1>2, ConsumeSetKeeps, ReleaseSetKeeps, FailSetKeeps, GetKeeps, AccountKeeps, OutsideKeeps
     DEF Invites!Next, Invites!Register, Invites!Undo
<1> QED BY <1>1, <1>2 DEF PartNext

LEMMA InvitesExact == InvitesInv => CountsAreExact
<1> SUFFICES ASSUME InvitesInv PROVE CountsAreExact
  OBVIOUS
<1>1. Invites!TypeOK
  <2>1. Cardinality(invite) \in {0, 1}
    BY FS_EmptySet, FS_Singleton DEF InvitesInv, InvitesTyped, OneAtMost
  <2>2. Invites!Cardinality(invite) <= 1
    BY <2>1, SameCount
  <2> QED BY <2>2 DEF InvitesInv, InvitesTyped, OneAtMost, Records, Invites!TypeOK
<1>2. \A labels : Invites!At(labels) = Cardinality(Among(labels))
  BY SameCount DEF Invites!At, Among
<1>3. Invites!At(Invites!Spending \cup {"done"}) <= MaxUses
  <2>1. Among(Invites!Spending \cup {"done"}) \in SUBSET Among(Spent)
    BY DEF Among, Spent
  <2>2. IsFiniteSet(Among(Spent)) /\ Cardinality(Among(Spent)) \in Nat
    BY BegunAreFinite DEF Spent, Invites!Spending
  <2>3. /\ Cardinality(Among(Invites!Spending \cup {"done"})) <= Cardinality(Among(Spent))
        /\ Cardinality(Among(Invites!Spending \cup {"done"})) \in Nat
    BY <2>1, <2>2, FS_Subset, FS_CardinalityType
  <2> QED BY <1>2, <2>2, <2>3, UsesAssumption DEF InvitesInv
<1> QED BY <1>1, <1>2, <1>3
        DEF CountsAreExact, Invites!CountsAreExact, InvitesInv, Exact, Spent

\* The invite's counts are exact and bound what it admits, for any number of
\* registrations, uses and failures that lock it out (invites.ts:104-168).
THEOREM InviteIsExact == PartSpec => []CountsAreExact
<1>1. PartInit => InvitesInv
  BY InvitesInitial DEF PartInit
<1> QED BY <1>1, InvitesInductive, InvitesExact, PTL DEF PartSpec
=============================================================================

----------------------------- MODULE Page_proofs -----------------------------
(***************************************************************************)
(* What a page keeps in step with something outside of it, for every value *)
(* of the constants: its subscriptions with the server's registry          *)
(* (SseClient), and its overlays with the browser's history                *)
(* (OverlayHistory).                                                       *)
(***************************************************************************)
EXTENDS SseClient, OverlayHistory, FiniteSetTheorems, SequenceTheorems, TLAPS

-----------------------------------------------------------------------------
(* SseClient.                                                              *)

\* Nothing is wanted, sent or served at first.
LEMMA SseInit == Init => SseInv
<1> SUFFICES ASSUME Init PROVE SseInv
  OBVIOUS
<1> USE DEF Init, NoRequest
<1>1. TypeOK
  BY DEF TypeOK
<1>2. StreamKnown /\ GoneIsForgotten
  BY DEF StreamKnown, GoneIsForgotten
<1>3. RequestIsDifference /\ RegisteredIsServed /\ DifferenceIsDue
  BY DEF RequestIsDifference, RegisteredIsServed, DifferenceIsDue
<1> QED BY <1>1, <1>2, <1>3 DEF SseInv

\* Whoever comes or goes, a sync is due if that makes a difference.
LEMMA SubscribingKeepsInv ==
  ASSUME SseInv, NEW s \in Subscriptions, Add(s) \/ Unsubscribe(s)
  PROVE  SseInv'
<1> USE SseAssumption DEF SseAssumption, SseInv, TypeOK, client, wire, server, doubt
<1>1. TypeOK'
  BY DEF Add, Unsubscribe, desired
<1>2. StreamKnown'
  BY DEF Add, Unsubscribe, StreamKnown
<1>3. GoneIsForgotten'
  BY DEF Add, Unsubscribe, GoneIsForgotten, StreamKnown
<1>4. RequestIsDifference'
  BY DEF Add, Unsubscribe, RequestIsDifference, StreamKnown
<1>5. RegisteredIsServed'
  BY DEF Add, Unsubscribe, RegisteredIsServed, Believed, RequestIsDifference, StreamKnown
<1>6. DifferenceIsDue'
  BY DEF Add, Unsubscribe, DifferenceIsDue, InStep, desired, StreamKnown
<1> QED BY <1>1, <1>2, <1>3, <1>4, <1>5, <1>6

\* A sync asks for the difference between desired and registered.
LEMMA SyncKeepsInv ==
  ASSUME SseInv, SyncLater \/ SyncIdle \/ SyncPosts \/ RetryFires
  PROVE  SseInv'
<1> USE SseAssumption DEF SseAssumption, SseInv, TypeOK, client, wire, server, doubt
<1>1. TypeOK'
  <2>0. desired \subseteq Keys
    BY DEF desired
  <2>1. CASE SyncLater
    BY <2>0, <2>1 DEF SyncLater
  <2>2. CASE SyncIdle
    BY <2>0, <2>2 DEF SyncIdle
  <2>3. CASE SyncPosts
    BY <2>0, <2>3 DEF SyncPosts
  <2>4. CASE RetryFires
    BY <2>0, <2>4 DEF RetryFires
  <2> QED BY <2>1, <2>2, <2>3, <2>4
<1>2. StreamKnown'
  BY DEF SyncLater, SyncIdle, SyncPosts, RetryFires, StreamKnown
<1>3. GoneIsForgotten'
  BY DEF SyncLater, SyncIdle, SyncPosts, RetryFires, GoneIsForgotten, StreamKnown
<1>4. RequestIsDifference'
  BY DEF SyncLater, SyncIdle, SyncPosts, RetryFires, RequestIsDifference, StreamKnown
<1>5. RegisteredIsServed'
  BY DEF SyncLater, SyncIdle, SyncPosts, RetryFires, RegisteredIsServed, Believed,
         RequestIsDifference, StreamKnown
<1>6. DifferenceIsDue'
  BY DEF SyncLater, SyncIdle, SyncPosts, RetryFires, DifferenceIsDue, InStep, desired,
         StreamKnown
<1> QED BY <1>1, <1>2, <1>3, <1>4, <1>5, <1>6

\* What the server was asked for is what it then serves.
LEMMA PostKeepsInv ==
  ASSUME SseInv, ServerHandles \/ AnswerOutdated \/ AnswerOk \/ PostFails
  PROVE  SseInv'
<1> USE SseAssumption DEF SseAssumption, SseInv, TypeOK, client, wire, server, doubt
<1>1. TypeOK'
  <2>0. desired \subseteq Keys
    BY DEF desired
  <2>1. CASE ServerHandles
    BY <2>0, <2>1 DEF ServerHandles
  <2>2. CASE AnswerOutdated
    BY <2>0, <2>2 DEF AnswerOutdated, PostEnds, NoRequest
  <2>3. CASE AnswerOk
    BY <2>0, <2>3 DEF AnswerOk, PostEnds, NoRequest
  <2>4. CASE PostFails
    <3>1. /\ dropped' \subseteq Keys /\ extra' \subseteq Keys
          /\ retry' \in BOOLEAN /\ scheduled' \in BOOLEAN
      BY <2>4 DEF PostFails
    <3>2. request' \in [connId : Conns \cup {None}, subscribe : SUBSET Keys,
                        unsubscribe : SUBSET Keys, next : SUBSET Keys]
      BY <2>4 DEF PostFails, PostEnds, NoRequest
    <3>3. /\ UNCHANGED <<subscribers, registered, connId, stream, conn, used, serves>>
          /\ post' = "none" /\ dirty' = FALSE /\ failures' \in Nat
      BY <2>4 DEF PostFails, PostEnds
    <3> QED BY <3>1, <3>2, <3>3
  <2> QED BY <2>1, <2>2, <2>3, <2>4
<1>2. StreamKnown'
  BY DEF ServerHandles, AnswerOutdated, AnswerOk, PostFails, PostEnds, NoRequest, desired,
         StreamKnown
<1>3. GoneIsForgotten'
  BY DEF ServerHandles, AnswerOutdated, AnswerOk, PostFails, PostEnds, NoRequest, desired,
         GoneIsForgotten, StreamKnown
<1>4. RequestIsDifference'
  BY DEF ServerHandles, AnswerOutdated, AnswerOk, PostFails, PostEnds, NoRequest, desired,
         RequestIsDifference, StreamKnown
<1>5. RegisteredIsServed'
  BY DEF ServerHandles, AnswerOutdated, AnswerOk, PostFails, PostEnds, NoRequest, desired,
         RegisteredIsServed, Believed, RequestIsDifference, StreamKnown
<1>6. DifferenceIsDue'
  BY DEF ServerHandles, AnswerOutdated, AnswerOk, PostFails, PostEnds, NoRequest, desired,
         DifferenceIsDue, InStep, desired, StreamKnown
<1> QED BY <1>1, <1>2, <1>3, <1>4, <1>5, <1>6

\* A new connection starts with nothing, and is another one than any before.
LEMMA AcceptKeepsInv ==
  ASSUME SseInv, NEW c \in Conns, ServerAccepts(c)
  PROVE  SseInv'
<1> USE SseAssumption DEF SseAssumption, SseInv, TypeOK, client, wire, server, doubt
<1>1. TypeOK'
  BY DEF ServerAccepts, desired
<1>2. StreamKnown'
  BY DEF ServerAccepts, StreamKnown
<1>3. GoneIsForgotten'
  BY DEF ServerAccepts, GoneIsForgotten, StreamKnown
<1>4. RequestIsDifference'
  BY DEF ServerAccepts, RequestIsDifference, StreamKnown
<1>5. RegisteredIsServed'
  BY DEF ServerAccepts, RegisteredIsServed, Believed, RequestIsDifference, StreamKnown
<1>6. DifferenceIsDue'
  BY DEF ServerAccepts, DifferenceIsDue, InStep, desired, StreamKnown
<1> QED BY <1>1, <1>2, <1>3, <1>4, <1>5, <1>6

\* The page starts over with it.
LEMMA ReadyKeepsInv ==
  ASSUME SseInv, Ready
  PROVE  SseInv'
<1> USE SseAssumption DEF SseAssumption, SseInv, TypeOK, client, wire, server, doubt
<1>1. TypeOK'
  BY DEF Ready, desired
<1>2. StreamKnown'
  BY DEF Ready, StreamKnown
<1>3. GoneIsForgotten'
  BY DEF Ready, GoneIsForgotten, StreamKnown
<1>4. RequestIsDifference'
  BY DEF Ready, RequestIsDifference, StreamKnown
<1>5. RegisteredIsServed'
  BY DEF Ready, RegisteredIsServed, Believed, RequestIsDifference, StreamKnown
<1>6. DifferenceIsDue'
  BY DEF Ready, DifferenceIsDue, InStep, desired, StreamKnown
<1> QED BY <1>1, <1>2, <1>3, <1>4, <1>5, <1>6

\* A connection that ends takes its keys with it.
LEMMA BreakKeepsInv ==
  ASSUME SseInv, Blip \/ FatalClose \/ ConnectRefused \/ Reconnect
  PROVE  SseInv'
<1> USE SseAssumption DEF SseAssumption, SseInv, TypeOK, client, wire, server, doubt
<1>1. TypeOK'
  BY DEF Blip, FatalClose, ConnectRefused, Reconnect, MayBreak, ServerForgets, desired
<1>2. StreamKnown'
  BY DEF Blip, FatalClose, ConnectRefused, Reconnect, MayBreak, ServerForgets, StreamKnown
<1>3. GoneIsForgotten'
  BY DEF Blip, FatalClose, ConnectRefused, Reconnect, MayBreak, ServerForgets,
         GoneIsForgotten, StreamKnown
<1>4. RequestIsDifference'
  BY DEF Blip, FatalClose, ConnectRefused, Reconnect, MayBreak, ServerForgets,
         RequestIsDifference, StreamKnown
<1>5. RegisteredIsServed'
  BY DEF Blip, FatalClose, ConnectRefused, Reconnect, MayBreak, ServerForgets,
         RegisteredIsServed, Believed, RequestIsDifference, StreamKnown
<1>6. DifferenceIsDue'
  BY DEF Blip, FatalClose, ConnectRefused, Reconnect, MayBreak, ServerForgets,
         DifferenceIsDue, InStep, desired, StreamKnown
<1> QED BY <1>1, <1>2, <1>3, <1>4, <1>5, <1>6

\* Every step keeps the invariant.
LEMMA SseInductive == SseInv /\ [Next]_vars => SseInv'
<1> SUFFICES ASSUME SseInv, [Next]_vars PROVE SseInv'
  OBVIOUS
<1>1. CASE UNCHANGED vars
  BY <1>1 DEF vars, client, wire, server, doubt, SseInv, TypeOK, StreamKnown, GoneIsForgotten,
     RequestIsDifference, RegisteredIsServed, Believed, DifferenceIsDue, InStep, desired
<1>2. ASSUME NEW s \in Subscriptions, Add(s) \/ Unsubscribe(s) PROVE SseInv'
  BY <1>2, SubscribingKeepsInv
<1>3. CASE Sync \/ RetryFires
  BY <1>3, SyncKeepsInv DEF Sync
<1>4. CASE ServerHandles \/ Answer \/ PostFails
  BY <1>4, PostKeepsInv DEF Answer
<1>5. ASSUME NEW c \in Conns, ServerAccepts(c) PROVE SseInv'
  BY <1>5, AcceptKeepsInv
<1>6. CASE Ready \/ Blip \/ FatalClose \/ ConnectRefused \/ Reconnect
  BY <1>6, ReadyKeepsInv, BreakKeepsInv
<1> QED BY <1>1, <1>2, <1>3, <1>4, <1>5, <1>6 DEF Next

\* The page's manager and the server's registry never lose track of each other
\* (sse-client.ts, realtime/sse.ts).
THEOREM SseInvariant == Spec => []SseInv
  BY SseInit, SseInductive, PTL DEF Spec

\* At rest, the page is served what it wants, but for keys whose unsubscription
\* the server handled unknown to it, and nothing else, but for the opposite.
THEOREM RestIsServed == Spec => []SettledIsServed
<1>1. SseInv => SettledIsServed
  BY DEF SseInv, TypeOK, SettledIsServed, Settled, StreamKnown, RegisteredIsServed, Believed,
         DifferenceIsDue, InStep
<1> QED BY <1>1, SseInvariant, PTL

\* A connection that is gone has no keys in the registry (sse.ts:15-20).
THEOREM ClosedIsForgotten == Spec => []GoneIsForgotten
<1>1. SseInv => GoneIsForgotten
  BY DEF SseInv
<1> QED BY <1>1, SseInvariant, PTL

-----------------------------------------------------------------------------
(* OverlayHistory: what the operators on sequences and the browser's marks *)
(* come to.                                                                *)

\* A set of positions that holds every lower one is an interval.
LEMMA DownwardClosed ==
  ASSUME NEW n \in Nat, NEW T \in SUBSET (1..n),
         \A i \in T : \A j \in 1..i : j \in T
  PROVE  \E c \in 0..n : T = 1..c
<1> DEFINE c == Cardinality(T)
<1>1. IsFiniteSet(1..n) /\ Cardinality(1..n) = n
  BY FS_Interval
<1>2. IsFiniteSet(T) /\ c \in Nat /\ c <= n
  BY <1>1, FS_Subset, FS_CardinalityType
<1>3. IsFiniteSet(1..c) /\ Cardinality(1..c) = c
  BY <1>2, FS_Interval
<1>4. c + 1 \notin T
  <2> SUFFICES ASSUME c + 1 \in T PROVE FALSE
    OBVIOUS
  <2>1. Cardinality(1..(c + 1)) = c + 1
    BY <1>2, FS_Interval
  <2>2. 1..(c + 1) \in SUBSET T
    OBVIOUS
  <2> QED BY <1>2, <2>1, <2>2, FS_Subset
<1>5. T \in SUBSET (1..c)
  <2> HIDE DEF c
  <2> QED BY <1>2, <1>4
<1>6. T = 1..c
  BY <1>3, <1>5, FS_Subset
<1> QED BY <1>2, <1>6

\* The greatest of finitely many numbers is one of them.
LEMMA MaxExists ==
  ASSUME NEW n \in Nat, NEW S \in SUBSET (0..n), 0 \in S
  PROVE  Max(S) \in S /\ \A y \in S : y <= Max(S)
<1> DEFINE T == {m \in 1..n : \E x \in S : m <= x}
<1>1. PICK c \in 0..n : T = 1..c
  <2>1. \A i \in T : \A j \in 1..i : j \in T
    OBVIOUS
  <2> QED BY <2>1, DownwardClosed
<1>2. c \in S
  <2>1. CASE c = 0
    BY <2>1
  <2>2. CASE c # 0
    <3>1. PICK x \in S : c <= x
      BY <1>1, <2>2
    <3>2. x \in T
      BY <2>2, <3>1
    <3> QED BY <1>1, <3>1, <3>2
  <2> QED BY <2>1, <2>2
<1>3. \A y \in S : y <= c
  <2> TAKE y \in S
  <2>1. CASE y = 0
    BY <2>1
  <2>2. CASE y # 0
    <3>1. y \in T
      BY <2>2
    <3> QED BY <1>1, <3>1
  <2> QED BY <2>1, <2>2
<1>4. \E x \in S : \A y \in S : x >= y
  BY <1>2, <1>3
<1>5. Max(S) \in S /\ \A y \in S : Max(S) >= y
  BY <1>4 DEF Max
<1> QED BY <1>5

LEMMA MinOfTwo ==
  ASSUME NEW a \in Int, NEW b \in Int
  PROVE  Min({a, b}) = IF a <= b THEN a ELSE b
<1>1. \E x \in {a, b} : \A y \in {a, b} : x =< y
  OBVIOUS
<1>2. Min({a, b}) \in {a, b} /\ \A y \in {a, b} : Min({a, b}) =< y
  BY <1>1 DEF Min
<1> QED BY <1>2

LEMMA InsertIs ==
  ASSUME NEW S, NEW s \in Seq(S), NEW x \in S, NEW k \in 1..(Len(s) + 1)
  PROVE  /\ InsertAt(s, k, x) \in Seq(S)
         /\ Len(InsertAt(s, k, x)) = Len(s) + 1
         /\ \A j \in 1..(Len(s) + 1) :
              InsertAt(s, k, x)[j] = IF j < k THEN s[j] ELSE IF j = k THEN x ELSE s[j - 1]
<1> DEFINE below == SubSeq(s, 1, k - 1)
           above == SubSeq(s, k, Len(s))
<1>1. /\ below \in Seq(S) /\ Len(below) = k - 1
      /\ \A j \in 1..(k - 1) : below[j] = s[j]
  BY SubSeqProperties
<1>2. /\ above \in Seq(S) /\ Len(above) = Len(s) - k + 1
      /\ \A j \in 1..(Len(s) - k + 1) : above[j] = s[k + j - 1]
  BY SubSeqProperties
<1>3. <<x>> \in Seq(S) /\ Len(<<x>>) = 1 /\ <<x>>[1] = x
  OBVIOUS
<1>4. InsertAt(s, k, x) = (below \o <<x>>) \o above
  BY DEF InsertAt
<1> HIDE DEF below, above
<1>5. /\ below \o <<x>> \in Seq(S) /\ Len(below \o <<x>>) = k
      /\ \A j \in 1..k : (below \o <<x>>)[j] = IF j < k THEN s[j] ELSE x
  BY <1>1, <1>3, ConcatProperties
<1> DEFINE lower == below \o <<x>>
<1> HIDE DEF lower
<1>6. /\ lower \o above \in Seq(S) /\ Len(lower \o above) = Len(s) + 1
      /\ \A j \in 1..(Len(s) + 1) :
           (lower \o above)[j] = IF j <= k THEN lower[j] ELSE above[j - k]
  <2>1. lower \in Seq(S) /\ Len(lower) = k
    BY <1>5 DEF lower
  <2>2. /\ lower \o above \in Seq(S) /\ Len(lower \o above) = Len(lower) + Len(above)
        /\ \A j \in 1..(Len(lower) + Len(above)) :
             (lower \o above)[j] = IF j <= Len(lower) THEN lower[j] ELSE above[j - Len(lower)]
    BY <1>2, <2>1, ConcatProperties
  <2>3. Len(lower) + Len(above) = Len(s) + 1
    BY <1>2, <2>1
  <2> QED BY <2>1, <2>2, <2>3
<1>7. \A j \in 1..(Len(s) + 1) :
        (lower \o above)[j] = IF j < k THEN s[j] ELSE IF j = k THEN x ELSE s[j - 1]
  <2> TAKE j \in 1..(Len(s) + 1)
  <2>0. j \in Int /\ k \in Int
    OBVIOUS
  <2>1. CASE j <= k
    BY <1>5, <1>6, <2>1 DEF lower
  <2>2. CASE j > k
    <3>1. j - k \in 1..(Len(s) - k + 1) /\ k + (j - k) - 1 = j - 1
      BY <2>2
    <3>2. (lower \o above)[j] = above[j - k]
      BY <1>6, <2>0, <2>2
    <3>3. above[j - k] = s[k + (j - k) - 1]
      BY <1>2, <3>1
    <3>4. ~(j < k) /\ j # k
      BY <2>0, <2>2
    <3> QED BY <3>1, <3>2, <3>3, <3>4
  <2>3. j <= k \/ j > k
    BY <2>0
  <2> QED BY <2>1, <2>2, <2>3
<1> QED BY <1>4, <1>6, <1>7 DEF lower

LEMMA RemoveIs ==
  ASSUME NEW S, NEW s \in Seq(S), NEW k \in 1..Len(s)
  PROVE  /\ RemoveAt(s, k) \in Seq(S)
         /\ Len(RemoveAt(s, k)) = Len(s) - 1
         /\ \A j \in 1..(Len(s) - 1) :
              RemoveAt(s, k)[j] = IF j < k THEN s[j] ELSE s[j + 1]
<1> DEFINE below == SubSeq(s, 1, k - 1)
           above == SubSeq(s, k + 1, Len(s))
<1>1. /\ below \in Seq(S) /\ Len(below) = k - 1
      /\ \A j \in 1..(k - 1) : below[j] = s[j]
  BY SubSeqProperties
<1>2. /\ above \in Seq(S) /\ Len(above) = Len(s) - k
      /\ \A j \in 1..(Len(s) - k) : above[j] = s[k + j]
  BY SubSeqProperties
<1>3. RemoveAt(s, k) = below \o above
  BY DEF RemoveAt
<1> HIDE DEF below, above
<1>4. /\ below \o above \in Seq(S) /\ Len(below \o above) = Len(s) - 1
      /\ \A j \in 1..(Len(s) - 1) :
           (below \o above)[j] = IF j < k THEN below[j] ELSE above[j - k + 1]
  <2>1. /\ below \o above \in Seq(S) /\ Len(below \o above) = Len(below) + Len(above)
        /\ \A j \in 1..(Len(below) + Len(above)) :
             (below \o above)[j] = IF j <= Len(below) THEN below[j] ELSE above[j - Len(below)]
    BY <1>1, <1>2, ConcatProperties
  <2>2. Len(below) + Len(above) = Len(s) - 1
    BY <1>1, <1>2
  <2>3. \A j \in 1..(Len(s) - 1) : (j <= Len(below) <=> j < k) /\ j - Len(below) = j - k + 1
    BY <1>1
  <2> QED BY <2>1, <2>2, <2>3
<1>5. \A j \in 1..(Len(s) - 1) :
        (below \o above)[j] = IF j < k THEN s[j] ELSE s[j + 1]
  BY <1>1, <1>2, <1>4
<1> QED BY <1>3, <1>4, <1>5

\* Taking out again what was put in gives the sequence there was.
LEMMA InsertedAndRemoved ==
  ASSUME NEW S, NEW s \in Seq(S), NEW x \in S, NEW k \in 1..(Len(s) + 1)
  PROVE  RemoveAt(InsertAt(s, k, x), k) = s
<1> DEFINE more == InsertAt(s, k, x)
<1>1. /\ more \in Seq(S) /\ Len(more) = Len(s) + 1
      /\ \A j \in 1..(Len(s) + 1) :
           more[j] = IF j < k THEN s[j] ELSE IF j = k THEN x ELSE s[j - 1]
  BY InsertIs
<1> HIDE DEF more
<1>2. /\ RemoveAt(more, k) \in Seq(S) /\ Len(RemoveAt(more, k)) = Len(s)
      /\ \A j \in 1..Len(s) : RemoveAt(more, k)[j] = IF j < k THEN more[j] ELSE more[j + 1]
  <2>1. k \in 1..Len(more) /\ Len(more) - 1 = Len(s)
    BY <1>1
  <2> QED BY <1>1, <2>1, RemoveIs
<1>3. \A j \in 1..Len(s) : RemoveAt(more, k)[j] = s[j]
  <2> TAKE j \in 1..Len(s)
  <2>1. j \in 1..(Len(s) + 1) /\ j + 1 \in 1..(Len(s) + 1) /\ (j + 1) - 1 = j
    OBVIOUS
  <2>2. CASE j < k
    BY <1>1, <1>2, <2>1, <2>2
  <2>3. CASE j >= k
    BY <1>1, <1>2, <2>1, <2>3
  <2> QED BY <2>2, <2>3
<1>4. RemoveAt(more, k) = s
  BY <1>2, <1>3, SeqEqual
<1> QED BY <1>4 DEF more

LEMMA InsertedLast ==
  ASSUME NEW S, NEW s \in Seq(S), NEW x \in S
  PROVE  InsertAt(s, Len(s) + 1, x) = Append(s, x)
<1>1. /\ InsertAt(s, Len(s) + 1, x) \in Seq(S)
      /\ Len(InsertAt(s, Len(s) + 1, x)) = Len(s) + 1
      /\ \A j \in 1..(Len(s) + 1) : InsertAt(s, Len(s) + 1, x)[j] = Append(s, x)[j]
  BY InsertIs
<1> QED BY <1>1

Entries == [id : Overlays, depth : Nat]

\* What a landing leaves: a prefix, cut above the last entry history backs.
LEMMA BackedIs ==
  ASSUME NEW s \in Seq(Entries), NEW d \in Nat
  PROVE  \E m \in 0..Len(s) :
           /\ Backed(s, d) = SubSeq(s, 1, m)
           /\ m = 0 \/ (m <= d /\ s[m].depth <= d)
           /\ \A n \in (m + 1)..Len(s) : n > d \/ s[n].depth > d
<1> DEFINE Stays(n) == n <= d /\ (n = 0 \/ s[n].depth <= d)
           kept == {n \in 0..Len(s) : n = 0 \/ Stays(n)}
<1>1. Max(kept) \in kept /\ \A n \in kept : n <= Max(kept)
  <2>1. kept \in SUBSET (0..Len(s)) /\ 0 \in kept /\ Len(s) \in Nat
    OBVIOUS
  <2> HIDE DEF kept
  <2> QED BY <2>1, MaxExists
<1>2. Backed(s, d) = SubSeq(s, 1, Max(kept))
  BY DEF Backed
<1>3. \A n \in 1..Len(s) : s[n] \in Entries
  BY ElementOfSeq
<1>4. \A n \in 1..Len(s) : s[n].depth \in Nat
  BY <1>3 DEF Entries
<1> DEFINE m == Max(kept)
<1>5. m \in 0..Len(s) /\ (m = 0 \/ (m <= d /\ s[m].depth <= d))
  BY <1>1
<1>6. \A n \in (m + 1)..Len(s) : n > d \/ s[n].depth > d
  <2> SUFFICES ASSUME NEW n \in (m + 1)..Len(s), ~(n > d), ~(s[n].depth > d)
               PROVE  FALSE
    OBVIOUS
  <2>1. n \in kept
    BY <1>4, <1>5
  <2> HIDE DEF kept
  <2> QED BY <1>1, <1>5, <2>1
<1> HIDE DEF m
<1>7. Backed(s, d) = SubSeq(s, 1, m)
  BY <1>2 DEF m
<1> QED BY <1>5, <1>6, <1>7

-----------------------------------------------------------------------------
(* The module's state and its operations.                                  *)

\* Up to place n, a mark is below its place, and one above the mark before it
\* unless it is zero: the entries of one visit count up from an unmarked one.
RisesTo(m, n) ==
    /\ \A p \in 1..n : m[p] < p
    /\ \A p \in 1..n : \A k \in 0..m[p] : m[p - k] = m[p] - k
    /\ \A p \in 1..n : p < n => m[p + 1] \in {0, m[p] + 1}

Rises(m) == m \in Seq(Nat) /\ Len(m) # 0 /\ RisesTo(m, Len(m))

WithEntry(m, p) == Append(SubSeq(m, 1, p), m[p] + 1)

LEMMA EntryAdded ==
  ASSUME NEW m \in Seq(Nat), NEW p \in 1..Len(m), RisesTo(m, p)
  PROVE  /\ Rises(WithEntry(m, p)) /\ Len(WithEntry(m, p)) = p + 1
         /\ WithEntry(m, p)[p + 1] = m[p] + 1
         /\ \A q \in 1..p : WithEntry(m, p)[q] = m[q]
<1> DEFINE w == WithEntry(m, p)
<1>1. /\ SubSeq(m, 1, p) \in Seq(Nat) /\ Len(SubSeq(m, 1, p)) = p
      /\ \A q \in 1..p : SubSeq(m, 1, p)[q] = m[q]
  BY SubSeqProperties
<1>2. m[p] + 1 \in Nat
  OBVIOUS
<1>3. /\ w \in Seq(Nat) /\ Len(w) = p + 1 /\ w[p + 1] = m[p] + 1
      /\ \A q \in 1..p : w[q] = m[q]
  BY <1>1, <1>2, AppendProperties DEF WithEntry
<1> HIDE DEF w
<1>0. /\ p \in Nat /\ p # 0
      /\ \A q \in 1..p : m[q] \in Nat /\ m[q] < q
      /\ \A q \in 1..p : \A k \in 0..m[q] : m[q - k] = m[q] - k
      /\ \A q \in 1..p : q < p => m[q + 1] \in {0, m[q] + 1}
  BY DEF RisesTo
<1>4. \A q \in 1..(p + 1) : w[q] < q
  <2> TAKE q \in 1..(p + 1)
  <2>1. CASE q # p + 1
    <3>1. q \in 1..p
      BY <1>0, <2>1
    <3> QED BY <1>0, <1>3, <3>1
  <2>2. CASE q = p + 1
    BY <1>0, <1>3, <2>2
  <2> QED BY <2>1, <2>2
<1>5. \A q \in 1..(p + 1) : \A k \in 0..w[q] : w[q - k] = w[q] - k
  <2> TAKE q \in 1..(p + 1)
  <2> TAKE k \in 0..w[q]
  <2>1. CASE q # p + 1
    <3>0. q \in 1..p
      BY <1>0, <2>1
    <3>1. w[q] = m[q] /\ m[q] \in Nat /\ m[q] < q
      BY <1>0, <1>3, <3>0
    <3>2. m[q - k] = m[q] - k
      BY <1>0, <3>0, <3>1
    <3>3. q - k \in 1..p
      BY <1>0, <3>0, <3>1
    <3> QED BY <1>3, <3>0, <3>1, <3>2, <3>3
  <2>2. CASE q = p + 1 /\ k = 0
    BY <1>3, <2>2
  <2>3. CASE q = p + 1 /\ k # 0
    <3>1. k - 1 \in 0..m[p]
      BY <1>3, <2>3
    <3>2. m[p - (k - 1)] = m[p] - (k - 1)
      BY <3>1 DEF RisesTo
    <3>3. p - (k - 1) = q - k /\ q - k \in 1..p
      BY <1>2, <2>3, <3>1 DEF RisesTo
    <3> QED BY <1>3, <2>3, <3>2, <3>3
  <2> QED BY <2>1, <2>2, <2>3
<1>6. \A q \in 1..(p + 1) : q < p + 1 => w[q + 1] \in {0, w[q] + 1}
  <2> TAKE q \in 1..(p + 1)
  <2>1. CASE q < p
    <3>1. q \in 1..p /\ q + 1 \in 1..p
      BY <2>1
    <3> QED BY <1>0, <1>3, <2>1, <3>1
  <2>2. CASE q = p
    BY <1>3, <2>2
  <2> QED BY <2>1, <2>2
<1> QED BY <1>3, <1>4, <1>5, <1>6 DEF Rises, RisesTo, w

\* A cleared mark is an unmarked entry like any other.
LEMMA MarkCleared ==
  ASSUME NEW m \in Seq(Nat), NEW p \in 1..Len(m), RisesTo(m, p)
  PROVE  /\ [m EXCEPT ![p] = 0] \in Seq(Nat)
         /\ Len([m EXCEPT ![p] = 0]) = Len(m)
         /\ [m EXCEPT ![p] = 0][p] = 0
         /\ RisesTo([m EXCEPT ![p] = 0], p)
<1> DEFINE w == [m EXCEPT ![p] = 0]
<1>1. /\ w \in Seq(Nat) /\ Len(w) = Len(m)
      /\ \A q \in 1..Len(m) : w[q] = IF q = p THEN 0 ELSE m[q]
  BY ExceptSeq
<1> HIDE DEF w
<1>0. /\ p \in Nat /\ p # 0
      /\ \A q \in 1..p : m[q] \in Nat /\ m[q] < q
      /\ \A q \in 1..p : \A k \in 0..m[q] : m[q - k] = m[q] - k
      /\ \A q \in 1..p : q < p => m[q + 1] \in {0, m[q] + 1}
  BY DEF RisesTo
<1>2. w[p] = 0 /\ \A q \in 1..(p - 1) : w[q] = m[q]
  BY <1>0, <1>1
<1>3. \A q \in 1..p : \A k \in 0..w[q] : w[q - k] = w[q] - k
  <2> TAKE q \in 1..p
  <2> TAKE k \in 0..w[q]
  <2>1. CASE q = p
    <3>1. k = 0
      BY <1>2, <2>1
    <3> QED BY <1>2, <2>1, <3>1
  <2>2. CASE q # p
    <3>1. q \in 1..(p - 1) /\ w[q] = m[q] /\ m[q] < q /\ m[q] \in Nat
      BY <1>0, <1>2, <2>2
    <3>2. m[q - k] = m[q] - k /\ q - k \in 1..(p - 1)
      BY <1>0, <3>1
    <3> QED BY <1>2, <3>1, <3>2
  <2> QED BY <2>1, <2>2
<1>4. \A q \in 1..p : w[q] < q
  <2> TAKE q \in 1..p
  <2>1. CASE q = p
    BY <1>0, <1>2, <2>1
  <2>2. CASE q # p
    <3>1. q \in 1..(p - 1)
      BY <1>0, <2>2
    <3> QED BY <1>0, <1>2, <3>1
  <2> QED BY <2>1, <2>2
<1>5. \A q \in 1..p : q < p => w[q + 1] \in {0, w[q] + 1}
  <2> TAKE q \in 1..p
  <2>1. CASE q + 1 = p
    BY <1>2, <2>1
  <2>2. CASE q + 1 < p
    <3>1. q \in 1..(p - 1) /\ q + 1 \in 1..(p - 1)
      BY <1>0, <2>2
    <3> QED BY <1>0, <1>2, <2>2, <3>1
  <2> QED BY <2>1, <2>2
<1>6. RisesTo(w, p)
  BY <1>3, <1>4, <1>5 DEF RisesTo
<1> QED BY <1>1, <1>2, <1>6 DEF w

LEMMA RisesBelow ==
  ASSUME NEW m, NEW n \in Nat, NEW p \in 0..n, RisesTo(m, n)
  PROVE  RisesTo(m, p)
<1>1. \A q \in 1..p : q \in 1..n
  OBVIOUS
<1> QED BY <1>1 DEF RisesTo

States ==
    {s \in [stack : Seq(Entries), marks : Seq(Nat), at : Nat, owed : {NoDebt} \cup Nat] :
        s.at \in 1..Len(s.marks) /\ RisesTo(s.marks, s.at)}

Owes(s) == s.owed # NoDebt /\ s.owed < s.marks[s.at]
Added(s, e) ==
    [stack |-> Append(s.stack, [id |-> e, depth |-> s.marks[s.at] + 1]),
     marks |-> WithEntry(s.marks, s.at), at |-> s.at + 1, owed |-> NoDebt]
TakenOver(s, e, slot) ==
    [stack |-> InsertAt(s.stack, slot, [id |-> e, depth |-> s.owed + 1]),
     marks |-> s.marks, at |-> s.at,
     owed  |-> IF s.owed + 1 = s.marks[s.at] THEN NoDebt ELSE s.owed + 1]

LEMMA PushedIs ==
  ASSUME NEW s \in States, NEW e \in Overlays
  PROVE  Pushed(s, e) =
           IF Owes(s) THEN TakenOver(s, e, Min({s.owed + 1, Len(s.stack) + 1}))
                      ELSE Added(s, e)
<1> DEFINE slot == Min({s.owed + 1, Len(s.stack) + 1})
<1>1. s \in [stack : Seq(Entries), marks : Seq(Nat), at : Nat, owed : {NoDebt} \cup Nat]
  BY DEF States
<1>2. CASE Owes(s)
  <2>1. Pushed(s, e) =
          [s EXCEPT !.stack = InsertAt(s.stack, slot, [id |-> e, depth |-> s.owed + 1]),
                    !.owed  = IF s.owed + 1 = s.marks[s.at] THEN NoDebt ELSE s.owed + 1]
    BY <1>2 DEF Pushed, Owes
  <2> HIDE DEF slot
  <2>2. Pushed(s, e) = TakenOver(s, e, slot)
    BY <1>1, <2>1 DEF TakenOver
  <2> QED BY <1>2, <2>2 DEF slot
<1>3. CASE ~Owes(s)
  BY <1>3 DEF Pushed, Owes, Added, WithEntry
<1> QED BY <1>2, <1>3

\* A push keeps the types, and its overlay is in the stack.
LEMMA PushedKeeps ==
  ASSUME NEW s \in States, Owes(s) => Rises(s.marks), NEW e \in Overlays
  PROVE  /\ Pushed(s, e) \in States /\ Rises(Pushed(s, e).marks)
         /\ \E i \in DOMAIN Pushed(s, e).stack : Pushed(s, e).stack[i].id = e
         /\ Pushed(s, e).at >= s.at
         /\ Pushed(s, e).at = s.at => Len(Pushed(s, e).marks) = Len(s.marks)
<1> DEFINE depth == s.marks[s.at]
<1>1. /\ depth \in Nat /\ Len(s.stack) \in Nat /\ s.stack \in Seq(Entries)
      /\ s.marks \in Seq(Nat) /\ s.at \in 1..Len(s.marks) /\ s.owed \in {NoDebt} \cup Nat
      /\ RisesTo(s.marks, s.at) /\ s.at \in Nat
  BY DEF States
<1>2. CASE Owes(s)
  <2> DEFINE slot == Min({s.owed + 1, Len(s.stack) + 1})
             x == [id |-> e, depth |-> s.owed + 1]
  <2>1. s.owed \in Nat /\ s.owed < depth
    BY <1>1, <1>2 DEF Owes
  <2>2. slot \in 1..(Len(s.stack) + 1)
    <3>1. s.owed + 1 \in Int /\ Len(s.stack) + 1 \in Int
      BY <1>1, <2>1
    <3>2. slot \in {s.owed + 1, Len(s.stack) + 1} /\ slot <= Len(s.stack) + 1
      BY <3>1, MinOfTwo
    <3> QED BY <1>1, <2>1, <3>2
  <2>3. x \in Entries
    BY <2>1 DEF Entries
  <2> HIDE DEF slot, x
  <2>4. /\ InsertAt(s.stack, slot, x) \in Seq(Entries)
        /\ Len(InsertAt(s.stack, slot, x)) = Len(s.stack) + 1
        /\ InsertAt(s.stack, slot, x)[slot] = x
    BY <1>1, <2>2, <2>3, InsertIs
  <2>5. Pushed(s, e) = TakenOver(s, e, slot)
    BY <1>2, PushedIs DEF slot
  <2>6. /\ TakenOver(s, e, slot).stack = InsertAt(s.stack, slot, x)
        /\ TakenOver(s, e, slot).marks = s.marks /\ TakenOver(s, e, slot).at = s.at
    BY DEF TakenOver, x
  <2>7. TakenOver(s, e, slot) \in States
    BY <1>1, <2>1, <2>4 DEF TakenOver, States, x
  <2>8. x.id = e /\ slot \in DOMAIN InsertAt(s.stack, slot, x)
    BY <1>1, <2>2, <2>4 DEF x
  <2>9. Pushed(s, e).at = s.at /\ Pushed(s, e).marks = s.marks
    BY <2>5, <2>6
  <2>10. s.at >= s.at
    BY <1>1
  <2> QED BY <1>2, <2>4, <2>5, <2>6, <2>7, <2>8, <2>9, <2>10
<1>3. CASE ~Owes(s)
  <2> DEFINE x == [id |-> e, depth |-> depth + 1]
  <2>1. x \in Entries
    BY <1>1 DEF Entries
  <2>2. /\ Append(s.stack, x) \in Seq(Entries) /\ Len(Append(s.stack, x)) = Len(s.stack) + 1
        /\ Append(s.stack, x)[Len(s.stack) + 1] = x
    BY <1>1, <2>1, AppendProperties
  <2>3. Pushed(s, e) = Added(s, e)
    BY <1>3, PushedIs
  <2>4. /\ Rises(WithEntry(s.marks, s.at)) /\ Len(WithEntry(s.marks, s.at)) = s.at + 1
    BY <1>1, EntryAdded
  <2>5. /\ Added(s, e).stack = Append(s.stack, x) /\ Added(s, e).marks = WithEntry(s.marks, s.at)
        /\ Added(s, e).at = s.at + 1
    BY DEF Added
  <2>6. Added(s, e) \in States
    BY <1>1, <2>2, <2>4 DEF Added, States, Rises
  <2>7. x.id = e /\ Len(s.stack) + 1 \in DOMAIN Append(s.stack, x)
    BY <1>1, <2>2
  <2> HIDE DEF x
  <2>8. s.at + 1 >= s.at /\ s.at + 1 # s.at
    BY <1>1
  <2> QED BY <2>2, <2>3, <2>4, <2>5, <2>6, <2>7, <2>8
<1> QED BY <1>2, <1>3

\* Where an overlay stands in the stack.
LEMMA PlaceOf ==
  ASSUME NEW s \in Seq(Entries), NEW e, \E i \in DOMAIN s : s[i].id = e
  PROVE  LET i == CHOOSE j \in DOMAIN s : s[j].id = e
         IN  i \in 1..Len(s) /\ s[i].id = e
  OBVIOUS

DroppedAt(s, i) ==
    [s EXCEPT !.stack = RemoveAt(s.stack, i),
              !.owed  = IF s.owed = NoDebt THEN i - 1 ELSE Min({s.owed, i - 1})]

\* A drop keeps the types, and leaves a debt.
LEMMA DroppedKeeps ==
  ASSUME NEW s \in States, NEW e, \E i \in DOMAIN s.stack : s.stack[i].id = e
  PROVE  \E i \in 1..Len(s.stack) :
           /\ s.stack[i].id = e /\ Dropped(s, e) = DroppedAt(s, i)
           /\ Dropped(s, e) \in States
           /\ Dropped(s, e).marks = s.marks
           /\ Dropped(s, e).at = s.at
           /\ Dropped(s, e).stack = RemoveAt(s.stack, i)
           /\ Dropped(s, e).owed =
                IF s.owed = NoDebt \/ i - 1 <= s.owed THEN i - 1 ELSE s.owed
<1> DEFINE i == CHOOSE j \in DOMAIN s.stack : s.stack[j].id = e
<1>1. s.stack \in Seq(Entries) /\ s.owed \in {NoDebt} \cup Nat
  BY DEF States
<1>2. i \in 1..Len(s.stack) /\ s.stack[i].id = e
  BY <1>1, PlaceOf
<1>3. Dropped(s, e) = DroppedAt(s, i)
  BY DEF Dropped, DroppedAt
<1> HIDE DEF i
<1>4. RemoveAt(s.stack, i) \in Seq(Entries)
  BY <1>1, <1>2, RemoveIs
<1>5. (IF s.owed = NoDebt THEN i - 1 ELSE Min({s.owed, i - 1})) =
      (IF s.owed = NoDebt \/ i - 1 <= s.owed THEN i - 1 ELSE s.owed)
  <2>1. CASE s.owed = NoDebt
    BY <2>1
  <2>2. CASE s.owed # NoDebt
    <3>1. s.owed \in Int /\ i - 1 \in Int
      BY <1>1, <1>2 DEF NoDebt
    <3> QED BY <2>2, <3>1, MinOfTwo
  <2> QED BY <2>1, <2>2
<1>6. DroppedAt(s, i) = [s EXCEPT !.stack = RemoveAt(s.stack, i),
                !.owed = IF s.owed = NoDebt \/ i - 1 <= s.owed THEN i - 1 ELSE s.owed]
  BY <1>5 DEF DroppedAt
<1> DEFINE debt == IF s.owed = NoDebt \/ i - 1 <= s.owed THEN i - 1 ELSE s.owed
           rest == RemoveAt(s.stack, i)
<1>7. debt \in {NoDebt} \cup Nat
  BY <1>1, <1>2 DEF NoDebt
<1>8. /\ s \in [stack : Seq(Entries), marks : Seq(Nat), at : Nat, owed : {NoDebt} \cup Nat]
      /\ s.at \in 1..Len(s.marks) /\ RisesTo(s.marks, s.at)
  BY DEF States
<1>9. DroppedAt(s, i) = [stack |-> rest, marks |-> s.marks, at |-> s.at, owed |-> debt]
  BY <1>6, <1>8
<1>10. DroppedAt(s, i) \in States
  <2> HIDE DEF debt, rest
  <2>1. rest \in Seq(Entries)
    BY <1>4 DEF rest
  <2> QED BY <1>7, <1>8, <1>9, <2>1 DEF States
<1>11. /\ DroppedAt(s, i) \in States /\ DroppedAt(s, i).marks = s.marks
      /\ DroppedAt(s, i).at = s.at /\ DroppedAt(s, i).stack = RemoveAt(s.stack, i)
      /\ DroppedAt(s, i).owed = IF s.owed = NoDebt \/ i - 1 <= s.owed THEN i - 1 ELSE s.owed
  BY <1>9, <1>10
<1> QED BY <1>2, <1>3, <1>11

-----------------------------------------------------------------------------
(* The invariant.                                                          *)

\* What always holds: the marks rise, only a listening page has overlays or
\* a debt, a claim is a claim on a debt, and as long as nothing crossed it a
\* traversal in flight goes on from where the one before it will land.
Sound ==
    /\ OverlayTypeOK
    /\ Rises(marks)
    /\ ~listening => stack = <<>> /\ owed = NoDebt
    /\ owed = NoDebt => ~claimed
    /\ ~crossed => \A i, j \in DOMAIN pending :
                       j = i + 1 => pending[j] \in {pending[i] - 1, pending[i] + 1}

\* The overlays' depths rise with their places, up to history's depth.
Rising ==
    /\ \A i \in DOMAIN stack : stack[i].depth >= i /\ stack[i].depth <= Depth
    /\ \A i, j \in DOMAIN stack : i < j => stack[j].depth >= stack[i].depth + (j - i)

Distinct == \A i, j \in DOMAIN stack : stack[i].id = stack[j].id => i = j

\* Every entry of the visit backs the overlay of its depth.
Full == Len(stack) = Depth /\ \A i \in DOMAIN stack : stack[i].depth = i

\* Unless a flush's traversal is in flight, the stack is full without a debt and
\* up to what is owed with one; the next overlay finds the place of the entry it
\* takes over free.
Owing ==
    /\ returning = 0 =>
           /\ owed = NoDebt /\ listening => Full
           /\ owed # NoDebt /\ owed >= Depth => Full
           /\ owed # NoDebt /\ owed < Depth =>
                  /\ owed <= Len(stack)
                  /\ \A i \in DOMAIN stack : i <= owed => stack[i].depth = i
    /\ owed # NoDebt /\ ~claimed => \A i \in DOMAIN stack : i > owed => stack[i].depth > i

\* What is above a gap in the stack, or above the entry a debt gives back, has
\* been asked to close.
Debts ==
    /\ \A i \in DOMAIN stack : stack[i].depth > i => stack[i].id \in doomed
    /\ owed # NoDebt => \A i \in DOMAIN stack : stack[i].depth > owed => stack[i].id \in doomed

\* What holds as long as history stands where overlays left it.
Tracked == Rising /\ Distinct /\ Owing /\ Debts

\* A traversal goes one entry further, or back to an entry of this visit.
Near ==
    pending # <<>> =>
        Head(pending) \in {at - 1, at + 1} \/ (Head(pending) >= at - Depth /\ Head(pending) < at)

AllDoomed == \A i \in DOMAIN stack : stack[i].id \in doomed

\* No entry of an earlier visit lies ahead.
Ahead(p) ==
    /\ p # Outside /\ marks[p] # 0
    /\ \A q \in 1..Len(marks) : q > p => marks[q] # 0

\* What the entry a traversal goes to does not back has been asked to close.
Covers(p) ==
    \/ AllDoomed
    \/ /\ Ahead(p)
       /\ \A i \in DOMAIN stack : stack[i].depth > marks[p] => stack[i].id \in doomed

Asked == \A j \in DOMAIN pending : Covers(pending[j])

\* What holds of the traversals in flight as long as nothing crossed one.
Aimed == Near /\ Asked /\ (listening /\ Depth # 0 => Ahead(at))

OverlayInv ==
    /\ Sound
    /\ Running /\ ~stray => Tracked
    /\ Running /\ ~stray /\ ~crossed => Aimed

LEMMA OverlayInitial == OverlayInit => OverlayInv
<1> SUFFICES ASSUME OverlayInit PROVE OverlayInv
  OBVIOUS
<1>1. <<0>> \in Seq(Nat) /\ Len(<<0>>) = 1 /\ <<0>>[1] = 0
  OBVIOUS
<1>2. Sound
  <2>1. OverlayTypeOK
    <3>1. /\ stack = << >> /\ marks = <<0>> /\ at = 1 /\ owed = NoDebt /\ pending = << >>
          /\ listening = FALSE /\ claimed = FALSE /\ stray = FALSE /\ doomed = {}
          /\ returning = 0 /\ crossed = FALSE
      BY DEF OverlayInit
    <3>2. stack \in Seq([id : Overlays, depth : Nat]) /\ pending \in Seq(0..Len(marks))
      BY <3>1
    <3>3. marks \in Seq(Nat) /\ at \in 0..Len(marks)
      BY <1>1, <3>1
    <3>4. returning \in 0..Len(pending)
      BY <3>1
    <3> QED BY <3>1, <3>2, <3>3, <3>4 DEF OverlayTypeOK
  <2>2. RisesTo(<<0>>, 1)
    <3>1. \A p \in 1..1 : p = 1
      OBVIOUS
    <3> QED BY <1>1, <3>1 DEF RisesTo
  <2>3. Rises(marks)
    BY <1>1, <2>2 DEF OverlayInit, Rises
  <2> QED BY <2>1, <2>3 DEF OverlayInit, Sound
<1>3. Tracked /\ Aimed
  BY <1>1 DEF OverlayInit, Tracked, Rising, Distinct, Owing, Debts, Aimed, Near, Asked
<1> QED BY <1>2, <1>3 DEF OverlayInv

\* The types of the state, one by one.
LEMMA Typed ==
  ASSUME Sound
  PROVE  /\ stack \in Seq(Entries) /\ Len(stack) \in Nat
         /\ marks \in Seq(Nat) /\ Len(marks) \in Nat /\ Len(marks) # 0
         /\ at \in 0..Len(marks) /\ owed \in {NoDebt} \cup Nat
         /\ pending \in Seq(0..Len(marks)) /\ Len(pending) \in Nat
         /\ \A i \in 1..Len(stack) : stack[i] \in Entries
         /\ \A i \in 1..Len(stack) : stack[i].depth \in Nat /\ stack[i].id \in Overlays
         /\ Running => at \in 1..Len(marks) /\ Depth \in Nat /\ Depth < at
         /\ doomed \subseteq Overlays /\ returning \in 0..Len(pending)
<1>1. /\ stack \in Seq(Entries) /\ marks \in Seq(Nat) /\ Len(marks) # 0
      /\ at \in 0..Len(marks) /\ owed \in {NoDebt} \cup Nat
      /\ pending \in Seq(0..Len(marks)) /\ doomed \subseteq Overlays
      /\ returning \in 0..Len(pending)
  BY DEF Sound, OverlayTypeOK, Rises, Entries
<1>2. \A i \in 1..Len(stack) : stack[i] \in Entries
  BY <1>1, ElementOfSeq
<1>3. \A i \in 1..Len(stack) : stack[i].depth \in Nat /\ stack[i].id \in Overlays
  BY <1>2 DEF Entries
<1>4. Len(stack) \in Nat /\ Len(marks) \in Nat /\ Len(pending) \in Nat
  BY <1>1
<1>5. Running => at \in 1..Len(marks)
  BY <1>1, <1>4 DEF Running, Outside
<1>6. Running => Depth \in Nat /\ Depth < at
  BY <1>1, <1>5, ElementOfSeq DEF Depth, Sound, Rises, RisesTo
<1> QED BY <1>1, <1>2, <1>3, <1>4, <1>5, <1>6

\* A push on the state of a page, once its listener is installed.
LEMMA ListenedIs ==
  ASSUME Sound, Running
  PROVE  /\ Listened(Here) \in States
         /\ Listened(Here).stack = stack /\ Listened(Here).at = at
         /\ Listened(Here).owed = owed
         /\ Len(Listened(Here).marks) = Len(marks)
         /\ Listened(Here).marks[at] = IF listening THEN Depth ELSE 0
         /\ listening => Listened(Here).marks = marks
         /\ Owes(Listened(Here)) => listening /\ Rises(Listened(Here).marks)
<1>1. /\ stack \in Seq(Entries) /\ marks \in Seq(Nat) /\ at \in 1..Len(marks)
      /\ owed \in {NoDebt} \cup Nat /\ Len(marks) \in Nat
  BY Typed
<1>2. RisesTo(marks, at)
  BY <1>1, RisesBelow DEF Sound, Rises
<1>3. CASE listening
  <2>1. Listened(Here) = Here
    BY <1>3 DEF Listened
  <2>2. Here \in States
    BY <1>1, <1>2 DEF Here, States
  <2> QED BY <1>1, <1>3, <2>1, <2>2 DEF Here, Depth, Sound
<1>4. CASE ~listening
  <2> DEFINE cleared == [marks EXCEPT ![at] = 0]
  <2>1. Listened(Here) = [stack |-> stack, marks |-> cleared, at |-> at, owed |-> owed]
    BY <1>4 DEF Listened, Here
  <2>2. /\ cleared \in Seq(Nat) /\ Len(cleared) = Len(marks) /\ cleared[at] = 0
        /\ RisesTo(cleared, at)
    BY <1>1, <1>2, MarkCleared
  <2> HIDE DEF cleared
  <2>3. Listened(Here) \in States
    BY <1>1, <2>1, <2>2 DEF States
  <2>4. owed = NoDebt
    BY <1>4 DEF Sound
  <2> QED BY <1>4, <2>1, <2>2, <2>3, <2>4 DEF Owes
<1> QED BY <1>3, <1>4

LEMMA OpenSound ==
  ASSUME Sound, NEW e \in Overlays, NEW strict \in BOOLEAN, Open(e, strict)
  PROVE  Sound'
<1> DEFINE once == Pushed(Listened(Here), e)
           twice == Pushed(Dropped(once, e), e)
<1>1. Running
  BY DEF Open
<1>2. /\ once \in States /\ Rises(once.marks)
      /\ \E i \in DOMAIN once.stack : once.stack[i].id = e
      /\ once.at >= at
      /\ once.at = at => Len(once.marks) = Len(marks)
  BY <1>1, ListenedIs, PushedKeeps
<1>3. /\ twice \in States /\ Rises(twice.marks)
      /\ twice.at >= once.at
      /\ twice.at = once.at => Len(twice.marks) = Len(once.marks)
  <2> DEFINE gone == Dropped(once, e)
  <2> HIDE DEF once
  <2>1. gone \in States /\ gone.marks = once.marks /\ gone.at = once.at
    BY <1>2, DroppedKeeps
  <2> HIDE DEF gone
  <2>2. Rises(gone.marks)
    BY <1>2, <2>1
  <2> QED BY <2>1, <2>2, PushedKeeps DEF gone
<1>4. \E s \in States :
        /\ Rises(s.marks) /\ Becomes(s) /\ s.at >= at
        /\ s.at = at => Len(s.marks) = Len(marks)
  <2>1. Becomes(IF strict THEN twice ELSE once)
    BY DEF Open
  <2>2. once.at \in Nat /\ twice.at \in Nat /\ at \in Nat
    BY <1>1, <1>2, <1>3, Typed DEF States
  <2> HIDE DEF once, twice
  <2> QED BY <1>2, <1>3, <2>1, <2>2
<1>5. /\ stack' \in Seq(Entries) /\ marks' \in Seq(Nat) /\ at' \in 0..Len(marks')
      /\ owed' \in {NoDebt} \cup Nat /\ Rises(marks')
      /\ at' >= at /\ (at' = at => Len(marks') = Len(marks))
  <2> SUFFICES ASSUME NEW s \in States, Rises(s.marks), Becomes(s), s.at >= at,
                      s.at = at => Len(s.marks) = Len(marks)
               PROVE  /\ stack' \in Seq(Entries) /\ marks' \in Seq(Nat) /\ at' \in 0..Len(marks')
                      /\ owed' \in {NoDebt} \cup Nat /\ Rises(marks')
                      /\ at' >= at /\ (at' = at => Len(marks') = Len(marks))
    BY <1>4
  <2>2. stack' = s.stack /\ marks' = s.marks /\ at' = s.at /\ owed' = s.owed
    BY DEF Becomes
  <2>3. /\ s.stack \in Seq(Entries) /\ s.marks \in Seq(Nat) /\ s.owed \in {NoDebt} \cup Nat
        /\ s.at \in 1..Len(s.marks) /\ Len(s.marks) \in Nat
    BY DEF States
  <2>4. s.at \in 0..Len(s.marks)
    BY <2>3
  <2> QED BY <2>2, <2>3, <2>4
<1>6. /\ listening' = TRUE /\ claimed' = (owed' # NoDebt) /\ doomed' = doomed \ {e}
      /\ pending' = [j \in DOMAIN pending |->
                       IF at' # at /\ pending[j] > at THEN at' ELSE pending[j]]
      /\ crossed' = (crossed \/ pending # <<>>)
      /\ returning' = returning /\ stray' = stray
  BY <1>1 DEF Open
<1>7. pending' \in Seq(0..Len(marks')) /\ Len(pending') = Len(pending)
  <2>1. /\ pending \in Seq(0..Len(marks)) /\ Len(pending) \in Nat
        /\ DOMAIN pending = 1..Len(pending) /\ at \in Nat /\ Len(marks) \in Nat
    BY <1>1, Typed
  <2>2. ASSUME NEW j \in 1..Len(pending)
        PROVE  (IF at' # at /\ pending[j] > at THEN at' ELSE pending[j]) \in 0..Len(marks')
    <3>1. pending[j] \in 0..Len(marks) /\ Len(marks') \in Nat /\ at' \in Nat
      BY <1>5, <2>1, ElementOfSeq
    <3> QED BY <1>5, <2>1, <3>1
  <2> DEFINE n == Len(pending)
             T == 0..Len(marks')
  <2>3. pending' \in [1..n -> T]
    BY <1>6, <2>1, <2>2
  <2> HIDE DEF n, T
  <2>4. n \in Nat
    BY <2>1 DEF n
  <2>5. pending' \in Seq(T) /\ Len(pending') = n
    BY <2>3, <2>4, LenProperties
  <2> QED BY <2>5 DEF n, T
<1>8. OverlayTypeOK'
  BY <1>5, <1>6, <1>7 DEF Sound, OverlayTypeOK, Entries
<1>9. ~crossed' => DOMAIN pending' = {}
  <2>1. DOMAIN pending' = DOMAIN pending
    BY <1>6
  <2>2. DOMAIN <<>> = {}
    OBVIOUS
  <2> QED BY <1>6, <2>1, <2>2
<1> QED BY <1>5, <1>6, <1>8, <1>9 DEF Sound

\* Mounting twice is mounting once, where the stack is as it should be.
LEMMA TwiceIsOnce ==
  ASSUME NEW s \in States, NEW e \in Overlays, \A i \in DOMAIN s.stack : s.stack[i].id # e,
         IF Owes(s) THEN Rises(s.marks) /\ s.owed <= Len(s.stack)
                    ELSE Len(s.stack) = s.marks[s.at]
  PROVE  /\ Pushed(Dropped(Pushed(s, e), e), e) = Pushed(s, e)
         /\ Owes(s) => Pushed(s, e) = TakenOver(s, e, s.owed + 1)
         /\ ~Owes(s) => Pushed(s, e) = Added(s, e)
<1> DEFINE n == Len(s.stack)
           depth == s.marks[s.at]
           once == Pushed(s, e)
           gone == Dropped(once, e)
           k == IF Owes(s) THEN s.owed + 1 ELSE n + 1
           x == [id |-> e, depth |-> k]
<1>1. /\ s \in [stack : Seq(Entries), marks : Seq(Nat), at : Nat, owed : {NoDebt} \cup Nat]
      /\ s.stack \in Seq(Entries) /\ n \in Nat /\ depth \in Nat /\ s.marks \in Seq(Nat)
      /\ s.at \in 1..Len(s.marks) /\ RisesTo(s.marks, s.at) /\ s.at \in Nat
      /\ s.owed \in {NoDebt} \cup Nat
  BY DEF States
<1>2. k \in 1..(n + 1) /\ (Owes(s) => s.owed \in Nat /\ s.owed < depth) /\ (~Owes(s) => n = depth)
  BY <1>1 DEF Owes
<1>3. Owes(s) => Min({s.owed + 1, n + 1}) = k
  <2> SUFFICES ASSUME Owes(s) PROVE Min({s.owed + 1, n + 1}) = s.owed + 1
    OBVIOUS
  <2>1. s.owed + 1 \in Int /\ n + 1 \in Int /\ s.owed + 1 <= n + 1
    BY <1>1, <1>2
  <2> QED BY <2>1, MinOfTwo
<1>4. /\ Owes(s) => once = TakenOver(s, e, k)
      /\ ~Owes(s) => once = Added(s, e)
  BY <1>3, PushedIs
<1>5. /\ once.stack = InsertAt(s.stack, k, x)
      /\ Owes(s) => once.marks = s.marks /\ once.at = s.at
      /\ Owes(s) => once.owed = IF k = depth THEN NoDebt ELSE k
      /\ ~Owes(s) => once.marks = WithEntry(s.marks, s.at) /\ once.at = s.at + 1
      /\ ~Owes(s) => once.owed = NoDebt
  <2>1. CASE Owes(s)
    BY <1>4, <2>1 DEF TakenOver
  <2>2. CASE ~Owes(s)
    <3>1. x \in Entries
      BY <1>2 DEF Entries
    <3>2. InsertAt(s.stack, n + 1, x) = Append(s.stack, x)
      BY <1>1, <3>1, InsertedLast
    <3>3. k = n + 1 /\ x = [id |-> e, depth |-> depth + 1]
      BY <1>2, <2>2
    <3>4. once = Added(s, e)
      BY <1>4, <2>2
    <3> HIDE DEF once, x, k
    <3>5. /\ once.stack = Append(s.stack, x) /\ once.marks = WithEntry(s.marks, s.at)
          /\ once.at = s.at + 1 /\ once.owed = NoDebt
      BY <3>3, <3>4 DEF Added
    <3> QED BY <2>2, <3>2, <3>3, <3>5
  <2> QED BY <2>1, <2>2
<1>6. x \in Entries
  BY <1>2 DEF Entries
<1> DEFINE more == InsertAt(s.stack, k, x)
<1>7. /\ more \in Seq(Entries) /\ Len(more) = n + 1
      /\ \A j \in 1..(n + 1) :
           more[j] = IF j < k THEN s.stack[j] ELSE IF j = k THEN x ELSE s.stack[j - 1]
      /\ RemoveAt(more, k) = s.stack
  BY <1>1, <1>2, <1>6, InsertIs, InsertedAndRemoved
<1>8. more[k].id = e /\ \A j \in 1..Len(more) : more[j].id = e => j = k
  <2>1. more[k] = x /\ x.id = e
    BY <1>2, <1>7
  <2>2. ASSUME NEW j \in 1..(n + 1), j # k PROVE more[j].id # e
    <3>1. CASE j < k
      <4>1. j \in 1..n /\ more[j] = s.stack[j]
        BY <1>1, <1>2, <1>7, <3>1
      <4> QED BY <1>1, <4>1
    <3>2. CASE j > k
      <4>1. j - 1 \in 1..n /\ more[j] = s.stack[j - 1]
        BY <1>1, <1>2, <1>7, <3>2
      <4> QED BY <1>1, <4>1
    <3> QED BY <1>1, <1>2, <2>2, <3>1, <3>2
  <2> QED BY <1>7, <2>1, <2>2
<1> HIDE DEF more
<1>9. once \in States /\ Rises(once.marks)
  BY PushedKeeps
<1> HIDE DEF once
<1>10. /\ gone \in States /\ gone.marks = once.marks /\ gone.at = once.at
       /\ gone.stack = s.stack /\ gone.owed = k - 1
  <2>0. once.stack = more
    BY <1>5 DEF more
  <2>1. \E i \in DOMAIN once.stack : once.stack[i].id = e
    <3>1. k \in DOMAIN more
      BY <1>2, <1>7
    <3> QED BY <1>8, <2>0, <3>1
  <2>2. PICK i \in 1..Len(once.stack) :
           /\ once.stack[i].id = e
           /\ Dropped(once, e) \in States
           /\ Dropped(once, e).marks = once.marks
           /\ Dropped(once, e).at = once.at
           /\ Dropped(once, e).stack = RemoveAt(once.stack, i)
           /\ Dropped(once, e).owed =
                IF once.owed = NoDebt \/ i - 1 <= once.owed THEN i - 1 ELSE once.owed
    BY <1>9, <2>1, DroppedKeeps
  <2>3. i = k
    BY <1>8, <2>0, <2>2
  <2>4. once.owed = NoDebt \/ k - 1 <= once.owed
    BY <1>2, <1>5
  <2> QED BY <1>7, <2>0, <2>2, <2>3, <2>4
<1>11. gone \in [stack : Seq(Entries), marks : Seq(Nat), at : Nat, owed : {NoDebt} \cup Nat]
  BY <1>10 DEF States
<1>12. CASE Owes(s)
  <2>1. /\ gone.stack = s.stack /\ gone.marks = s.marks /\ gone.at = s.at
        /\ gone.owed = s.owed
    BY <1>1, <1>2, <1>5, <1>10, <1>12
  <2>2. gone = s
    <3> HIDE DEF gone
    <3> QED BY <1>1, <1>11, <2>1
  <2> QED BY <1>4, <1>12, <2>2 DEF once
<1>13. CASE ~Owes(s)
  <2>1. gone.marks[gone.at] = n + 1 /\ gone.owed = n
    <3>1. WithEntry(s.marks, s.at)[s.at + 1] = depth + 1
      BY <1>1, EntryAdded
    <3> QED BY <1>2, <1>5, <1>10, <1>13, <3>1
  <2>2. Owes(gone)
    BY <1>1, <2>1 DEF Owes, NoDebt
  <2>3. Pushed(gone, e) = TakenOver(gone, e, Min({gone.owed + 1, Len(gone.stack) + 1}))
    BY <1>10, <2>2, PushedIs
  <2>4. Min({gone.owed + 1, Len(gone.stack) + 1}) = n + 1
    BY <1>1, <1>10, <2>1, MinOfTwo
  <2>5. TakenOver(gone, e, n + 1) =
          [stack |-> InsertAt(s.stack, n + 1, [id |-> e, depth |-> n + 1]),
           marks |-> once.marks, at |-> once.at, owed |-> NoDebt]
    BY <1>10, <2>1 DEF TakenOver
  <2>6. once \in [stack : Seq(Entries), marks : Seq(Nat), at : Nat, owed : {NoDebt} \cup Nat]
    BY <1>9 DEF States
  <2>7. once = [stack |-> InsertAt(s.stack, n + 1, [id |-> e, depth |-> n + 1]),
                marks |-> once.marks, at |-> once.at, owed |-> NoDebt]
    BY <1>5, <1>13, <2>6
  <2>8. Pushed(gone, e) = once
    BY <2>3, <2>4, <2>5, <2>7
  <2> QED BY <1>4, <1>13, <2>8 DEF once
<1> QED BY <1>12, <1>13

\* What opening an overlay does: it adds an entry on top of a full stack, or
\* takes over the one that is owed, in its place.
LEMMA OpenIs ==
  ASSUME Sound, ~stray, Tracked, NEW e \in Overlays, NEW strict \in BOOLEAN, Open(e, strict)
  PROVE  /\ listening' = TRUE /\ claimed' = (owed' # NoDebt) /\ doomed' = doomed \ {e}
         /\ returning = 0 /\ returning' = 0 /\ stray' = stray
         /\ ~crossed' => ~crossed /\ pending' = <<>>
         /\ \A i \in 1..Len(stack) : stack[i].id # e
         /\ \/ /\ \A i \in 1..Len(stack) : stack[i].depth = i
               /\ Len(stack') = Len(stack) + 1
               /\ \A i \in 1..Len(stack) : stack'[i] = stack[i]
               /\ stack'[Len(stack) + 1] = [id |-> e, depth |-> Len(stack) + 1]
               /\ Len(marks') = at + 1 /\ marks'[at + 1] = Len(stack) + 1
               /\ at' = at + 1 /\ owed' = NoDebt
            \/ /\ owed \in Nat /\ owed < Depth /\ ~claimed /\ owed <= Len(stack) /\ listening
               /\ Len(stack') = Len(stack) + 1
               /\ \A i \in 1..(Len(stack) + 1) :
                     stack'[i] = IF i < owed + 1 THEN stack[i]
                                 ELSE IF i = owed + 1 THEN [id |-> e, depth |-> owed + 1]
                                 ELSE stack[i - 1]
               /\ marks' = marks /\ at' = at
               /\ owed' = IF owed + 1 = Depth THEN NoDebt ELSE owed + 1
<1> DEFINE s == Listened(Here)
           n == Len(stack)
<1>0. [j \in DOMAIN <<>> |-> IF at' # at /\ <<>>[j] > at THEN at' ELSE <<>>[j]] = <<>>
  OBVIOUS
<1>1. /\ Running /\ returning = 0 /\ e \notin Ids(stack) /\ (owed = NoDebt \/ ~claimed)
      /\ listening' = TRUE /\ claimed' = (owed' # NoDebt) /\ doomed' = doomed \ {e}
      /\ returning' = 0 /\ stray' = stray
      /\ ~crossed' => ~crossed /\ pending' = <<>>
  BY <1>0 DEF Open
<1>2. \A i \in DOMAIN stack : stack[i].id # e
  BY <1>1 DEF Ids
<1>3. /\ s \in States /\ s.stack = stack /\ s.at = at /\ s.owed = owed
      /\ Len(s.marks) = Len(marks)
      /\ s.marks[at] = IF listening THEN Depth ELSE 0
      /\ listening => s.marks = marks
      /\ Owes(s) => listening /\ Rises(s.marks)
  BY <1>1, ListenedIs
<1>4. /\ stack \in Seq(Entries) /\ n \in Nat /\ at \in 1..Len(marks) /\ Depth \in Nat
      /\ owed \in {NoDebt} \cup Nat
  BY <1>1, Typed
<1>5. Becomes(IF strict THEN Pushed(Dropped(Pushed(s, e), e), e) ELSE Pushed(s, e))
  BY DEF Open
<1> HIDE DEF s
<1>6. CASE Owes(s)
  <2>1. listening /\ s.marks = marks /\ Depth = s.marks[at]
    BY <1>3, <1>6 DEF Depth
  <2>2. owed \in Nat /\ owed < Depth /\ ~claimed
    BY <1>1, <1>3, <1>4, <1>6, <2>1 DEF Owes
  <2>3. owed <= n
    BY <1>1, <2>2 DEF Tracked, Owing, NoDebt
  <2>4. Becomes(TakenOver(s, e, owed + 1))
    BY <1>2, <1>3, <1>5, <1>6, <2>3, TwiceIsOnce
  <2>5. /\ stack' = InsertAt(stack, owed + 1, [id |-> e, depth |-> owed + 1])
        /\ marks' = marks /\ at' = at
        /\ owed' = IF owed + 1 = Depth THEN NoDebt ELSE owed + 1
    BY <1>3, <2>1, <2>4 DEF Becomes, TakenOver
  <2>6. [id |-> e, depth |-> owed + 1] \in Entries /\ owed + 1 \in 1..(n + 1)
    BY <1>4, <2>2, <2>3 DEF Entries
  <2>7. /\ Len(stack') = n + 1
        /\ \A i \in 1..(n + 1) :
             stack'[i] = IF i < owed + 1 THEN stack[i]
                         ELSE IF i = owed + 1 THEN [id |-> e, depth |-> owed + 1]
                         ELSE stack[i - 1]
    BY <1>4, <2>5, <2>6, InsertIs
  <2> QED BY <1>1, <1>2, <1>4, <2>1, <2>2, <2>3, <2>5, <2>7
<1>7. CASE ~Owes(s)
  <2>1. n = s.marks[at] /\ \A i \in 1..n : stack[i].depth = i
    <3>1. CASE listening
      <4>1. s.marks[at] = Depth
        BY <1>3, <3>1
      <4>2. owed = NoDebt \/ owed >= Depth
        BY <1>3, <1>4, <1>7, <4>1 DEF Owes
      <4>3. Full
        BY <1>1, <3>1, <4>2 DEF Tracked, Owing
      <4> QED BY <1>4, <4>1, <4>3 DEF Full
    <3>2. CASE ~listening
      BY <1>3, <3>2 DEF Sound
    <3> QED BY <3>1, <3>2
  <2>2. Becomes(Added(s, e))
    BY <1>2, <1>3, <1>5, <1>7, <2>1, TwiceIsOnce
  <2>3. /\ stack' = Append(stack, [id |-> e, depth |-> n + 1])
        /\ marks' = WithEntry(s.marks, at) /\ at' = at + 1 /\ owed' = NoDebt
    BY <1>3, <2>1, <2>2 DEF Becomes, Added
  <2>4. s.marks \in Seq(Nat) /\ RisesTo(s.marks, at) /\ at \in 1..Len(s.marks)
    BY <1>3 DEF States
  <2>5. Len(marks') = at + 1 /\ marks'[at + 1] = n + 1
    <3>1. /\ Len(WithEntry(s.marks, at)) = at + 1
          /\ WithEntry(s.marks, at)[at + 1] = s.marks[at] + 1
      BY <2>4, EntryAdded
    <3> QED BY <2>1, <2>3, <3>1
  <2>6. [id |-> e, depth |-> n + 1] \in Entries
    BY <1>4 DEF Entries
  <2>7. /\ Len(stack') = n + 1 /\ stack'[n + 1] = [id |-> e, depth |-> n + 1]
        /\ \A i \in 1..n : stack'[i] = stack[i]
    BY <1>4, <2>3, <2>6, AppendProperties
  <2> QED BY <1>1, <1>2, <1>4, <2>1, <2>3, <2>5, <2>7
<1> QED BY <1>6, <1>7

\* An overlay on top of a full stack.
LEMMA AddedTracked ==
  ASSUME Sound, ~stray, Tracked, Sound', NEW e \in Overlays, NEW n \in Nat, n = Len(stack),
         \A i \in 1..n : stack[i].id # e /\ stack[i].depth = i,
         Len(stack') = n + 1, \A i \in 1..n : stack'[i] = stack[i],
         stack'[n + 1] = [id |-> e, depth |-> n + 1],
         Len(marks') = at + 1, marks'[at + 1] = n + 1,
         at \in Nat, at' = at + 1, owed' = NoDebt
  PROVE  Tracked' /\ (pending' = <<>> => Aimed')
<1>1. DOMAIN stack' = 1..(n + 1) /\ Depth' = n + 1 /\ DOMAIN stack = 1..n
  <2>1. stack' \in Seq([id : Overlays, depth : Nat]) /\ stack \in Seq([id : Overlays, depth : Nat])
    BY DEF Sound, OverlayTypeOK
  <2> QED BY <2>1 DEF Depth
<1>2. \A i \in 1..(n + 1) : stack'[i].depth = i
  OBVIOUS
<1>3. Full' /\ Rising'
  BY <1>1, <1>2 DEF Full, Rising
<1>4. Distinct'
  <2>1. \A i, j \in 1..n : stack[i].id = stack[j].id => i = j
    BY <1>1 DEF Tracked, Distinct
  <2>2. \A i \in 1..n : stack'[i].id = stack[i].id /\ stack[i].id # e
    OBVIOUS
  <2>3. stack'[n + 1].id = e
    OBVIOUS
  <2>4. \A i \in 1..(n + 1) : i = n + 1 \/ i \in 1..n
    OBVIOUS
  <2> QED BY <1>1, <2>1, <2>2, <2>3, <2>4 DEF Distinct
<1>5. Owing'
  BY <1>3 DEF Owing
<1>6. Debts'
  BY <1>1, <1>2 DEF Debts
<1>7. Ahead(at)'
  BY <1>1 DEF Ahead, Outside, Depth
<1>8. pending' = <<>> => Near' /\ Asked'
  BY DEF Near, Asked
<1> QED BY <1>3, <1>4, <1>5, <1>6, <1>7, <1>8 DEF Tracked, Aimed

\* An overlay in the place of one that was dropped.
LEMMA TakenTracked ==
  ASSUME Sound, ~stray, Tracked, Sound', NEW e \in Overlays, NEW n \in Nat, n = Len(stack),
         \A i \in 1..n : stack[i].id # e,
         NEW k \in Nat, k = owed, k < Depth, ~claimed, k <= n, listening, Running,
         Len(stack') = n + 1,
         \A i \in 1..(n + 1) :
            stack'[i] = IF i < k + 1 THEN stack[i]
                        ELSE IF i = k + 1 THEN [id |-> e, depth |-> k + 1] ELSE stack[i - 1],
         marks' = marks, at' = at, owed' = IF k + 1 = Depth THEN NoDebt ELSE k + 1,
         doomed' = doomed \ {e}, claimed' = (owed' # NoDebt), listening', returning = 0
  PROVE  Tracked' /\ (Aimed /\ pending' = <<>> => Aimed')
<1>1. /\ DOMAIN stack' = 1..(n + 1) /\ DOMAIN stack = 1..n
      /\ Depth' = Depth /\ Depth \in Nat
      /\ \A i \in 1..n : stack[i].depth \in Nat /\ stack[i].id \in Overlays
  <2>1. stack' \in Seq([id : Overlays, depth : Nat]) /\ stack \in Seq([id : Overlays, depth : Nat])
    BY DEF Sound, OverlayTypeOK
  <2> QED BY <2>1, Typed DEF Depth
<1>2. /\ \A i \in 1..n : stack[i].depth >= i /\ stack[i].depth <= Depth
      /\ \A i, j \in 1..n : i < j => stack[j].depth >= stack[i].depth + (j - i)
  BY <1>1 DEF Tracked, Rising
<1>3. /\ \A i \in 1..n : i <= k => stack[i].depth = i
      /\ \A i \in 1..n : i > k => stack[i].depth > i
  <2>1. owed # NoDebt /\ owed < Depth /\ Owing /\ returning = 0
    BY DEF NoDebt, Tracked
  <2> QED BY <1>1, <2>1 DEF Owing
<1>4. /\ \A i \in 1..(n + 1) : i <= k => i \in 1..n /\ stack'[i] = stack[i]
      /\ k + 1 \in 1..(n + 1) /\ stack'[k + 1] = [id |-> e, depth |-> k + 1]
      /\ \A i \in 1..(n + 1) : i > k + 1 => i - 1 \in 1..n /\ i - 1 > k /\ stack'[i] = stack[i - 1]
      /\ \A i \in 1..(n + 1) : i <= k \/ i = k + 1 \/ i > k + 1
  OBVIOUS
<1>5. \A i \in 1..(n + 1) : i <= k + 1 => stack'[i].depth = i
  BY <1>3, <1>4
<1>6. Rising'
  <2>1. ASSUME NEW i \in 1..(n + 1) PROVE stack'[i].depth >= i /\ stack'[i].depth <= Depth
    <3>1. CASE i <= k + 1
      BY <1>1, <1>5, <3>1
    <3>2. CASE i > k + 1
      <4>1. /\ i - 1 \in 1..n /\ stack'[i].depth = stack[i - 1].depth
            /\ stack[i - 1].depth > i - 1 /\ stack[i - 1].depth <= Depth
            /\ stack[i - 1].depth \in Nat
        BY <1>1, <1>2, <1>3, <1>4, <3>2
      <4> QED BY <4>1
    <3> QED BY <1>4, <3>1, <3>2
  <2>2. ASSUME NEW i \in 1..(n + 1), NEW j \in 1..(n + 1), i < j
        PROVE  stack'[j].depth >= stack'[i].depth + (j - i)
    <3>1. CASE j <= k + 1
      BY <1>5, <2>2, <3>1
    <3>2. CASE j > k + 1 /\ i <= k + 1
      <4>1. stack'[i].depth = i /\ stack'[j].depth >= j /\ stack'[j].depth \in Nat
        BY <1>1, <1>4, <1>5, <2>1, <3>2
      <4> QED BY <3>2, <4>1
    <3>3. CASE i > k + 1
      <4>1. j > k + 1 /\ i - 1 < j - 1 /\ (j - 1) - (i - 1) = j - i
        BY <2>2, <3>3
      <4>2. /\ i - 1 \in 1..n /\ stack'[i] = stack[i - 1]
            /\ j - 1 \in 1..n /\ stack'[j] = stack[j - 1]
        BY <1>4, <3>3, <4>1
      <4>3. stack[j - 1].depth >= stack[i - 1].depth + ((j - 1) - (i - 1))
        BY <1>2, <4>1, <4>2
      <4> QED BY <4>1, <4>2, <4>3
    <3> QED BY <1>4, <3>1, <3>2, <3>3
  <2> QED BY <1>1, <2>1, <2>2 DEF Rising
<1>7. Distinct'
  <2> DEFINE source(i) == IF i <= k THEN i ELSE i - 1
  <2>1. \A i \in 1..(n + 1) : i # k + 1 =>
           source(i) \in 1..n /\ stack'[i].id = stack[source(i)].id /\ stack'[i].id # e
    BY <1>4
  <2>2. \A i, j \in 1..(n + 1) : i # k + 1 /\ j # k + 1 /\ source(i) = source(j) => i = j
    OBVIOUS
  <2>3. \A i, j \in 1..n : stack[i].id = stack[j].id => i = j
    BY <1>1 DEF Tracked, Distinct
  <2>4. stack'[k + 1].id = e
    BY <1>4
  <2> HIDE DEF source
  <2>5. ASSUME NEW i \in 1..(n + 1), NEW j \in 1..(n + 1), stack'[i].id = stack'[j].id
        PROVE  i = j
    <3>1. CASE i = k + 1 \/ j = k + 1
      BY <2>1, <2>4, <2>5, <3>1
    <3>2. CASE i # k + 1 /\ j # k + 1
      <4>1. source(i) = source(j)
        BY <2>1, <2>3, <2>5, <3>2
      <4> QED BY <2>2, <3>2, <4>1
    <3> QED BY <3>1, <3>2
  <2> QED BY <1>1, <2>5 DEF Distinct
<1>8. Owing'
  <2>1. CASE k + 1 = Depth
    <3>1. n = k
      <4> SUFFICES ASSUME n > k PROVE FALSE
        OBVIOUS
      <4>1. k + 1 \in 1..n /\ stack[k + 1].depth > k + 1
        BY <1>3
      <4> QED BY <1>1, <1>2, <2>1, <4>1
    <3>2. Full'
      BY <1>1, <1>5, <2>1, <3>1 DEF Full
    <3>3. owed' = NoDebt
      BY <2>1
    <3> QED BY <3>2, <3>3 DEF Owing
  <2>2. CASE k + 1 # Depth
    <3>0. owed' = k + 1 /\ k + 1 < Depth /\ owed' # NoDebt
      BY <1>1, <2>2 DEF NoDebt
    <3>1. /\ owed' = k + 1 /\ k + 1 < Depth /\ owed' # NoDebt
          /\ claimed' = (owed' # NoDebt)
      BY <3>0
    <3>2. ~(owed' >= Depth') /\ owed' <= Len(stack')
      BY <1>1, <3>1
    <3>3. \A i \in DOMAIN stack' : i <= owed' => stack'[i].depth = i
      BY <1>1, <1>5, <3>1
    <3>4. claimed'
      BY <3>1
    <3> QED BY <3>1, <3>2, <3>3, <3>4 DEF Owing
  <2> QED BY <2>1, <2>2
<1>9. Debts'
  <2>1. /\ \A i \in 1..n : stack[i].depth > k => stack[i].id \in doomed
        /\ \A i \in 1..n : stack[i].depth > i => stack[i].id \in doomed
    <3>1. owed # NoDebt
      BY DEF NoDebt
    <3> QED BY <1>1, <3>1 DEF Tracked, Debts
  <2>2. ASSUME owed' # NoDebt, NEW i \in 1..(n + 1), stack'[i].depth > owed'
        PROVE  stack'[i].id \in doomed'
    <3>1. owed' = k + 1 /\ i > k + 1
      BY <1>1, <1>4, <1>5, <2>2
    <3>2. i - 1 \in 1..n /\ stack'[i] = stack[i - 1] /\ stack[i - 1].depth > k
      BY <1>1, <1>4, <2>2, <3>1
    <3> QED BY <2>1, <3>2
  <2>3. ASSUME NEW i \in 1..(n + 1), stack'[i].depth > i PROVE stack'[i].id \in doomed'
    <3>1. i > k + 1
      BY <1>4, <1>5, <2>3
    <3>2. /\ i - 1 \in 1..n /\ stack'[i] = stack[i - 1]
          /\ stack[i - 1].depth \in Nat /\ stack[i - 1].depth > i - 1
      BY <1>1, <1>3, <1>4, <2>3, <3>1
    <3> QED BY <2>1, <3>2
  <2> QED BY <1>1, <2>2, <2>3 DEF Debts
<1>10. ASSUME Aimed, pending' = <<>> PROVE Aimed'
  <2>1. Near' /\ Asked'
    BY <1>10 DEF Near, Asked
  <2>2. Depth # 0 /\ Ahead(at)
    BY <1>1, <1>10 DEF Aimed
  <2>3. Ahead(at)'
    BY <2>2 DEF Ahead
  <2> QED BY <2>1, <2>3 DEF Aimed
<1> QED BY <1>6, <1>7, <1>8, <1>9, <1>10 DEF Tracked

LEMMA OpenKeeps ==
  ASSUME OverlayInv, NEW e \in Overlays, NEW strict \in BOOLEAN, Open(e, strict)
  PROVE  OverlayInv'
<1>1. Sound /\ Sound' /\ Running /\ stray' = stray
  BY OpenSound DEF OverlayInv, Open
<1>2. CASE stray
  BY <1>1, <1>2 DEF OverlayInv
<1>3. CASE ~stray
  <2>1. Tracked /\ Len(stack) \in Nat /\ at \in Nat
    BY <1>1, <1>3, Typed DEF OverlayInv
  <2> DEFINE n == Len(stack)
             adds == /\ \A i \in 1..n : stack[i].depth = i
                     /\ Len(stack') = n + 1
                     /\ \A i \in 1..n : stack'[i] = stack[i]
                     /\ stack'[n + 1] = [id |-> e, depth |-> n + 1]
                     /\ Len(marks') = at + 1 /\ marks'[at + 1] = n + 1
                     /\ at' = at + 1 /\ owed' = NoDebt
  <2>2. /\ listening' = TRUE /\ claimed' = (owed' # NoDebt) /\ doomed' = doomed \ {e}
        /\ returning = 0 /\ returning' = 0 /\ \A i \in 1..n : stack[i].id # e
        /\ ~crossed' => ~crossed /\ pending' = <<>>
    BY <1>1, <1>3, <2>1, OpenIs
  <2>3. Tracked' /\ (Aimed /\ pending' = <<>> => Aimed')
    <3>1. CASE adds
      BY <1>1, <1>3, <2>1, <2>2, <3>1, AddedTracked
    <3>2. CASE ~adds
      <4>1. /\ owed \in Nat /\ owed < Depth /\ ~claimed /\ owed <= n /\ listening
            /\ Len(stack') = n + 1
            /\ \A i \in 1..(n + 1) :
                  stack'[i] = IF i < owed + 1 THEN stack[i]
                              ELSE IF i = owed + 1 THEN [id |-> e, depth |-> owed + 1]
                              ELSE stack[i - 1]
            /\ marks' = marks /\ at' = at
            /\ owed' = IF owed + 1 = Depth THEN NoDebt ELSE owed + 1
        BY <1>1, <1>3, <2>1, <3>2, OpenIs
      <4> QED BY <1>1, <1>3, <2>1, <2>2, <4>1, TakenTracked
    <3> QED BY <3>1, <3>2
  <2> QED BY <1>1, <1>3, <2>2, <2>3 DEF OverlayInv
<1> QED BY <1>2, <1>3

\* What closing an overlay from within the application does.
LEMMA DropIs ==
  ASSUME Sound, NEW e \in Overlays, Drop(e)
  PROVE  /\ Running /\ pending' = pending /\ marks' = marks /\ at' = at
         /\ listening' = listening /\ claimed' = claimed /\ stray' = stray /\ listening
         /\ returning' = returning /\ crossed' = crossed
         /\ doomed' \subseteq Overlays /\ stack' \in Seq(Entries)
         /\ \E i \in 1..Len(stack) :
              /\ stack[i].id = e
              /\ Len(stack') = Len(stack) - 1
              /\ \A j \in 1..(Len(stack) - 1) : stack'[j] = IF j < i THEN stack[j] ELSE stack[j + 1]
              /\ owed' = IF owed = NoDebt \/ i - 1 <= owed THEN i - 1 ELSE owed
              /\ owed' \in Nat
              /\ Distinct => doomed' = (doomed \cup {stack[j].id : j \in (i + 1)..Len(stack)}) \ {e}
<1>1. /\ Running /\ e \in Ids(stack) /\ Becomes(Dropped(Here, e))
      /\ doomed' = (doomed \cup Above(e)) \ {e}
      /\ UNCHANGED <<listening, pending, claimed, returning, crossed, stray>>
  BY DEF Drop
<1>2. /\ stack \in Seq(Entries) /\ Len(stack) \in Nat /\ at \in 1..Len(marks)
      /\ owed \in {NoDebt} \cup Nat /\ doomed \subseteq Overlays /\ marks \in Seq(Nat)
      /\ Len(marks) \in Nat
      /\ \A i \in 1..Len(stack) : stack[i].id \in Overlays
  BY <1>1, Typed
<1>3. \E i \in DOMAIN stack : stack[i].id = e
  BY <1>1 DEF Ids
<1>4. Here \in States
  <2>1. RisesTo(marks, at)
    BY <1>2, RisesBelow DEF Sound, Rises
  <2> QED BY <1>2, <2>1 DEF Here, States
<1>5. PICK i \in 1..Len(stack) :
        /\ stack[i].id = e
        /\ Dropped(Here, e).marks = marks
        /\ Dropped(Here, e).at = at
        /\ Dropped(Here, e).stack = RemoveAt(stack, i)
        /\ Dropped(Here, e).owed = IF owed = NoDebt \/ i - 1 <= owed THEN i - 1 ELSE owed
  <2>1. Here.stack = stack /\ Here.marks = marks /\ Here.at = at /\ Here.owed = owed
    BY DEF Here
  <2> QED BY <1>3, <1>4, <2>1, DroppedKeeps
<1>6. /\ stack' = RemoveAt(stack, i) /\ marks' = marks /\ at' = at
      /\ owed' = IF owed = NoDebt \/ i - 1 <= owed THEN i - 1 ELSE owed
  BY <1>1, <1>5 DEF Becomes
<1>7. /\ stack' \in Seq(Entries) /\ Len(stack') = Len(stack) - 1
      /\ \A j \in 1..(Len(stack) - 1) : stack'[j] = IF j < i THEN stack[j] ELSE stack[j + 1]
  BY <1>2, <1>6, RemoveIs
<1>8. owed' \in Nat
  BY <1>2, <1>6 DEF NoDebt
<1> DEFINE c == CHOOSE j \in DOMAIN stack : stack[j].id = e
<1>9. c \in 1..Len(stack) /\ stack[c].id = e /\ Above(e) = {stack[j].id : j \in (c + 1)..Len(stack)}
  <2>1. c \in 1..Len(stack) /\ stack[c].id = e
    BY <1>2, <1>3, PlaceOf
  <2>2. Above(e) = {stack[j].id : j \in (c + 1)..Len(stack)}
    BY DEF Above
  <2> QED BY <2>1, <2>2
<1> HIDE DEF c
<1>10. doomed' \subseteq Overlays
  BY <1>1, <1>2, <1>9
<1>11. Distinct => c = i
  <2>1. DOMAIN stack = 1..Len(stack)
    BY <1>2
  <2> QED BY <1>5, <1>9, <2>1 DEF Distinct
<1>12. listening
  <2>1. stack # <<>>
    BY <1>2, <1>5
  <2> QED BY <2>1 DEF Sound
<1> QED BY <1>1, <1>5, <1>6, <1>7, <1>8, <1>9, <1>10, <1>11, <1>12

LEMMA DropSound ==
  ASSUME Sound, NEW e \in Overlays, Drop(e)
  PROVE  Sound'
<1>1. /\ pending' = pending /\ marks' = marks /\ at' = at
      /\ listening' = listening /\ claimed' = claimed /\ stray' = stray /\ listening
      /\ returning' = returning /\ crossed' = crossed
      /\ doomed' \subseteq Overlays /\ stack' \in Seq(Entries) /\ owed' \in Nat
  BY DropIs
<1>2. /\ marks \in Seq(Nat) /\ at \in 0..Len(marks) /\ Rises(marks)
      /\ listening \in BOOLEAN /\ claimed \in BOOLEAN /\ stray \in BOOLEAN /\ crossed \in BOOLEAN
      /\ pending \in Seq(0..Len(marks)) /\ returning \in 0..Len(pending)
  BY DEF Sound, OverlayTypeOK
<1>3. OverlayTypeOK'
  BY <1>1, <1>2 DEF OverlayTypeOK, Entries
<1> QED BY <1>1, <1>2, <1>3 DEF Sound, NoDebt

\* Arithmetic that the proofs below need in large contexts.
LEMMA OneLess ==
  ASSUME NEW a \in Nat, NEW b \in Nat, NEW c \in Nat, b >= 1, b <= c, a = b - 1
  PROVE  a < c /\ a <= b - 1
OBVIOUS

LEMMA StepsBack ==
  ASSUME NEW a \in Nat, NEW d \in Nat, NEW p \in Nat, NEW q \in Nat, p >= a - d, q > p, q < a
  PROVE  a - q \in 0..d /\ a - (a - q) = q /\ d - (a - q) # 0
OBVIOUS

LEMMA Below ==
  ASSUME NEW a \in Nat, NEW b \in Nat, NEW c \in Nat, a < b, b <= c
  PROVE  a < c
OBVIOUS

\* The gap that a dropped overlay leaves is owed, with all that is above it.
LEMMA DroppedTracked ==
  ASSUME Sound, Tracked, Running, Sound', listening,
         marks' = marks, at' = at, claimed' = claimed, listening' = listening,
         pending' = pending, returning' = returning,
         NEW e, NEW n \in Nat, n = Len(stack), NEW i \in 1..n, stack[i].id = e,
         Len(stack') = n - 1,
         \A j \in 1..(n - 1) : stack'[j] = IF j < i THEN stack[j] ELSE stack[j + 1],
         NEW m \in Nat, owed' = m, m = IF owed = NoDebt \/ i - 1 <= owed THEN i - 1 ELSE owed,
         doomed' = (doomed \cup {stack[j].id : j \in (i + 1)..n}) \ {e}
  PROVE  Tracked' /\ (Aimed => Aimed')
<1>1. /\ DOMAIN stack' = 1..(n - 1) /\ DOMAIN stack = 1..n
      /\ Depth' = Depth /\ Depth \in Nat /\ owed \in {NoDebt} \cup Nat
      /\ \A j \in 1..n : stack[j].depth \in Nat
  <2>1. stack' \in Seq([id : Overlays, depth : Nat]) /\ stack \in Seq([id : Overlays, depth : Nat])
    BY DEF Sound, OverlayTypeOK
  <2> QED BY <2>1, Typed DEF Depth
<1>2. /\ \A j \in 1..n : stack[j].depth >= j /\ stack[j].depth <= Depth
      /\ \A j, l \in 1..n : j < l => stack[l].depth >= stack[j].depth + (l - j)
      /\ \A j, l \in 1..n : stack[j].id = stack[l].id => j = l
  BY <1>1 DEF Tracked, Rising, Distinct
<1>0. i \in Nat /\ i >= 1 /\ i <= n
  OBVIOUS
\* Without a debt as deep as that, the debt is the place of the overlay.
<1>3. /\ m <= i - 1 /\ m < Depth
      /\ m # i - 1 => m = owed /\ owed # NoDebt
  <2>0. m \in Nat /\ n \in Nat /\ Depth \in Nat
    BY <1>1
  <2>1. n <= Depth
    <3>1. n \in 1..n /\ stack[n].depth >= n /\ stack[n].depth <= Depth /\ stack[n].depth \in Nat
      BY <1>0, <1>1, <1>2
    <3> QED BY <1>1, <3>1
  <2>2. CASE owed = NoDebt \/ i - 1 <= owed
    <3>1. m = i - 1
      BY <2>2
    <3>2. m < n /\ m <= i - 1
      BY <1>0, <2>0, <3>1, OneLess
    <3>3. m < Depth
      BY <2>0, <2>1, <3>2, Below
    <3> QED BY <3>1, <3>2, <3>3
  <2>3. CASE ~(owed = NoDebt \/ i - 1 <= owed)
    <3>1. m = owed /\ owed # NoDebt /\ owed \in Nat
      BY <1>1, <2>3
    <3>2. m <= i - 1 /\ m < n
      BY <1>0, <2>3, <3>1, SMTT(30)
    <3>3. m < Depth
      BY <2>0, <2>1, <3>2, Below
    <3> QED BY <3>1, <3>2, <3>3
  <2> QED BY <2>2, <2>3
<1>12. ASSUME returning = 0, NEW j \in 1..n, j <= m PROVE stack[j].depth = j
  <2>1. CASE owed = NoDebt \/ owed >= Depth
    BY <1>1, <1>12, <2>1 DEF Tracked, Owing, Full
  <2>2. CASE ~(owed = NoDebt \/ owed >= Depth)
    <3>1. owed # NoDebt /\ owed \in Nat /\ owed < Depth
      BY <1>1, <2>2 DEF NoDebt
    <3>2. j <= owed
      BY <1>0, <1>12, <3>1
    <3> QED BY <1>1, <1>12, <3>1, <3>2 DEF Tracked, Owing
  <2> QED BY <2>1, <2>2
<1>4. /\ \A j \in 1..(n - 1) : j < i => j \in 1..n /\ stack'[j] = stack[j]
      /\ \A j \in 1..(n - 1) : j >= i => j + 1 \in 1..n /\ stack'[j] = stack[j + 1]
      /\ \A j \in 1..(n - 1) : j < i \/ j >= i
  OBVIOUS
<1>5. Rising'
  <2>1. ASSUME NEW j \in 1..(n - 1) PROVE stack'[j].depth >= j /\ stack'[j].depth <= Depth
    <3>1. CASE j < i
      BY <1>2, <1>4, <3>1
    <3>2. CASE j >= i
      <4>1. /\ stack'[j] = stack[j + 1] /\ stack[j + 1].depth \in Nat
            /\ stack[j + 1].depth >= j + 1 /\ stack[j + 1].depth <= Depth
        BY <1>1, <1>2, <1>4, <3>2
      <4> QED BY <4>1
    <3> QED BY <1>4, <3>1, <3>2
  <2>2. ASSUME NEW j \in 1..(n - 1), NEW l \in 1..(n - 1), j < l
        PROVE  stack'[l].depth >= stack'[j].depth + (l - j)
    <3>1. CASE l < i
      BY <1>2, <1>4, <2>2, <3>1
    <3>2. CASE j < i /\ l >= i
      <4>1. /\ j \in 1..n /\ l + 1 \in 1..n /\ j < l + 1
            /\ stack'[j] = stack[j] /\ stack'[l] = stack[l + 1]
        BY <1>4, <2>2, <3>2
      <4>2. stack[l + 1].depth >= stack[j].depth + (l + 1 - j)
        BY <1>2, <4>1
      <4>3. stack[l + 1].depth \in Nat /\ stack[j].depth \in Nat
        BY <1>1, <4>1
      <4>4. stack[l + 1].depth >= stack[j].depth + (l - j)
        BY <4>2, <4>3, SMTT(30)
      <4> QED BY <4>1, <4>4
    <3>3. CASE j >= i
      <4>1. j + 1 < l + 1 /\ l >= i
        BY <2>2, <3>3
      <4> QED BY <1>2, <1>4, <3>3, <4>1
    <3> QED BY <3>1, <3>2, <3>3
  <2> QED BY <1>1, <2>1, <2>2 DEF Rising
<1>6. Distinct'
  <2> DEFINE source(j) == IF j < i THEN j ELSE j + 1
  <2>1. \A j \in 1..(n - 1) : source(j) \in 1..n /\ stack'[j] = stack[source(j)]
    BY <1>4
  <2>2. \A j, l \in 1..(n - 1) : source(j) = source(l) => j = l
    OBVIOUS
  <2> HIDE DEF source
  <2>3. ASSUME NEW j \in 1..(n - 1), NEW l \in 1..(n - 1), stack'[j].id = stack'[l].id
        PROVE  j = l
    <3>1. source(j) = source(l)
      BY <1>2, <2>1, <2>3
    <3> QED BY <2>2, <3>1
  <2> QED BY <1>1, <2>3 DEF Distinct
<1>7. Owing'
  <2>1. owed' # NoDebt /\ ~(owed' >= Depth') /\ owed' <= Len(stack')
    BY <1>0, <1>1, <1>3 DEF NoDebt
  <2>2. ASSUME returning' = 0, NEW j \in 1..(n - 1), j <= m PROVE stack'[j].depth = j
    <3>1. j < i /\ j \in 1..n
      BY <1>0, <1>3, <2>2
    <3> QED BY <1>4, <1>12, <2>2, <3>1
  <2>3. ASSUME ~claimed, NEW j \in 1..(n - 1), j > m PROVE stack'[j].depth > j
    <3>1. CASE j >= i
      <4>1. j + 1 \in 1..n /\ stack'[j] = stack[j + 1]
        BY <1>4, <3>1
      <4>2. stack[j + 1].depth >= j + 1 /\ stack[j + 1].depth \in Nat
        BY <1>1, <1>2, <4>1
      <4> QED BY <4>1, <4>2
    <3>2. CASE j < i
      <4>1. m = owed /\ owed # NoDebt
        BY <1>0, <1>3, <2>3, <3>2
      <4>2. \A l \in 1..n : l > owed => stack[l].depth > l
        BY <1>1, <2>3, <4>1 DEF Tracked, Owing
      <4> QED BY <1>4, <2>3, <3>2, <4>1, <4>2
    <3> QED BY <3>1, <3>2
  <2> QED BY <1>1, <2>1, <2>2, <2>3 DEF Owing
\* What is above the dropped overlay is asked to close with it.
<1>8. ASSUME NEW j \in 1..(n - 1), j >= i \/ stack[j].id \in doomed
      PROVE  stack'[j].id \in doomed'
  <2>1. CASE j >= i
    <3>1. j + 1 \in (i + 1)..n /\ stack'[j] = stack[j + 1] /\ j + 1 # i
      BY <1>4, <2>1
    <3>2. stack[j + 1].id # e
      BY <1>2, <3>1
    <3> QED BY <3>1, <3>2
  <2>2. CASE j < i
    <3>1. j \in 1..n /\ stack'[j] = stack[j] /\ stack[j].id \in doomed
      BY <1>0, <1>4, <1>8, <2>2
    <3>2. stack[j].id # e
      BY <1>2, <2>2, <3>1
    <3> QED BY <3>1, <3>2
  <2> QED BY <1>4, <2>1, <2>2
<1>9. Debts'
  <2>1. ASSUME NEW j \in 1..(n - 1), stack'[j].depth > j PROVE stack'[j].id \in doomed'
    <3>1. CASE j >= i
      BY <1>8, <3>1
    <3>2. CASE j < i
      <4>1. j \in 1..n /\ stack[j].depth > j
        BY <1>4, <2>1, <3>2
      <4> QED BY <1>1, <1>8, <4>1 DEF Tracked, Debts
    <3> QED BY <1>4, <3>1, <3>2
  <2>2. ASSUME NEW j \in 1..(n - 1), stack'[j].depth > m PROVE stack'[j].id \in doomed'
    <3>1. CASE j >= i
      BY <1>8, <3>1
    <3>2. CASE j < i
      <4>1. j \in 1..n /\ stack[j].depth > m /\ stack[j].depth \in Nat
        BY <1>1, <1>4, <2>2, <3>2
      <4>2. CASE m = i - 1
        <5>1. stack[j].depth > j
          BY <1>0, <3>2, <4>1, <4>2
        <5> QED BY <1>1, <1>8, <4>1, <5>1 DEF Tracked, Debts
      <4>3. CASE m # i - 1
        <5>1. owed # NoDebt /\ stack[j].depth > owed
          BY <1>3, <4>1, <4>3
        <5> QED BY <1>1, <1>8, <4>1, <5>1 DEF Tracked, Debts
      <4> QED BY <4>2, <4>3
    <3> QED BY <1>4, <3>1, <3>2
  <2> QED BY <1>1, <2>1, <2>2 DEF Debts
<1>10. ASSUME Aimed PROVE Aimed'
  <2>1. Near' /\ (listening /\ Depth # 0 => Ahead(at))
    BY <1>1, <1>10 DEF Aimed, Near
  <2>2. (listening /\ Depth # 0 => Ahead(at))'
    BY <1>1, <2>1 DEF Ahead
  <2>3. ASSUME NEW p, Covers(p), NEW q, q = p PROVE Covers(q)'
    <3>1. ASSUME NEW j \in 1..(n - 1), stack'[j].id \notin doomed'
          PROVE  j \in 1..n /\ stack'[j] = stack[j] /\ stack[j].id \notin doomed
      BY <1>4, <1>8, <3>1
    <3>2. CASE AllDoomed
      BY <1>1, <3>1, <3>2 DEF AllDoomed, Covers
    <3>3. CASE ~AllDoomed
      <4>1. Ahead(p) /\ \A j \in 1..n : stack[j].depth > marks[p] => stack[j].id \in doomed
        BY <1>1, <2>3, <3>3 DEF Covers
      <4>2. Ahead(p)' /\ q' = q
        BY <4>1, <2>3 DEF Ahead
      <4>3. \A j \in 1..(n - 1) : stack'[j].depth > marks'[p] => stack'[j].id \in doomed'
        BY <3>1, <4>1
      <4> QED BY <1>1, <2>3, <4>2, <4>3 DEF Covers
    <3> QED BY <3>2, <3>3
  <2>4. Asked'
    BY <1>10, <2>3 DEF Aimed, Asked, Covers
  <2> QED BY <2>1, <2>2, <2>4 DEF Aimed
<1> QED BY <1>5, <1>6, <1>7, <1>9, <1>10 DEF Tracked

LEMMA DropKeeps ==
  ASSUME OverlayInv, NEW e \in Overlays, Drop(e)
  PROVE  OverlayInv'
<1>1. Sound /\ Sound' /\ Running /\ stray' = stray /\ crossed' = crossed
  BY DropSound, DropIs DEF OverlayInv
<1>2. CASE stray
  BY <1>1, <1>2 DEF OverlayInv
<1>3. CASE ~stray
  <2>1. Tracked /\ Distinct /\ Len(stack) \in Nat
    BY <1>1, <1>3, Typed DEF OverlayInv, Tracked
  <2>2. Tracked' /\ (Aimed => Aimed')
    BY <1>1, <2>1, DropIs, DroppedTracked
  <2> QED BY <1>1, <1>3, <2>2 DEF OverlayInv
<1> QED BY <1>2, <1>3

-----------------------------------------------------------------------------
(* Traversals.                                                             *)

\* What history at depth d leaves of a rising stack: the overlays up to d.
LEMMA BackedHere ==
  ASSUME Sound, NEW d \in Nat
  PROVE  \E m \in 0..Len(stack) :
           /\ Len(Backed(stack, d)) = m /\ Backed(stack, d) \in Seq(Entries) /\ m <= d
           /\ \A i \in 1..m : Backed(stack, d)[i] = stack[i]
           /\ Rising => \A i \in 1..m : stack[i].depth <= d
           /\ Rising => \A i \in (m + 1)..Len(stack) : stack[i].depth > d
<1>1. /\ stack \in Seq(Entries) /\ Len(stack) \in Nat
      /\ \A i \in 1..Len(stack) : stack[i] \in Entries
      /\ \A i \in 1..Len(stack) : stack[i].depth \in Nat
  BY Typed
<1>2. PICK m \in 0..Len(stack) :
        /\ Backed(stack, d) = SubSeq(stack, 1, m)
        /\ m = 0 \/ (m <= d /\ stack[m].depth <= d)
        /\ \A n \in (m + 1)..Len(stack) : n > d \/ stack[n].depth > d
  BY <1>1, BackedIs
<1>3. \A i \in 1..m : i \in 1..Len(stack)
  OBVIOUS
<1>4. /\ Backed(stack, d) \in Seq(Entries) /\ Len(Backed(stack, d)) = m
      /\ \A i \in 1..m : Backed(stack, d)[i] = stack[i]
  BY <1>1, <1>2, <1>3, SubSeqProperties
<1>5. m <= d
  BY <1>2
<1>6. ASSUME Rising, NEW i \in 1..m PROVE stack[i].depth <= d
  <2>1. m \in 1..Len(stack) /\ i \in 1..Len(stack) /\ stack[m].depth <= d
    BY <1>2
  <2>2. CASE i = m
    BY <2>1, <2>2
  <2>3. CASE i < m
    <3>1. DOMAIN stack = 1..Len(stack)
      BY <1>1
    <3>2. stack[m].depth >= stack[i].depth + (m - i)
      BY <1>6, <2>1, <2>3, <3>1 DEF Rising
    <3>3. stack[m].depth \in Nat /\ stack[i].depth \in Nat
      BY <1>1, <2>1
    <3> QED BY <2>1, <2>3, <3>2, <3>3
  <2> QED BY <2>2, <2>3
<1>7. ASSUME Rising, NEW i \in (m + 1)..Len(stack) PROVE stack[i].depth > d
  <2>1. i \in 1..Len(stack) /\ i \in DOMAIN stack
    BY <1>1
  <2>2. stack[i].depth >= i /\ stack[i].depth \in Nat
    BY <1>1, <1>7, <2>1 DEF Rising
  <2>3. i > d \/ stack[i].depth > d
    BY <1>2
  <2> QED BY <2>1, <2>2, <2>3
<1> QED BY <1>4, <1>5, <1>6, <1>7

\* A traversal asks for every overlay above the depth it goes to.
LEMMA UnbackedIs ==
  ASSUME Sound, Rising, Distinct, NEW to \in 0..Len(marks), NEW i \in DOMAIN stack,
         to # Outside => stack[i].depth > marks[to]
  PROVE  stack[i].id \in Unbacked(to)
<1>1. CASE to = Outside
  BY <1>1 DEF Unbacked, Ids
<1>2. CASE to # Outside
  <2>1. marks[to] \in Nat /\ DOMAIN stack = 1..Len(stack)
    BY <1>2, Typed DEF Outside
  <2> DEFINE kept == Backed(stack, marks[to])
  <2>2. PICK m \in 0..Len(stack) :
           /\ Len(kept) = m /\ kept \in Seq(Entries)
           /\ \A j \in 1..m : kept[j] = stack[j]
           /\ \A j \in 1..m : stack[j].depth <= marks[to]
    BY <2>1, BackedHere
  <2>3. i \notin 1..m
    BY <1>2, <2>1, <2>2, Typed
  <2> HIDE DEF kept
  <2>4. ASSUME NEW j \in DOMAIN kept PROVE kept[j].id # stack[i].id
    <3>1. j \in 1..m /\ j \in DOMAIN stack /\ kept[j] = stack[j]
      BY <2>1, <2>2
    <3> QED BY <2>3, <3>1 DEF Distinct
  <2>5. stack[i].id \in Ids(stack) \ Ids(kept)
    BY <2>4 DEF Ids
  <2> QED BY <1>2, <2>5 DEF Unbacked, kept
<1> QED BY <1>1, <1>2

\* A traversal asked for now starts from an entry there is.
LEMMA FromIs ==
  ASSUME Sound, Running
  PROVE  From \in 0..Len(marks) /\ (pending = <<>> => From = at)
<1>1. /\ pending \in Seq(0..Len(marks)) /\ Len(pending) \in Nat /\ at \in 0..Len(marks)
  BY Typed
<1>2. CASE pending = <<>>
  BY <1>1, <1>2 DEF From
<1>3. CASE pending # <<>>
  <2>1. Len(pending) \in 1..Len(pending) /\ From = pending[Len(pending)]
    BY <1>1, <1>3 DEF From, Last
  <2> QED BY <1>1, <1>3, <2>1, ElementOfSeq
<1> QED BY <1>2, <1>3

LEMMA FromCovered ==
  ASSUME Sound, Tracked, Aimed, Running, From # Outside
  PROVE  From \in 1..Len(marks) /\ Covers(From)
<1>1. /\ pending \in Seq(0..Len(marks)) /\ Len(pending) \in Nat /\ at \in 1..Len(marks)
      /\ stack \in Seq(Entries) /\ Len(stack) \in Nat /\ Depth \in Nat /\ Len(marks) \in Nat
      /\ \A i \in 1..Len(stack) : stack[i].depth \in Nat
      /\ DOMAIN stack = 1..Len(stack)
  BY Typed
<1>2. CASE pending = <<>>
  <2>1. From = at
    BY <1>2 DEF From
  <2>2. CASE stack = <<>>
    BY <1>1, <2>1, <2>2 DEF Covers, AllDoomed
  <2>3. CASE stack # <<>>
    <3>1. listening
      BY <2>3 DEF Sound
    <3>2. Depth # 0
      <4>1. 1 \in DOMAIN stack
        BY <1>1, <2>3
      <4>2. stack[1].depth >= 1 /\ stack[1].depth <= Depth
        BY <4>1 DEF Tracked, Rising
      <4> QED BY <1>1, <4>1, <4>2
    <3>3. Ahead(at)
      BY <3>1, <3>2 DEF Aimed
    <3>4. ASSUME NEW i \in DOMAIN stack PROVE ~(stack[i].depth > Depth)
      <4>1. stack[i].depth <= Depth /\ stack[i].depth \in Nat
        BY <1>1 DEF Tracked, Rising
      <4> QED BY <1>1, <4>1
    <3> QED BY <1>1, <2>1, <3>3, <3>4 DEF Covers, Depth
  <2> QED BY <2>2, <2>3
<1>3. CASE pending # <<>>
  <2>1. Len(pending) \in DOMAIN pending /\ From = pending[Len(pending)]
    BY <1>1, <1>3 DEF From, Last
  <2>2. From \in 0..Len(marks)
    BY <1>1, <2>1, ElementOfSeq
  <2> HIDE DEF From
  <2>3. Covers(From)
    BY <2>1 DEF Aimed, Asked
  <2> QED BY <1>1, <2>2, <2>3 DEF Outside
<1> QED BY <1>2, <1>3

\* A traversal that is asked for joins the ones in flight.
LEMMA JoinsPending ==
  ASSUME Sound, Running, NEW to \in 0..Len(marks), pending' = Append(pending, to),
         UNCHANGED <<stack, marks, at, listening, stray>>,
         doomed \subseteq doomed', doomed' \subseteq Overlays, crossed' \in BOOLEAN,
         \/ owed' = owed /\ claimed' = claimed /\ returning' = returning
         \/ owed' = NoDebt /\ claimed' = FALSE /\ returning' = Len(pending'),
         ~crossed' => ~crossed /\ (pending # <<>> => to \in {From - 1, From + 1})
  PROVE  /\ Sound' /\ (Tracked => Tracked')
         /\ Aimed /\ ~crossed' /\ Covers(to)'
            /\ (pending = <<>> => to \in {at - 1, at + 1} \/ (to >= at - Depth /\ to < at))
            => Aimed'
<1>1. /\ pending \in Seq(0..Len(marks)) /\ Len(pending) \in Nat /\ at \in 1..Len(marks)
      /\ Len(marks) \in Nat /\ returning \in 0..Len(pending)
  BY Typed
<1>2. /\ pending' \in Seq(0..Len(marks)) /\ Len(pending') = Len(pending) + 1
      /\ \A j \in 1..Len(pending) : pending'[j] = pending[j]
      /\ pending'[Len(pending) + 1] = to
      /\ DOMAIN pending' = 1..(Len(pending) + 1) /\ DOMAIN pending = 1..Len(pending)
      /\ pending' # <<>>
  <2>1. /\ pending' \in Seq(0..Len(marks)) /\ Len(pending') = Len(pending) + 1
        /\ \A j \in 1..Len(pending) : pending'[j] = pending[j]
        /\ pending'[Len(pending) + 1] = to
    BY <1>1, AppendProperties
  <2>2. DOMAIN pending' = 1..Len(pending') /\ DOMAIN pending = 1..Len(pending)
    BY <1>1, <2>1
  <2>3. pending' # <<>>
    <3>1. Len(pending') # 0 /\ Len(<<>>) = 0
      BY <1>1, <2>1
    <3> QED BY <3>1
  <2> QED BY <2>1, <2>2, <2>3
<1>3. OverlayTypeOK'
  <2>1. returning' \in 0..Len(pending')
    BY <1>1, <1>2
  <2> QED BY <1>2, <2>1 DEF Sound, OverlayTypeOK
<1>4. ASSUME ~crossed', NEW i \in DOMAIN pending', NEW j \in DOMAIN pending', j = i + 1
      PROVE  pending'[j] \in {pending'[i] - 1, pending'[i] + 1}
  <2>1. i \in DOMAIN pending /\ pending'[i] = pending[i]
    BY <1>1, <1>2, <1>4
  <2>2. CASE j \in DOMAIN pending
    BY <1>2, <1>4, <2>1, <2>2 DEF Sound
  <2>3. CASE j \notin DOMAIN pending
    <3>1. j = Len(pending) + 1 /\ i = Len(pending) /\ pending # <<>>
      BY <1>1, <1>2, <1>4, <2>1, <2>3
    <3>2. From = pending[i]
      BY <3>1 DEF From, Last
    <3> QED BY <1>2, <1>4, <2>1, <3>1, <3>2
  <2> QED BY <2>2, <2>3
<1>5. Sound'
  BY <1>3, <1>4 DEF Sound
<1>6. ASSUME Tracked PROVE Tracked'
  <2>1. Rising' /\ Distinct'
    BY <1>6 DEF Tracked, Rising, Distinct, Depth
  <2>2. Owing'
    <3>1. CASE owed' = owed /\ claimed' = claimed /\ returning' = returning
      BY <1>6, <3>1 DEF Tracked, Owing, Full, Depth
    <3>2. CASE owed' = NoDebt /\ returning' = Len(pending')
      <4>1. returning' # 0
        BY <1>1, <1>2, <3>2
      <4> QED BY <3>2, <4>1 DEF Owing
    <3> QED BY <3>1, <3>2
  <2>3. Debts'
    BY <1>6 DEF Tracked, Debts
  <2> QED BY <2>1, <2>2, <2>3 DEF Tracked
<1>7. ASSUME Aimed, Covers(to)',
             pending = <<>> => to \in {at - 1, at + 1} \/ (to >= at - Depth /\ to < at)
      PROVE  Aimed'
  <2>1. (listening /\ Depth # 0 => Ahead(at))'
    BY <1>7 DEF Aimed, Ahead, Depth
  <2>2. Near'
    <3>1. pending = <<>> => Head(pending') = to
      BY <1>1, <1>2
    <3>2. pending # <<>> => Head(pending') = Head(pending)
      BY <1>1, <1>2
    <3> QED BY <1>7, <3>1, <3>2 DEF Aimed, Near, Depth
  <2>3. ASSUME NEW j \in DOMAIN pending' PROVE Covers(pending[j])'
    <3>1. CASE j \in DOMAIN pending
      <4>1. Covers(pending[j]) /\ pending'[j] = pending[j]
        BY <1>2, <1>7, <3>1 DEF Aimed, Asked
      <4> QED BY <4>1 DEF Covers, AllDoomed, Ahead
    <3>2. CASE j \notin DOMAIN pending
      <4>1. pending'[j] = to /\ to' = to
        BY <1>1, <1>2, <3>2
      <4> QED BY <1>7, <4>1 DEF Covers, AllDoomed, Ahead
    <3> QED BY <3>1, <3>2
  <2> QED BY <2>1, <2>2, <2>3 DEF Aimed, Asked
<1> QED BY <1>5, <1>6, <1>7

\* Going back one entry asks for what that entry does not back.
LEMMA BackCovers ==
  ASSUME Sound, Tracked, Running, NEW p \in 1..Len(marks), Covers(p), NEW to, to = p - 1,
         UNCHANGED <<stack, marks>>, doomed' = doomed \cup Unbacked(to)
  PROVE  Covers(to)'
<1>1. /\ to \in 0..Len(marks) /\ Len(marks) \in Nat /\ DOMAIN stack = 1..Len(stack)
      /\ Len(stack) \in Nat
      /\ \A i \in DOMAIN stack : stack[i].depth \in Nat /\ stack[i].depth >= i
  BY Typed DEF Tracked, Rising
<1>2. \A i \in DOMAIN stack :
         (to # Outside => stack[i].depth > marks[to]) => stack[i].id \in doomed'
  BY <1>1, UnbackedIs DEF Tracked
<1>3. CASE AllDoomed
  BY <1>3 DEF Covers, AllDoomed
<1>4. CASE to = Outside
  BY <1>2, <1>4 DEF Covers, AllDoomed
<1>5. CASE to # Outside /\ marks[to] = 0
  <2>1. \A i \in DOMAIN stack : stack[i].depth > 0
    BY <1>1
  <2>2. AllDoomed'
    BY <1>2, <1>5, <2>1 DEF AllDoomed
  <2> QED BY <2>2 DEF Covers
<1>6. CASE ~AllDoomed /\ to # Outside /\ marks[to] # 0
  <2>1. Ahead(p)
    BY <1>6 DEF Covers
  <2>2. Ahead(to)'
    <3>1. \A q \in 1..Len(marks) : q > to => q = p \/ q > p
      OBVIOUS
    <3> QED BY <1>6, <2>1, <3>1 DEF Ahead
  <2> QED BY <1>2, <1>6, <2>2 DEF Covers
<1> QED BY <1>3, <1>4, <1>5, <1>6

\* The user goes back, by a gesture or a close control.
LEMMA BackKeeps ==
  ASSUME OverlayInv, GoBack
  PROVE  OverlayInv'
<1>1. Sound /\ Running
  BY DEF OverlayInv, GoBack
<1>2. /\ at \in 1..Len(marks) /\ Len(marks) \in Nat /\ doomed \subseteq Overlays
      /\ \A i \in 1..Len(stack) : stack[i].id \in Overlays
      /\ DOMAIN stack = 1..Len(stack) /\ Depth \in Nat
  BY <1>1, Typed
<1>3. /\ From # Outside /\ pending' = Append(pending, From - 1)
      /\ doomed' = doomed \cup Unbacked(From - 1)
      /\ UNCHANGED <<stack, marks, at, owed, listening, claimed, returning, crossed, stray>>
  BY DEF GoBack
<1>4. From \in 1..Len(marks) /\ (pending = <<>> => From = at)
  BY <1>1, <1>2, <1>3, FromIs DEF Outside
<1>5. ASSUME NEW p, p = From, NEW to, to = p - 1
      PROVE  Sound' /\ (Tracked => Tracked') /\ (Tracked /\ Aimed /\ ~crossed' => Aimed')
  <2>1. to \in 0..Len(marks) /\ p \in 1..Len(marks)
    BY <1>2, <1>4, <1>5
  <2>2. ASSUME Tracked, Aimed PROVE Covers(to)'
    <3>1. Covers(p)
      BY <1>1, <1>3, <1>5, <2>2, FromCovered
    <3>2. doomed' = doomed \cup Unbacked(to)
      BY <1>3, <1>5
    <3> QED BY <1>1, <1>3, <1>5, <2>1, <2>2, <3>1, <3>2, BackCovers
  <2>3. Unbacked(to) \subseteq Overlays
    BY <1>2 DEF Unbacked, Ids
  <2>4. /\ pending' = Append(pending, to)
        /\ doomed \subseteq doomed' /\ doomed' \subseteq Overlays
        /\ pending # <<>> => to \in {From - 1, From + 1}
        /\ pending = <<>> => to \in {at - 1, at + 1}
        /\ crossed' \in BOOLEAN
    BY <1>1, <1>2, <1>3, <1>4, <1>5, <2>3 DEF Sound, OverlayTypeOK
  <2> QED BY <1>1, <1>3, <2>1, <2>2, <2>4, JoinsPending
<1>6. Sound' /\ (Tracked => Tracked') /\ (Tracked /\ Aimed /\ ~crossed' => Aimed')
  BY <1>5
<1> QED BY <1>1, <1>3, <1>6 DEF OverlayInv, Running

\* The user goes forward, to an entry that backs no fewer overlays.
LEMMA ForwardKeeps ==
  ASSUME OverlayInv, Forward
  PROVE  OverlayInv'
<1>1. /\ Sound /\ Running /\ From # Outside /\ From < Len(marks)
      /\ pending' = Append(pending, From + 1)
      /\ UNCHANGED <<stack, marks, at, owed, listening, claimed, returning, crossed, doomed, stray>>
  BY DEF OverlayInv, Forward
<1>2. /\ at \in 1..Len(marks) /\ Len(marks) \in Nat
      /\ doomed \subseteq Overlays /\ marks \in Seq(Nat)
      /\ DOMAIN stack = 1..Len(stack) /\ Depth \in Nat
      /\ \A i \in DOMAIN stack : stack[i].depth \in Nat
  BY <1>1, Typed
<1>4. From \in 1..Len(marks) /\ (pending = <<>> => From = at)
  BY <1>1, <1>2, FromIs DEF Outside
<1>5. ASSUME NEW p, p = From, NEW to, to = p + 1
      PROVE  Sound' /\ (Tracked => Tracked') /\ (Tracked /\ Aimed /\ ~crossed' => Aimed')
  <2>1. to \in 1..Len(marks) /\ p \in 1..Len(marks) /\ to # Outside
    BY <1>1, <1>2, <1>4, <1>5 DEF Outside
  <2>2. ASSUME Tracked, Aimed PROVE Covers(to)'
    <3>1. Covers(p)
      BY <1>1, <1>5, <2>2, FromCovered
    <3>2. CASE AllDoomed
      BY <1>1, <3>2 DEF Covers, AllDoomed
    <3>3. CASE ~AllDoomed
      <4>1. Ahead(p) /\ \A i \in DOMAIN stack : stack[i].depth > marks[p] => stack[i].id \in doomed
        BY <3>1, <3>3 DEF Covers
      <4>2. marks[to] # 0
        BY <1>5, <2>1, <4>1 DEF Ahead
      <4>3. marks[to] \in {0, marks[p] + 1}
        BY <1>5, <2>1, <1>1 DEF Sound, Rises, RisesTo
      <4>4. marks[p] \in Nat /\ marks[to] = marks[p] + 1
        BY <1>2, <2>1, <4>2, <4>3
      <4>5. \A i \in DOMAIN stack : stack[i].depth > marks[to] => stack[i].depth > marks[p]
        BY <1>2, <4>4
      <4>6. Ahead(to)'
        <5>1. \A q \in 1..Len(marks) : q > to => q > p
          BY <1>5, <2>1
        <5> QED BY <1>1, <2>1, <4>1, <4>2, <5>1 DEF Ahead
      <4> QED BY <1>1, <4>1, <4>5, <4>6 DEF Covers
    <3> QED BY <3>2, <3>3
  <2>3. /\ to \in 0..Len(marks) /\ pending' = Append(pending, to)
        /\ doomed \subseteq doomed' /\ doomed' \subseteq Overlays
        /\ pending # <<>> => to \in {From - 1, From + 1}
        /\ pending = <<>> => to \in {at - 1, at + 1}
        /\ crossed' \in BOOLEAN
    BY <1>1, <1>2, <1>4, <1>5, <2>1 DEF Sound, OverlayTypeOK
  <2> QED BY <1>1, <2>2, <2>3, JoinsPending
<1>6. Sound' /\ (Tracked => Tracked') /\ (Tracked /\ Aimed /\ ~crossed' => Aimed')
  BY <1>5
<1> QED BY <1>1, <1>6 DEF OverlayInv, Running

\* The entry a deferred traversal lands on: one of this visit, whose mark is
\* the depth that is owed.
LEMMA FlushLands ==
  ASSUME Sound, Running, owed # NoDebt, Depth > owed
  PROVE  /\ at - (Depth - owed) \in 1..Len(marks)
         /\ at - (Depth - owed) < at /\ at - (Depth - owed) >= at - Depth
         /\ marks[at - (Depth - owed)] = owed
         /\ \A q \in 1..Len(marks) : q > at - (Depth - owed) /\ q <= at => marks[q] > owed
<1>1. /\ at \in 1..Len(marks) /\ Len(marks) \in Nat /\ Depth \in Nat /\ Depth < at
      /\ owed \in Nat
  BY Typed DEF NoDebt
<1>2. \A k \in 0..Depth : marks[at - k] = Depth - k
  BY <1>1 DEF Sound, Rises, RisesTo, Depth
<1>3. ASSUME NEW q \in 1..Len(marks), q > at - (Depth - owed), q <= at PROVE marks[q] > owed
  <2>1. at - q \in 0..Depth /\ at - (at - q) = q
    BY <1>1, <1>3
  <2>2. marks[q] = Depth - (at - q)
    BY <1>2, <2>1
  <2> QED BY <1>1, <1>3, <2>2
<1>4. Depth - owed \in 0..Depth /\ Depth - (Depth - owed) = owed
  BY <1>1
<1> HIDE DEF Depth
<1>5. marks[at - (Depth - owed)] = owed
  BY <1>2, <1>4
<1> QED BY <1>1, <1>3, <1>5

\* The timer of the deferred traversal.
LEMMA FlushKeeps ==
  ASSUME OverlayInv, Flush
  PROVE  OverlayInv'
<1>1. /\ Sound /\ Running /\ owed # NoDebt
      /\ owed' = NoDebt /\ claimed' = FALSE
      /\ UNCHANGED <<stack, marks, at, listening, doomed, stray>>
  BY DEF OverlayInv, Flush
<1>2. /\ at \in 1..Len(marks) /\ Len(marks) \in Nat /\ Depth \in Nat /\ owed \in Nat
      /\ doomed \subseteq Overlays /\ DOMAIN stack = 1..Len(stack)
      /\ \A i \in DOMAIN stack : stack[i].depth \in Nat
      /\ crossed \in BOOLEAN
  BY <1>1, Typed DEF NoDebt, Sound, OverlayTypeOK
<1>3. CASE Depth > owed
  <2>1. /\ pending' = Append(pending, Earlier(Depth - owed))
        /\ returning' = Len(pending')
        /\ crossed' = (crossed \/ pending # <<>>)
    BY <1>3 DEF Flush, Traverse
  <2>2. From \in 0..Len(marks) /\ (pending = <<>> => From = at)
    BY <1>1, FromIs
  <2>3. Earlier(Depth - owed) \in 0..Len(marks)
    <3>1. Depth - owed \in Nat
      BY <1>2, <1>3
    <3> HIDE DEF Depth, From
    <3> QED BY <1>2, <2>2, <3>1 DEF Earlier, Outside
  <2>4. ASSUME NEW to, to = Earlier(Depth - owed)
        PROVE  Sound' /\ (Tracked => Tracked') /\ (Tracked /\ Aimed /\ ~crossed' => Aimed')
    <3>1. /\ to \in 0..Len(marks) /\ pending' = Append(pending, to)
          /\ doomed \subseteq doomed' /\ doomed' \subseteq Overlays
          /\ crossed' \in BOOLEAN /\ (~crossed' => ~crossed /\ pending = <<>>)
      BY <1>1, <1>2, <2>1, <2>3, <2>4
    <3>2. ASSUME pending = <<>>
          PROVE  /\ to \in 1..Len(marks) /\ to < at /\ to >= at - Depth /\ marks[to] = owed
                 /\ \A q \in 1..Len(marks) : q > to /\ q <= at => marks[q] > owed
      <4>1. at - (Depth - owed) \in 1..Len(marks)
        BY <1>1, <1>3, FlushLands
      <4>2. to = at - (Depth - owed)
        <5>1. ASSUME NEW n, n = Depth - owed, NEW f, f = From
              PROVE  to = at - n
          <6>1. n \in Nat /\ f = at /\ at - n \in 1..Len(marks)
            BY <1>2, <1>3, <2>2, <3>2, <4>1, <5>1
          <6>2. n < f /\ to = (IF n < f THEN f - n ELSE Outside)
            <7>1. n < f
              BY <1>2, <6>1
            <7> QED BY <2>4, <5>1, <7>1 DEF Earlier
          <6> QED BY <6>1, <6>2
        <5> QED BY <5>1
      <4> QED BY <1>1, <1>3, <4>2, FlushLands
    <3>3. ASSUME Tracked, Aimed, pending = <<>> PROVE Covers(to)'
      <4>1. \A i \in DOMAIN stack : stack[i].depth > owed => stack[i].id \in doomed
        BY <1>1, <3>3 DEF Tracked, Debts
      <4>2. CASE owed = 0
        <5>1. \A i \in DOMAIN stack : stack[i].depth > 0
          BY <1>2, <3>3 DEF Tracked, Rising
        <5>2. AllDoomed'
          BY <1>1, <4>1, <4>2, <5>1 DEF AllDoomed
        <5> QED BY <5>2 DEF Covers
      <4>3. CASE owed # 0
        <5>1. listening /\ Depth # 0
          BY <1>1, <1>2, <1>3 DEF Sound
        <5>2. Ahead(at)
          BY <3>3, <5>1 DEF Aimed
        <5>3. \A q \in 1..Len(marks) : q > to => marks[q] # 0
          <6> TAKE q \in 1..Len(marks)
          <6>1. CASE q > at
            BY <5>2, <6>1 DEF Ahead
          <6>2. CASE q <= at
            BY <1>2, <3>2, <3>3, <6>2
          <6> QED BY <1>2, <6>1, <6>2
        <5>4. Ahead(to)'
          BY <1>1, <3>2, <3>3, <4>3, <5>3 DEF Ahead, Outside
        <5> QED BY <1>1, <3>2, <3>3, <4>1, <5>4 DEF Covers
      <4> QED BY <4>2, <4>3
    <3> QED BY <1>1, <2>1, <3>1, <3>2, <3>3, JoinsPending
  <2>5. Sound' /\ (Tracked => Tracked') /\ (Tracked /\ Aimed /\ ~crossed' => Aimed')
    BY <2>4
  <2> QED BY <1>1, <2>1, <2>5 DEF OverlayInv, Running
<1>4. CASE ~(Depth > owed)
  <2>1. UNCHANGED <<pending, returning, crossed>>
    BY <1>4 DEF Flush
  <2>2. Sound'
    BY <1>1, <2>1 DEF Sound, OverlayTypeOK
  <2>3. ASSUME Tracked PROVE Tracked'
    <3>1. returning = 0 => Full
      BY <1>1, <1>2, <1>4, <2>3 DEF Tracked, Owing
    <3>2. Owing'
      BY <1>1, <2>1, <3>1 DEF Owing, Full, Depth
    <3> QED BY <1>1, <2>3, <3>2 DEF Tracked, Rising, Distinct, Debts, Depth
  <2>4. ASSUME Aimed PROVE Aimed'
    BY <1>1, <2>1, <2>4 DEF Aimed, Near, Asked, Covers, AllDoomed, Ahead, Depth
  <2> QED BY <1>1, <2>1, <2>2, <2>3, <2>4 DEF OverlayInv, Running
<1> QED BY <1>3, <1>4

\* A new document starts with no overlays, on the entry where it is.
LEMMA ReloadKeeps ==
  ASSUME OverlayInv, Reload
  PROVE  OverlayInv'
<1>1. /\ Sound /\ pending' = <<>> /\ stack' = <<>> /\ owed' = NoDebt /\ listening' = FALSE
      /\ claimed' = FALSE /\ doomed' = {} /\ stray' = FALSE /\ returning' = 0
      /\ crossed' = FALSE /\ UNCHANGED <<marks, at>>
  BY DEF OverlayInv, Reload
<1>2. <<>> \in Seq([id : Overlays, depth : Nat]) /\ DOMAIN <<>> = {}
  OBVIOUS
<1>3. Sound'
  <2>1. <<>> \in Seq(0..Len(marks)) /\ 0 \in 0..Len(<<>>)
    OBVIOUS
  <2> QED BY <1>1, <1>2, <2>1 DEF Sound, OverlayTypeOK
<1>4. Rising' /\ Distinct' /\ Owing' /\ Debts' /\ Near' /\ Asked'
  BY <1>1, <1>2 DEF Rising, Distinct, Owing, Debts, Near, Asked
<1> QED BY <1>1, <1>3, <1>4 DEF OverlayInv, Tracked, Aimed

\* What a landing does within the application.
LEMMA LandIs ==
  ASSUME Sound, Land
  PROVE  /\ at' \in 0..Len(marks) /\ at' = pending[1] /\ Len(pending) \in Nat /\ Len(pending) # 0
         /\ pending' \in Seq(0..Len(marks)) /\ Len(pending') = Len(pending) - 1
         /\ \A j \in 1..Len(pending') : pending'[j] = pending[j + 1]
         /\ ~crossed => \A j \in 1..Len(pending') : pending'[j] \in {pending[j] - 1, pending[j] + 1}
         /\ stack' \in Seq(Entries)
         /\ at' # Outside =>
              \E m \in 0..Len(stack) :
                /\ Len(stack') = m /\ m <= marks[at']
                /\ \A i \in 1..m : stack'[i] = stack[i]
                /\ Rising => \A i \in 1..m : stack[i].depth <= marks[at']
                /\ Rising => \A i \in (m + 1)..Len(stack) : stack[i].depth > marks[at']
<1>1. /\ Running /\ pending # <<>> /\ at' = Head(pending) /\ pending' = Tail(pending)
      /\ stack' = IF at' = Outside THEN <<>>
                  ELSE IF listening THEN Backed(stack, marks[at']) ELSE stack
  BY DEF Land
<1>2. /\ pending \in Seq(0..Len(marks)) /\ Len(pending) \in Nat /\ Len(marks) \in Nat
      /\ stack \in Seq(Entries) /\ Len(stack) \in Nat
  BY Typed
<1>3. /\ at' \in 0..Len(marks) /\ at' = pending[1] /\ Len(pending) # 0
      /\ pending' \in Seq(0..Len(marks)) /\ Len(pending') = Len(pending) - 1
      /\ \A j \in 1..(Len(pending) - 1) : pending'[j] = pending[j + 1]
  BY <1>1, <1>2, HeadTailProperties
<1>4. ASSUME ~crossed, NEW j \in 1..Len(pending')
      PROVE  pending'[j] \in {pending[j] - 1, pending[j] + 1}
  <2>1. j \in DOMAIN pending /\ j + 1 \in DOMAIN pending
    BY <1>2, <1>3
  <2> QED BY <1>3, <1>4, <2>1 DEF Sound
<1>5. CASE at' # Outside /\ listening
  <2>1. marks[at'] \in Nat
    BY <1>2, <1>3, <1>5, Typed DEF Outside
  <2>2. ASSUME NEW d \in Nat, d = marks[at']
        PROVE  /\ stack' \in Seq(Entries)
               /\ \E m \in 0..Len(stack) :
                    /\ Len(stack') = m /\ m <= d
                    /\ \A i \in 1..m : stack'[i] = stack[i]
                    /\ Rising => \A i \in 1..m : stack[i].depth <= d
                    /\ Rising => \A i \in (m + 1)..Len(stack) : stack[i].depth > d
    <3>1. stack' = Backed(stack, d)
      BY <1>1, <1>5, <2>2
    <3> QED BY <3>1, BackedHere
  <2> QED BY <1>2, <1>3, <1>4, <2>1, <2>2
<1>6. CASE at' # Outside /\ ~listening
  <2>1. stack = <<>> /\ stack' = stack
    BY <1>1, <1>6 DEF Sound
  <2>2. marks[at'] \in Nat
    BY <1>2, <1>3, <1>6, Typed DEF Outside
  <2>3. /\ Len(stack) = 0 /\ Len(stack') = 0 /\ 0 \in 0..Len(stack) /\ stack' \in Seq(Entries)
        /\ 1..0 = {}
    BY <2>1
  <2> QED BY <1>2, <1>3, <1>4, <2>2, <2>3
<1>7. CASE at' = Outside
  <2>1. stack' \in Seq(Entries)
    BY <1>1, <1>7
  <2> QED BY <1>2, <1>3, <1>4, <1>7, <2>1
<1> QED BY <1>5, <1>6, <1>7

LEMMA LandSound ==
  ASSUME Sound, Land
  PROVE  Sound'
<1>1. /\ at' \in 0..Len(marks) /\ pending' \in Seq(0..Len(marks)) /\ Len(pending) \in Nat
      /\ Len(pending') = Len(pending) - 1 /\ Len(pending) # 0
      /\ \A j \in 1..Len(pending') : pending'[j] = pending[j + 1]
      /\ stack' \in Seq(Entries)
  BY LandIs
<1>2. /\ doomed' = doomed \cap Ids(stack') /\ UNCHANGED <<marks, owed, listening, claimed>>
      /\ stray' = (at' # Outside /\ marks[at'] # 0 /\ (stray \/ marks[at'] > Len(stack')))
      /\ returning' = IF returning = 0 THEN 0 ELSE returning - 1
      /\ crossed' = (crossed /\ (pending' # <<>> \/ stack' # <<>>))
      /\ ~listening => stack' = <<>>
  BY DEF Land, Sound
<1>3. OverlayTypeOK'
  <2>1. returning \in 0..Len(pending) /\ crossed \in BOOLEAN
    BY DEF Sound, OverlayTypeOK
  <2>2. returning' \in 0..Len(pending') /\ crossed' \in BOOLEAN
    BY <1>1, <1>2, <2>1
  <2> QED BY <1>1, <1>2, <2>2 DEF Sound, OverlayTypeOK, Entries
<1>4. ASSUME ~crossed', NEW i \in DOMAIN pending', NEW j \in DOMAIN pending', j = i + 1
      PROVE  pending'[j] \in {pending'[i] - 1, pending'[i] + 1}
  <2>0. ~crossed
    <3>1. pending' # <<>>
      <4>1. DOMAIN <<>> = {}
        OBVIOUS
      <4> QED BY <1>4, <4>1
    <3> QED BY <1>2, <1>4, <3>1
  <2>1. /\ i \in 1..Len(pending') /\ j \in 1..Len(pending')
        /\ i + 1 \in DOMAIN pending /\ j + 1 \in DOMAIN pending /\ j + 1 = (i + 1) + 1
        /\ pending'[i] = pending[i + 1] /\ pending'[j] = pending[j + 1]
    <3>1. DOMAIN pending = 1..Len(pending) /\ DOMAIN pending' = 1..Len(pending')
      BY <1>1, Typed
    <3>2. i \in 1..Len(pending') /\ j \in 1..Len(pending')
      BY <1>4, <3>1
    <3>3. i + 1 \in 1..Len(pending) /\ j + 1 \in 1..Len(pending) /\ j + 1 = (i + 1) + 1
      BY <1>1, <1>4, <3>2
    <3> QED BY <1>1, <3>1, <3>2, <3>3
  <2> QED BY <2>0, <2>1 DEF Sound
<1> QED BY <1>2, <1>3, <1>4 DEF Sound

\* Where history stands below every overlay, no overlay is left.
LEMMA EmptyTracked ==
  ASSUME Sound', stack' = <<>>, Depth' = 0
  PROVE  Tracked' /\ (Near' => Aimed')
<1>1. DOMAIN stack' = {} /\ Len(stack') = 0 /\ owed' \in {NoDebt} \cup Nat
  BY DEF Sound, OverlayTypeOK
<1>2. owed' # NoDebt => ~(owed' < Depth')
  BY <1>1 DEF NoDebt
<1>3. Full' /\ Rising' /\ Distinct'
  BY <1>1 DEF Full, Rising, Distinct
<1>4. Owing' /\ Debts' /\ Asked'
  BY <1>1, <1>2, <1>3 DEF Owing, Debts, Asked, Covers, AllDoomed
<1> QED BY <1>3, <1>4 DEF Tracked, Aimed

\* A landing on an entry that overlays left finds them all, and no other.
LEMMA LandTracked ==
  ASSUME Sound, Tracked, Running, Sound', NEW n \in Nat, n = Len(stack),
         NEW p \in 1..Len(marks), p = at', p # Outside, NEW d \in Nat, d = marks[p], d # 0,
         NEW m \in 0..n, Len(stack') = m, m = d,
         \A i \in 1..m : stack'[i] = stack[i], \A i \in 1..m : stack[i].depth <= d,
         UNCHANGED <<marks, owed, listening, claimed>>, doomed' = doomed \cap Ids(stack'),
         Len(pending) \in Nat, Len(pending') = Len(pending) - 1,
         \A j \in 1..Len(pending') : pending'[j] = pending[j + 1]
  PROVE  Tracked' /\ (Aimed /\ Near' /\ (p = at - 1 \/ p = at + 1 \/ (p >= at - Depth /\ p < at))
                       => Aimed')
<1>1. /\ DOMAIN stack = 1..n /\ DOMAIN stack' = 1..m /\ Depth' = d /\ m \in Nat
      /\ Depth \in Nat /\ at \in 1..Len(marks) /\ Depth < at /\ Len(marks) \in Nat
      /\ owed \in {NoDebt} \cup Nat
      /\ \A i \in 1..n : stack[i].depth \in Nat
      /\ pending \in Seq(0..Len(marks)) /\ pending' \in Seq(0..Len(marks'))
  <2>1. stack' \in Seq(Entries) /\ pending' \in Seq(0..Len(marks'))
    BY DEF Sound, OverlayTypeOK, Entries
  <2>2. Depth' = d
    BY DEF Depth
  <2>3. m \in Nat /\ DOMAIN stack' = 1..m
    BY <2>1
  <2>4. /\ DOMAIN stack = 1..n /\ pending \in Seq(0..Len(marks))
        /\ \A i \in 1..n : stack[i].depth \in Nat
        /\ Depth \in Nat /\ at \in 1..Len(marks) /\ Depth < at /\ Len(marks) \in Nat
        /\ owed \in {NoDebt} \cup Nat
    BY Typed, SMTT(30)
  <2> QED BY <2>1, <2>2, <2>3, <2>4
<1>2. /\ \A i \in 1..n : stack[i].depth >= i /\ stack[i].depth <= Depth
      /\ \A i, j \in 1..n : i < j => stack[j].depth >= stack[i].depth + (j - i)
      /\ \A i, j \in 1..n : stack[i].id = stack[j].id => i = j
  BY <1>1 DEF Tracked, Rising, Distinct
<1>3. ASSUME NEW i \in 1..m PROVE stack[i].depth = i /\ stack'[i].depth = i
  <2>1. i \in 1..n /\ m \in 1..n /\ stack[m].depth <= m
    OBVIOUS
  <2>2. stack[i].depth \in Nat /\ stack[m].depth \in Nat /\ stack[i].depth >= i
    BY <1>1, <1>2, <2>1
  <2>3. i < m => stack[m].depth >= stack[i].depth + (m - i)
    BY <1>2, <2>1
  <2>4. stack[i].depth <= i
    BY <2>1, <2>2, <2>3
  <2> QED BY <2>2, <2>4
<1>4. Full' /\ Rising'
  <2>1. Len(stack') = Depth' /\ \A i \in DOMAIN stack' : stack'[i].depth = i
    BY <1>1, <1>3
  <2>2. \A i \in 1..m : stack'[i].depth >= i /\ stack'[i].depth <= Depth'
    <3>1. ASSUME NEW i \in 1..m PROVE stack'[i].depth >= i /\ stack'[i].depth <= Depth'
      <4>1. stack'[i].depth = i
        BY <1>3
      <4>2. i \in Nat /\ i <= m
        BY <1>1
      <4> QED BY <1>1, <4>1, <4>2
    <3> QED BY <3>1
  <2>3. \A i, j \in 1..m : i < j => stack'[j].depth >= stack'[i].depth + (j - i)
    <3>1. ASSUME NEW i \in 1..m, NEW j \in 1..m, i < j
          PROVE  stack'[j].depth >= stack'[i].depth + (j - i)
      <4>1. stack'[i].depth = i /\ stack'[j].depth = j
        BY <1>3
      <4>2. i \in Nat /\ j \in Nat /\ j >= i + (j - i)
        BY <1>1
      <4> QED BY <4>1, <4>2
    <3> QED BY <3>1
  <2>4. Full'
    BY <2>1 DEF Full
  <2>5. Rising'
    BY <1>1, <2>2, <2>3 DEF Rising
  <2> QED BY <2>4, <2>5
<1>5. Distinct'
  <2>1. \A i \in 1..m : i \in 1..n
    OBVIOUS
  <2> QED BY <1>1, <1>2, <2>1 DEF Distinct
<1>6. listening /\ Depth # 0
  <2>1. 1 \in 1..n /\ 1 \in 1..m
    OBVIOUS
  <2>2. stack[1].depth >= 1 /\ stack[1].depth <= Depth
    BY <1>1, <1>2, <2>1
  <2>3. stack # <<>>
    <3>1. Len(<<>>) = 0
      OBVIOUS
    <3> QED BY <1>1, <2>1, <3>1
  <2> QED BY <1>1, <2>1, <2>2, <2>3 DEF Sound
<1>7. Owing'
  <2>1. ASSUME owed' # NoDebt, ~claimed', NEW i \in 1..m, i > owed' PROVE stack'[i].depth > i
    <3>1. i \in 1..n /\ i \in DOMAIN stack
      BY <1>1
    <3>2. stack[i].depth > i
      BY <2>1, <3>1 DEF Tracked, Owing
    <3> QED BY <1>1, <1>3, <3>1, <3>2
  <2>2. owed' # NoDebt /\ owed' < Depth' => owed' <= Len(stack')
    BY <1>1
  <2>3. \A i \in DOMAIN stack' : stack'[i].depth = i
    BY <1>1, <1>3
  <2> QED BY <1>1, <1>4, <2>1, <2>2, <2>3 DEF Owing
<1>8. ASSUME NEW i \in 1..m, stack[i].id \in doomed PROVE stack'[i].id \in doomed'
  BY <1>1, <1>8 DEF Ids
<1>9. Debts'
  <2>1. ASSUME owed' # NoDebt, NEW i \in 1..m, stack'[i].depth > owed'
        PROVE  stack'[i].id \in doomed'
    <3>1. i \in 1..n /\ stack[i].depth > owed
      BY <2>1
    <3>2. stack[i].id \in doomed
      BY <1>1, <2>1, <3>1 DEF Tracked, Debts
    <3> QED BY <1>8, <3>2
  <2>2. ASSUME NEW i \in 1..m PROVE ~(stack'[i].depth > i)
    <3>1. stack'[i].depth = i
      BY <1>3
    <3>2. i \in Nat
      BY <1>1
    <3> QED BY <3>1, <3>2
  <2> QED BY <1>1, <2>1, <2>2 DEF Debts
<1>10. ASSUME Aimed, Near', p = at - 1 \/ p = at + 1 \/ (p >= at - Depth /\ p < at)
       PROVE  Aimed'
  <2>1. Ahead(at)'
    <3>1. Ahead(at)
      BY <1>6, <1>10 DEF Aimed
    <3>2. ASSUME NEW q \in 1..Len(marks), q > p PROVE marks[q] # 0
      <4>1. CASE q > at
        BY <3>1, <4>1 DEF Ahead
      <4>2. CASE q = at
        BY <3>1, <4>2 DEF Ahead
      <4>3. CASE q < at
        <5>1. p >= at - Depth /\ p < at
          BY <1>1, <1>10, <3>2, <4>3
        <5>2. at - q \in 0..Depth /\ at - (at - q) = q /\ Depth - (at - q) # 0
          <6>1. at \in Nat /\ p \in Nat /\ q \in Nat /\ Depth \in Nat
            BY <1>1
          <6> HIDE DEF Depth
          <6> QED BY <3>2, <4>3, <5>1, <6>1, StepsBack
        <5>3. \A k \in 0..Depth : marks[at - k] = Depth - k
          BY <1>1 DEF Sound, Rises, RisesTo, Depth
        <5>4. marks[q] = Depth - (at - q)
          <6> HIDE DEF Depth
          <6> QED BY <5>2, <5>3
        <5> QED BY <5>2, <5>4
      <4> QED BY <1>1, <4>1, <4>2, <4>3
    <3> QED BY <3>2 DEF Ahead
  <2>2. ASSUME NEW j \in 1..Len(pending') PROVE Covers(pending[j])'
    <3>1. pending'[j] = pending[j + 1] /\ j + 1 \in DOMAIN pending
      <4>1. DOMAIN pending = 1..Len(pending)
        BY <1>1
      <4>2. j + 1 \in 1..Len(pending)
        OBVIOUS
      <4> QED BY <4>1, <4>2
    <3>2. Covers(pending[j + 1])
      BY <1>10, <3>1 DEF Aimed, Asked
    <3>3. CASE AllDoomed
      <4>1. \A i \in 1..m : stack[i].id \in doomed
        <5>1. ASSUME NEW i \in 1..m PROVE i \in DOMAIN stack
          <6>1. i \in 1..n
            OBVIOUS
          <6> QED BY <1>1, <6>1
        <5> QED BY <3>3, <5>1 DEF AllDoomed
      <4>2. AllDoomed'
        BY <1>1, <1>8, <4>1 DEF AllDoomed
      <4> QED BY <4>2 DEF Covers
    <3>4. CASE ~AllDoomed
      <4>1. /\ Ahead(pending[j + 1])
            /\ \A i \in 1..n : stack[i].depth > marks[pending[j + 1]] => stack[i].id \in doomed
        BY <1>1, <3>2, <3>4 DEF Covers
      <4>2. Ahead(pending[j])'
        BY <3>1, <4>1 DEF Ahead
      <4>3. \A i \in 1..m : stack'[i].depth > marks'[pending'[j]] => stack'[i].id \in doomed'
        BY <1>8, <3>1, <4>1
      <4> QED BY <1>1, <4>2, <4>3 DEF Covers
    <3> QED BY <3>3, <3>4
  <2>3. DOMAIN pending' = 1..Len(pending')
    BY <1>1
  <2>4. Asked'
    BY <2>2, <2>3 DEF Asked
  <2> QED BY <1>10, <2>1, <2>4 DEF Aimed
<1> QED BY <1>4, <1>5, <1>7, <1>9, <1>10 DEF Tracked

\* A traversal lands.
LEMMA LandKeeps ==
  ASSUME OverlayInv, Land
  PROVE  OverlayInv'
<1>1. Sound /\ Sound' /\ Running
  BY LandSound DEF OverlayInv, Land
<1>2. SUFFICES ASSUME Running', ~stray' PROVE Tracked' /\ (~crossed' => Aimed')
  BY <1>1 DEF OverlayInv
<1>3. /\ doomed' = doomed \cap Ids(stack') /\ UNCHANGED <<marks, owed, listening, claimed>>
      /\ stray' = (at' # Outside /\ marks[at'] # 0 /\ (stray \/ marks[at'] > Len(stack')))
      /\ crossed' = (crossed /\ (pending' # <<>> \/ stack' # <<>>))
      /\ at' # Outside /\ at' = Head(pending) /\ pending # <<>>
  BY <1>2 DEF Land, Running
<1>4. /\ at' \in 0..Len(marks) /\ at' = pending[1] /\ Len(pending) \in Nat /\ Len(pending) # 0
      /\ pending' \in Seq(0..Len(marks)) /\ Len(pending') = Len(pending) - 1
      /\ \A j \in 1..Len(pending') : pending'[j] = pending[j + 1]
      /\ ~crossed => \A j \in 1..Len(pending') : pending'[j] \in {pending[j] - 1, pending[j] + 1}
  BY <1>1, LandIs
<1>5. PICK m \in 0..Len(stack) :
        /\ Len(stack') = m /\ m <= marks[at']
        /\ \A i \in 1..m : stack'[i] = stack[i]
        /\ Rising => \A i \in 1..m : stack[i].depth <= marks[at']
  BY <1>1, <1>3, LandIs
<1>6. /\ at' \in 1..Len(marks) /\ marks[at'] \in Nat /\ Len(stack) \in Nat /\ m \in Nat
      /\ Len(marks) \in Nat /\ stack' \in Seq(Entries)
  <2>1. /\ marks \in Seq(Nat) /\ Len(marks) \in Nat /\ Len(stack) \in Nat
        /\ stack' \in Seq(Entries)
    BY <1>1, Typed, LandIs
  <2>2. at' \in 1..Len(marks)
    BY <1>3, <1>4, <2>1 DEF Outside
  <2> QED BY <2>1, <2>2
<1>7. ~crossed' => Near'
  <2>1. ASSUME ~crossed', pending' # <<>> PROVE Head(pending') \in {at' - 1, at' + 1}
    <3>1. 1 \in 1..Len(pending')
      BY <1>4, <2>1
    <3>2. ~crossed
      BY <1>3, <2>1
    <3>3. Head(pending') = pending'[1]
      BY <1>4, <2>1
    <3> QED BY <1>4, <2>1, <3>1, <3>2, <3>3
  <2> QED BY <2>1 DEF Near
<1>8. CASE marks[at'] = 0
  <2>1. stack' = <<>> /\ Depth' = 0
    BY <1>3, <1>5, <1>6, <1>8 DEF Depth
  <2> QED BY <1>1, <1>7, <2>1, EmptyTracked
<1>9. CASE marks[at'] # 0
  <2>1. ~stray /\ m = marks[at'] /\ m # 0
    <3>1. ~stray /\ ~(marks[at'] > Len(stack'))
      BY <1>2, <1>3, <1>9
    <3> QED BY <1>5, <1>6, <1>9, <3>1
  <2>2. Tracked /\ Rising /\ (~crossed => Aimed)
    BY <1>1, <2>1 DEF OverlayInv, Tracked
  <2>3. stack' # <<>>
    <3>1. Len(stack') # 0 /\ Len(<<>>) = 0
      BY <1>5, <2>1
    <3> QED BY <3>1
  <2>4. ~crossed' => /\ Aimed
                     /\ at' = at - 1 \/ at' = at + 1 \/ (at' >= at - Depth /\ at' < at)
    BY <1>3, <2>2, <2>3 DEF Aimed, Near
  <2>5. ASSUME NEW p \in 1..Len(marks), p = at', NEW d \in Nat, d = marks[p]
        PROVE  Tracked' /\ (~crossed' => Aimed')
    BY <1>1, <1>3, <1>4, <1>5, <1>6, <1>7, <1>9, <2>1, <2>2, <2>4, <2>5, LandTracked
  <2> QED BY <1>6, <2>5
<1> QED BY <1>8, <1>9

LEMMA OverlayInductive == OverlayInv /\ [OverlayNext]_overlayVars => OverlayInv'
<1> SUFFICES ASSUME OverlayInv, [OverlayNext]_overlayVars PROVE OverlayInv'
  OBVIOUS
<1>1. CASE UNCHANGED overlayVars
  BY <1>1 DEF overlayVars, OverlayInv, Sound, OverlayTypeOK, Running, Depth, Tracked, Rising,
              Distinct, Owing, Full, Debts, Aimed, Near, Asked, Covers, AllDoomed, Ahead
<1>2. Back \/ Dismiss => GoBack
  BY DEF Back, Dismiss
<1> QED BY <1>1, <1>2, OpenKeeps, DropKeeps, BackKeeps, ForwardKeeps, ReloadKeeps, FlushKeeps,
           LandKeeps DEF OverlayNext

\* Once nothing is owed and no traversal is in flight, history backs every open
\* overlay with an entry of its own (reconcile and the claims of pushOverlay).
THEOREM OverlaysAreBacked == OverlaySpec => []SettledAgree
<1>1. ASSUME OverlayInv PROVE SettledAgree
  <2>1. Sound /\ OverlayTypeOK
    BY <1>1 DEF OverlayInv, Sound
  <2>2. ASSUME Running, Rising PROVE Agree
    <3>1. /\ DOMAIN stack = 1..Len(stack) /\ Depth \in Nat /\ Len(stack) \in Nat
          /\ \A i \in DOMAIN stack : stack[i].depth \in Nat
      BY <2>1, <2>2, Typed
    <3>2. ASSUME NEW i \in DOMAIN stack PROVE stack[i].depth \in 1..Depth
      <4>1. stack[i].depth >= i /\ stack[i].depth <= Depth /\ i \in 1..Len(stack)
        BY <2>2, <3>1 DEF Rising
      <4>2. stack[i].depth \in Nat
        BY <3>1
      <4> QED BY <3>1, <4>1, <4>2
    <3>3. ASSUME NEW i \in DOMAIN stack, NEW j \in DOMAIN stack, i < j
          PROVE  stack[i].depth < stack[j].depth
      <4>1. stack[j].depth >= stack[i].depth + (j - i)
        BY <2>2, <3>3 DEF Rising
      <4>2. stack[i].depth \in Nat /\ stack[j].depth \in Nat /\ i \in Nat /\ j \in Nat
        BY <3>1
      <4> QED BY <3>3, <4>1, <4>2
    <3> QED BY <3>2, <3>3 DEF Agree
  <2> QED BY <1>1, <2>1, <2>2 DEF SettledAgree, OverlayInv, Tracked
<1> QED BY <1>1, OverlayInitial, OverlayInductive, PTL DEF OverlaySpec

\* The first entry of the application is no overlay's.
LEMMA FirstUnmarked ==
  ASSUME Sound, 1 \in 1..Len(marks)
  PROVE  marks[1] = 0
<1>1. marks[1] \in Nat /\ marks[1] < 1
  BY Typed DEF Sound, Rises, RisesTo
<1> QED BY <1>1

\* Only a landing takes a traversal out of flight, and only going back or the
\* timer asks for one that leaves the application.
LEMMA WhatTravels ==
  ASSUME Sound, [OverlayNext]_overlayVars
  PROVE  /\ pending # <<>> /\ pending' = Tail(pending) /\ listening' => Land
         /\ AsksOut => GoBack \/ (Flush /\ Depth > owed)
<1>1. /\ pending \in Seq(0..Len(marks)) /\ Len(pending) \in Nat /\ Len(marks) \in Nat
  BY Typed
<1>2. pending # <<>> => Len(Tail(pending)) = Len(pending) - 1
  BY <1>1
<1>3. ASSUME NEW to, pending' = Append(pending, to)
      PROVE  Len(pending') = Len(pending) + 1 /\ Last(pending') = to
  BY <1>1, <1>3 DEF Last
<1>4. ASSUME Len(pending') = Len(pending)
      PROVE  ~AsksOut /\ ~(pending # <<>> /\ pending' = Tail(pending))
  BY <1>1, <1>2, <1>4 DEF AsksOut
<1>5. CASE GoBack
  <2>1. Len(pending') = Len(pending) + 1
    BY <1>3, <1>5 DEF GoBack
  <2> QED BY <1>1, <1>2, <1>5, <2>1
<1>6. CASE Forward
  <2>1. Len(pending') = Len(pending) + 1 /\ Last(pending') = From + 1 /\ Running
    BY <1>3, <1>6 DEF Forward
  <2>2. From \in 0..Len(marks)
    BY <2>1, FromIs
  <2>3. Last(pending') # Outside
    BY <1>1, <2>1, <2>2 DEF Outside
  <2> QED BY <1>1, <1>2, <2>1, <2>3 DEF AsksOut
<1>7. CASE Flush
  <2>1. CASE Depth > owed
    <3>1. Len(pending') = Len(pending) + 1
      BY <1>3, <1>7, <2>1 DEF Flush, Traverse
    <3> QED BY <1>1, <1>2, <1>7, <2>1, <3>1
  <2>2. CASE ~(Depth > owed)
    BY <1>4, <1>7, <2>2 DEF Flush
  <2> QED BY <2>1, <2>2
<1>8. CASE Land
  <2>1. Len(pending') = Len(pending) - 1
    BY <1>2, <1>8 DEF Land
  <2> QED BY <1>1, <1>8, <2>1 DEF AsksOut
<1>9. CASE Reload
  <2>1. ~listening' /\ Len(pending') = 0
    BY <1>9 DEF Reload
  <2> QED BY <1>1, <2>1 DEF AsksOut
<1>10. ASSUME NEW e \in Overlays, NEW strict \in BOOLEAN, Open(e, strict)
       PROVE  Len(pending') = Len(pending)
  BY <1>1, <1>10 DEF Open
<1>11. ASSUME NEW e \in Overlays, Drop(e) PROVE Len(pending') = Len(pending)
  BY <1>11 DEF Drop
<1>12. UNCHANGED overlayVars => Len(pending') = Len(pending)
  BY DEF overlayVars
<1>13. Back \/ Dismiss => GoBack
  BY DEF Back, Dismiss
<1> QED BY <1>4, <1>5, <1>6, <1>7, <1>8, <1>9, <1>10, <1>11, <1>12, <1>13 DEF OverlayNext

\* A traversal closes only overlays somebody asked to close: one that was opened
\* in the commit that dropped another takes over its entry (pushOverlay), and does
\* not flash and vanish when the deferred traversal lands, unless a push or the
\* timer went by a depth that a traversal in flight had made stale.
THEOREM NothingFlashes == OverlaySpec => NoFlash
<1> DEFINE Honest == \A e \in Overlays : Closes(e) /\ ~stray /\ ~crossed => e \in doomed
<1>1. ASSUME OverlayInv, [OverlayNext]_overlayVars PROVE [Honest]_overlayVars
  <2> SUFFICES ASSUME NEW e \in Overlays, Closes(e), ~stray, ~crossed PROVE e \in doomed
    OBVIOUS
  <2>1. /\ pending # <<>> /\ pending' = Tail(pending) /\ listening'
        /\ e \in Ids(stack) /\ e \notin Ids(stack')
    BY DEF Closes
  <2>2. Sound /\ Land /\ Running
    BY <1>1, <2>1, WhatTravels DEF OverlayInv, Land
  <2>3. Tracked /\ Asked
    BY <1>1, <2>2 DEF OverlayInv, Aimed
  <2>4. /\ at' \in 0..Len(marks) /\ at' = pending[1] /\ Len(pending) \in Nat
        /\ Len(pending) # 0 /\ stack' \in Seq(Entries)
    BY <2>2, LandIs
  <2>5. 1 \in DOMAIN pending
    <3>1. pending \in Seq(0..Len(marks))
      BY <2>2, Typed
    <3> QED BY <2>4, <3>1
  <2>6. Covers(pending[1])
    BY <2>3, <2>5 DEF Asked
  <2>7. PICK i \in DOMAIN stack : stack[i].id = e
    BY <2>1 DEF Ids
  <2>8. DOMAIN stack = 1..Len(stack) /\ Len(stack) \in Nat
    BY <2>2, Typed
  <2>9. CASE AllDoomed
    BY <2>7, <2>9 DEF AllDoomed
  <2>10. CASE ~AllDoomed
    <3>1. /\ at' # Outside
          /\ stack[i].depth > marks[at'] => stack[i].id \in doomed
      BY <2>4, <2>6, <2>7, <2>10 DEF Covers, Ahead
    <3>2. PICK m \in 0..Len(stack) :
             /\ Len(stack') = m
             /\ \A k \in 1..m : stack'[k] = stack[k]
             /\ Rising => \A k \in (m + 1)..Len(stack) : stack[k].depth > marks[at']
      BY <2>2, <3>1, LandIs
    <3>3. i \notin 1..m
      <4>1. ASSUME i \in 1..m PROVE FALSE
        <5>1. i \in DOMAIN stack' /\ stack'[i].id = e
          BY <2>4, <2>7, <3>2, <4>1
        <5> QED BY <2>1, <5>1 DEF Ids
      <4> QED BY <4>1
    <3>4. i \in (m + 1)..Len(stack)
      BY <2>8, <3>3
    <3>5. stack[i].depth > marks[at']
      BY <2>3, <3>2, <3>4 DEF Tracked
    <3> QED BY <2>7, <3>1, <3>5
  <2> QED BY <2>9, <2>10
<1>2. OverlaySpec => [][Honest]_overlayVars
  BY <1>1, OverlayInitial, OverlayInductive, PTL DEF OverlaySpec
<1> QED BY <1>2 DEF NoFlash

\* Going back leaves the application only once every overlay has been asked to
\* close, and the traversal that a drop owes never leaves it: it returns entries
\* the overlays added, unless it went by a depth that a traversal in flight had
\* made stale.
THEOREM TheUserStays == OverlaySpec => StaysInApp
<1> DEFINE Stays == AsksOut /\ ~stray /\ ~crossed' => owed' = owed /\ Ids(stack) \subseteq doomed
<1>1. ASSUME OverlayInv, [OverlayNext]_overlayVars PROVE [Stays]_overlayVars
  <2> SUFFICES ASSUME AsksOut, ~stray, ~crossed'
               PROVE  owed' = owed /\ Ids(stack) \subseteq doomed
    OBVIOUS
  <2>1. Sound /\ (GoBack \/ (Flush /\ Depth > owed))
    BY <1>1, WhatTravels DEF OverlayInv
  <2>2. /\ pending \in Seq(0..Len(marks)) /\ Len(pending) \in Nat /\ Len(marks) \in Nat
        /\ DOMAIN stack = 1..Len(stack)
        /\ \A i \in 1..Len(stack) : stack[i].depth \in Nat
        /\ owed \in {NoDebt} \cup Nat
    BY <2>1, Typed
  <2>3. ASSUME NEW to, pending' = Append(pending, to) PROVE to = Outside
    <3>1. Last(pending') = to
      BY <2>2, <2>3 DEF Last
    <3> QED BY <3>1 DEF AsksOut
  <2>4. CASE GoBack
    <3>1. /\ Running /\ From # Outside /\ owed' = owed /\ ~crossed
          /\ pending' = Append(pending, From - 1)
      BY <2>4 DEF GoBack
    <3>2. Tracked /\ Aimed
      BY <1>1, <3>1 DEF OverlayInv
    <3>3. From \in 1..Len(marks) /\ Covers(From)
      BY <2>1, <3>1, <3>2, FromCovered
    <3>4. From = 1
      <4>1. From - 1 = Outside
        BY <2>3, <3>1
      <4> QED BY <2>2, <3>3, <4>1 DEF Outside
    <3>5. marks[1] = 0
      BY <2>1, <2>2, <3>3, <3>4, FirstUnmarked
    <3>6. AllDoomed
      BY <3>3, <3>4, <3>5 DEF Covers, Ahead
    <3> QED BY <3>1, <3>6 DEF AllDoomed, Ids
  <2>5. CASE Flush /\ Depth > owed
    <3>1. /\ Running /\ owed # NoDebt /\ pending = <<>>
          /\ pending' = Append(pending, Earlier(Depth - owed))
      BY <2>5 DEF Flush, Traverse
    <3>2. Earlier(Depth - owed) = Outside
      BY <2>3, <3>1
    <3>3. at - (Depth - owed) \in 1..Len(marks) /\ From = at /\ at \in 1..Len(marks)
      BY <2>1, <2>5, <3>1, FlushLands, FromIs, Typed
    <3>4. ASSUME NEW n, n = Depth - owed, NEW f, f = From PROVE FALSE
      <4>1. f \in 1..Len(marks) /\ f - n \in 1..Len(marks) /\ n \in Int
        <5>1. Depth \in Nat /\ owed \in Nat
          BY <2>1, <2>2, <3>1, Typed DEF NoDebt
        <5> QED BY <3>3, <3>4, <5>1
      <4>2. n < f
        BY <2>2, <4>1
      <4>3. (IF n < f THEN f - n ELSE Outside) = Outside
        BY <3>2, <3>4 DEF Earlier
      <4> QED BY <4>1, <4>2, <4>3 DEF Outside
    <3> QED BY <3>4
  <2> QED BY <2>1, <2>4, <2>5
<1>2. OverlaySpec => [][Stays]_overlayVars
  BY <1>1, OverlayInitial, OverlayInductive, PTL DEF OverlaySpec
<1> QED BY <1>2 DEF StaysInApp
=============================================================================

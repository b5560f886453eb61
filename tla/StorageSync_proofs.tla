------------------------- MODULE StorageSync_proofs -------------------------
(***************************************************************************)
(* One storage key, for any number of requests, views and faults: appends  *)
(* are kept, views that no event missed converge, and edits are saved.     *)
(* The invariant says what is on its way: what the outbox and a stream end *)
(* with is what is stored, and a view to which nothing is on its way has   *)
(* been given what is stored.                                              *)
(***************************************************************************)
EXTENDS StorageSync, SequenceTheorems, TLAPS

EndsWith(t, s) ==
  Len(s) <= Len(t) /\ \A i \in 1..Len(s) : t[Len(t) - Len(s) + i] = s[i]

\* The requests in the append lock are one at most, and the one that has read
\* the list has read it as it is, unless a PUT or DELETE came between.
AppendSound(r) ==
  /\ write[r].kind = "append" =>
       /\ write[r].view = None
       /\ stage[r] \in {"sent", "read"} => write[r].value = <<r>>
  /\ stage[r] = "read" => write[r].kind = "append" /\ (read[r] = stored \/ recent = << >>)

LockSound == \A r, q \in InLock : r = q

RecentSound == recent # << >> => stored # None /\ EndsWith(stored, LastOf(recent, Cap))

\* The outbox holds each write that is set and not published once, and the
\* last one is what is stored.
OutboxSound ==
  /\ \A r \in Requests : stage[r] = "set" <=> \E i \in 1..Len(outbox) : outbox[i] = r
  /\ \A i, j \in 1..Len(outbox) : outbox[i] = outbox[j] => i = j
  /\ outbox # << >> => write[outbox[Len(outbox)]].value = stored

\* A write of the view is on its way to the server.
Unsent(v) == \E r \in Requests : stage[r] = "sent" /\ write[r].view = v

\* The view was told what is stored; it shows that or is about to change it.
Told(v) == async[v] = stored /\ (shown[v] = Shows(v, stored) \/ Unsent(v))

\* When all writes are published, a view that no event missed has what is
\* stored at the end of its stream, or else in the answer it waits for, or was
\* told it.
ViewSound(v) ==
  v \notin missed /\ outbox = << >> =>
    /\ stream[v] # << >> => stream[v][Len(stream[v])] = stored
    /\ stream[v] = << >> =>
         /\ phase[v] = "answered" /\ ~live[v] => initial[v] = stored
         /\ phase[v] = "on" \/ (phase[v] # "off" /\ live[v]) => Told(v)

SyncInv ==
  /\ TypeOK
  /\ \A r \in Requests : AppendSound(r)
  /\ LockSound /\ RecentSound /\ OutboxSound
  /\ \A v \in Views : ViewSound(v)

-----------------------------------------------------------------------------
(* Facts about sequences.                                                  *)

Entries == Requests \cup Words

\* The last n elements of a sequence, at their places.
LEMMA LastOfFacts ==
  ASSUME NEW S, NEW s \in Seq(S), NEW n \in Nat \ {0}
  PROVE  /\ LastOf(s, n) \in Seq(S)
         /\ Len(LastOf(s, n)) = IF Len(s) > n THEN n ELSE Len(s)
         /\ \A i \in 1..Len(LastOf(s, n)) :
              LastOf(s, n)[i] = s[Len(s) - Len(LastOf(s, n)) + i]
<1>1. CASE Len(s) > n
  <2> DEFINE m == Len(s) - n + 1
  <2>1. m \in 1..Len(s) /\ Len(s) \in Nat /\ Len(s) - m + 1 = n
    BY <1>1
  <2>2. \A i \in m..Len(s) : s[i] \in S
    BY <2>1, ElementOfSeq
  <2>3. /\ SubSeq(s, m, Len(s)) \in Seq(S)
        /\ Len(SubSeq(s, m, Len(s))) = n
        /\ \A i \in 1..n : SubSeq(s, m, Len(s))[i] = s[m + i - 1]
    BY <2>1, <2>2, SubSeqProperties
  <2> QED BY <1>1, <2>1, <2>3 DEF LastOf
<1>2. CASE ~(Len(s) > n)
  BY <1>2 DEF LastOf
<1> QED BY <1>1, <1>2

\* If a list ends with what was appended lately, then it still does when one
\* more entry is appended to both, and both are cut off at the cap.
LEMMA AppendKeepsEnd ==
  ASSUME NEW S, NEW list \in Seq(S), NEW late \in Seq(S), NEW e \in S, NEW n \in Nat \ {0},
         EndsWith(list, LastOf(late, n))
  PROVE  EndsWith(LastOf(list \o <<e>>, n), LastOf(Append(late, e), n))
<1> DEFINE a == list \o <<e>>
           b == Append(late, e)
<1>1. /\ a \in Seq(S) /\ Len(a) = Len(list) + 1 /\ Len(list) \in Nat
      /\ \A i \in 1..Len(list) : a[i] = list[i]
      /\ a[Len(list) + 1] = e
  OBVIOUS
<1>2. /\ b \in Seq(S) /\ Len(b) = Len(late) + 1 /\ Len(late) \in Nat
      /\ \A i \in 1..Len(late) : b[i] = late[i]
      /\ b[Len(late) + 1] = e
  OBVIOUS
<1> HIDE DEF a, b
<1>3. /\ Len(LastOf(late, n)) = IF Len(late) > n THEN n ELSE Len(late)
      /\ \A i \in 1..Len(LastOf(late, n)) :
           LastOf(late, n)[i] = late[Len(late) - Len(LastOf(late, n)) + i]
  BY LastOfFacts
<1>4. /\ Len(LastOf(a, n)) = IF Len(a) > n THEN n ELSE Len(a)
      /\ \A i \in 1..Len(LastOf(a, n)) : LastOf(a, n)[i] = a[Len(a) - Len(LastOf(a, n)) + i]
  BY <1>1, LastOfFacts
<1>5. /\ Len(LastOf(b, n)) = IF Len(b) > n THEN n ELSE Len(b)
      /\ \A i \in 1..Len(LastOf(b, n)) : LastOf(b, n)[i] = b[Len(b) - Len(LastOf(b, n)) + i]
  BY <1>2, LastOfFacts
<1> DEFINE la == Len(LastOf(a, n))
           lb == Len(LastOf(b, n))
           ll == Len(LastOf(late, n))
<1>6. /\ ll <= Len(list)
      /\ \A i \in 1..ll : list[Len(list) - ll + i] = LastOf(late, n)[i]
  BY DEF EndsWith
<1>7. la \in Nat /\ lb \in Nat /\ ll \in Nat /\ lb <= la /\ lb <= ll + 1
  BY <1>1, <1>2, <1>3, <1>4, <1>5, <1>6
<1>8. ASSUME NEW i \in 1..lb PROVE LastOf(a, n)[la - lb + i] = LastOf(b, n)[i]
  <2>1. la - lb + i \in 1..la
    BY <1>7
  <2>2. /\ LastOf(a, n)[la - lb + i] = a[Len(a) - la + (la - lb + i)]
        /\ LastOf(b, n)[i] = b[Len(b) - lb + i]
    BY <1>4, <1>5, <2>1
  <2>3. Len(a) - la + (la - lb + i) = Len(a) - lb + i
    BY <1>1, <1>7
  <2>4. CASE i = lb
    BY <1>1, <1>2, <1>7, <2>2, <2>3, <2>4
  <2>5. CASE i # lb
    <3>1. /\ Len(list) - ll + (ll - lb + i + 1) = Len(a) - lb + i
          /\ ll - lb + i + 1 \in 1..ll
      BY <1>1, <1>7, <2>5
    <3>2. Len(a) - lb + i \in 1..Len(list) /\ Len(b) - lb + i \in 1..Len(late)
      BY <1>1, <1>2, <1>3, <1>6, <1>7, <2>5
    <3>3. Len(late) - ll + (ll - lb + i + 1) = Len(b) - lb + i
      BY <1>2, <1>7
    <3>4. list[Len(a) - lb + i] = late[Len(b) - lb + i]
      BY <1>3, <1>6, <3>1, <3>3
    <3> QED BY <1>1, <1>2, <2>2, <2>3, <3>2, <3>4
  <2> QED BY <2>4, <2>5
<1> QED BY <1>7, <1>8 DEF EndsWith, a, b

\* What ends with s has s as a suffix.
LEMMA EndIsSuffix ==
  ASSUME NEW S, NEW s \in Seq(S), NEW t \in Seq(S), EndsWith(t, s)
  PROVE  IsSuffix(s, t)
<1>1. /\ Len(Reverse(s)) = Len(s) /\ Len(Reverse(t)) = Len(t)
      /\ Len(s) \in Nat /\ Len(t) \in Nat /\ Len(s) <= Len(t)
  BY DEF Reverse, EndsWith
<1>2. ASSUME NEW i \in 1..Len(s) PROVE Reverse(s)[i] = Reverse(t)[i]
  <2>1. Reverse(s)[i] = s[Len(s) - i + 1] /\ Reverse(t)[i] = t[Len(t) - i + 1]
    BY <1>1 DEF Reverse
  <2>2. /\ Len(s) - i + 1 \in 1..Len(s)
        /\ Len(t) - Len(s) + (Len(s) - i + 1) = Len(t) - i + 1
    BY <1>1
  <2> QED BY <2>1, <2>2 DEF EndsWith
<1>3. SubSeq(Reverse(s), 1, Len(s)) = SubSeq(Reverse(t), 1, Len(s))
  BY <1>1, <1>2
<1> QED BY <1>1, <1>3 DEF IsSuffix, IsPrefix

\* A value appended to a stream or to the outbox is its last.
LEMMA AppendFacts ==
  ASSUME NEW S, NEW s \in Seq(S), NEW e \in S
  PROVE  /\ Append(s, e) \in Seq(S)
         /\ Len(Append(s, e)) = Len(s) + 1 /\ Len(s) \in Nat
         /\ \A i \in 1..Len(s) : Append(s, e)[i] = s[i]
         /\ Append(s, e)[Len(s) + 1] = e /\ Append(s, e) # << >>
  OBVIOUS

LEMMA TailFacts ==
  ASSUME NEW S, NEW s \in Seq(S), s # << >>
  PROVE  /\ Tail(s) \in Seq(S)
         /\ Len(Tail(s)) = Len(s) - 1 /\ Len(s) \in Nat \ {0}
         /\ \A i \in 1..Len(Tail(s)) : Tail(s)[i] = s[i + 1]
         /\ Head(s) = s[1] /\ Head(s) \in S
         /\ Tail(s) # << >> => Tail(s)[Len(Tail(s))] = s[Len(s)]
         /\ Tail(s) = << >> => Head(s) = s[Len(s)]
<1>1. /\ Tail(s) \in Seq(S)
      /\ Len(Tail(s)) = Len(s) - 1 /\ Len(s) \in Nat \ {0}
      /\ \A i \in 1..Len(Tail(s)) : Tail(s)[i] = s[i + 1]
      /\ Head(s) = s[1] /\ Head(s) \in S
  OBVIOUS
<1>2. Tail(s) # << >> => Len(Tail(s)) \in Nat \ {0}
  BY <1>1
<1>3. Tail(s) = << >> => Len(s) = 1
  BY <1>1, EmptySeq
<1> QED BY <1>1, <1>2, <1>3

-----------------------------------------------------------------------------
(* Types.                                                                  *)

Kinds == {"none", "put", "append", "delete"}

\* One entry alone is a value; null is another.
LEMMA ValueFacts ==
  /\ \A e \in Entries : <<e>> \in Seq(Entries)
  /\ \A r \in Requests : <<r>> \in Value
  /\ None \in Value /\ Seq(Entries) \subseteq Value /\ << >> \in Seq(Entries)
  /\ None \notin Seq(Entries)
  BY StorageAssumption DEF Entries, Value

\* A request that is sent; no other changes.
LEMMA SendFacts ==
  ASSUME TypeOK, NEW r \in Requests, NEW k \in Kinds, NEW x \in Value,
         NEW u \in Views \cup {None}, Send(r, k, x, u)
  PROVE  /\ stage[r] = "idle" /\ read' = read
         /\ stage' \in [Requests -> {"idle", "sent", "read", "set", "done"}]
         /\ write' \in [Requests -> [kind : Kinds, value : Value, view : Views \cup {None}]]
         /\ \A q \in Requests : /\ stage'[q] = IF q = r THEN "sent" ELSE stage[q]
                                /\ q # r => write'[q] = write[q]
         /\ write'[r].kind = k /\ write'[r].value = x /\ write'[r].view = u
<1>1. [kind |-> k, value |-> x, view |-> u]
        \in [kind : Kinds, value : Value, view : Views \cup {None}]
  OBVIOUS
<1>2. /\ stage' = [stage EXCEPT ![r] = "sent"]
      /\ write' = [write EXCEPT ![r] = [kind |-> k, value |-> x, view |-> u]]
  BY DEF Send
<1> QED BY <1>1, <1>2 DEF Send, TypeOK, Kinds

\* What a step may do to the writes, apart from publishing them: nothing, or
\* send one.
LEMMA ApplyFacts ==
  ASSUME TypeOK, NEW v \in Views, NEW x \in Value, Apply(v, x)
  PROVE  /\ shown' \in [Views -> Seq(Entries)] /\ async' \in [Views -> Value]
         /\ \A w \in Views : w # v => shown'[w] = shown[w] /\ async'[w] = async[w]
         /\ shown'[v] = Shows(v, x) /\ async'[v] = x
         /\ \/ UNCHANGED writes
            \/ \E r \in Requests : Send(r, "put", fallback[v], v) /\ fallback[v] \in Value
  BY ValueFacts DEF Apply, Shows, TypeOK, Entries, Value

LEMMA InitialTypes == Init => TypeOK
<1> SUFFICES ASSUME Init PROVE TypeOK
  OBVIOUS
<1>1. /\ write \in [Requests -> [kind : Kinds, value : Value, view : Views \cup {None}]]
      /\ read \in [Requests -> Value] /\ initial \in [Views -> Value]
      /\ async \in [Views -> Value] /\ unsaved \in [Views -> Value] /\ stored \in Value
  BY ValueFacts DEF Init, NoWrite, Kinds
<1>2. /\ shown \in [Views -> Seq(Entries)] /\ fallback \in [Views -> Seq(Entries)]
      /\ stream \in [Views -> Seq(Value)] /\ outbox \in Seq(Requests) /\ recent \in Seq(Requests)
  BY DEF Init, Empty
<1> QED BY <1>1, <1>2 DEF Init, TypeOK, Kinds, Entries

\* What an append stores: what it has read, and its own entry at the end.
LEMMA AppendedFacts ==
  ASSUME TypeOK, NEW r \in Requests, AppendSound(r), AppendSets(r)
  PROVE  \E base \in Seq(Entries) :
           /\ base = IF read[r] = None THEN << >> ELSE read[r]
           /\ stored' = LastOf(base \o <<r>>, Cap) /\ stored' \in Seq(Entries)
           /\ stored' # << >> /\ stored'[Len(stored')] = r
<1> USE ValueFacts, StorageAssumption
<1> DEFINE base == IF read[r] = None THEN << >> ELSE read[r]
           all == base \o <<r>>
<1>1. base \in Seq(Entries) /\ r \in Entries
  BY DEF TypeOK, Value, Entries
<1>2. write[r].value = <<r>>
  BY DEF AppendSound, AppendSets
<1>3. stored' = LastOf(all, Cap)
  BY <1>2 DEF AppendSets
<1> HIDE DEF base
<1>4. all \in Seq(Entries) /\ Len(all) = Len(base) + 1 /\ Len(base) \in Nat /\ all[Len(all)] = r
  BY <1>1
<1> HIDE DEF all
<1>5. /\ LastOf(all, Cap) \in Seq(Entries)
      /\ Len(LastOf(all, Cap)) = IF Len(all) > Cap THEN Cap ELSE Len(all)
      /\ \A i \in 1..Len(LastOf(all, Cap)) :
           LastOf(all, Cap)[i] = all[Len(all) - Len(LastOf(all, Cap)) + i]
  BY <1>4, LastOfFacts
<1>6. Len(stored') \in Nat \ {0} /\ Len(stored') <= Len(all)
  BY <1>3, <1>4, <1>5
<1>7. stored'[Len(stored')] = all[Len(all)]
  <2>1. Len(all) - Len(stored') + Len(stored') = Len(all)
    BY <1>4, <1>6
  <2>2. \A i \in 1..Len(stored') : stored'[i] = all[Len(all) - Len(stored') + i]
    BY <1>3, <1>5
  <2>3. stored'[Len(stored')] = all[Len(all) - Len(stored') + Len(stored')]
    BY <1>6, <2>2
  <2> QED BY <2>1, <2>3
<1>8. stored' # << >>
  BY <1>6, EmptySeq
<1> QED BY <1>1, <1>3, <1>4, <1>5, <1>7, <1>8 DEF base, all

\* Values of the writes that a request may carry.
LEMMA TypesOfWrites ==
  ASSUME TypeOK, NEW r \in Requests, AppendSound(r), WriteElsewhere(r) \/ Write(r)
  PROVE  TypeOK'
<1> USE ValueFacts, StorageAssumption
<1>1. CASE WriteElsewhere(r)
  <2>1. \E k \in Kinds, x \in Value : Send(r, k, x, None)
    BY <1>1 DEF WriteElsewhere, Kinds
  <2>2. /\ read' = read
        /\ stage' \in [Requests -> {"idle", "sent", "read", "set", "done"}]
        /\ write' \in [Requests -> [kind : Kinds, value : Value, view : Views \cup {None}]]
    BY <2>1, SendFacts
  <2> QED BY <1>1, <2>2 DEF WriteElsewhere, TypeOK, Kinds, page, wire
<1>2. CASE Overwrite(r)
  <2>1. stored' \in Value /\ outbox' \in Seq(Requests) /\ unsaved' \in [Views -> Value]
    BY <1>2 DEF Overwrite, TypeOK
  <2> QED BY <1>2, <2>1 DEF Overwrite, TypeOK
<1>3. CASE AppendReads(r)
  BY <1>3 DEF AppendReads, TypeOK, page, wire
<1>4. CASE AppendSets(r)
  <2>1. stored' \in Value
    BY <1>4, AppendedFacts
  <2>2. write' \in [Requests -> [kind : Kinds, value : Value, view : Views \cup {None}]]
    <3> DEFINE Write1 == [kind : Kinds, value : Value, view : Views \cup {None}]
    <3>1. write[r] \in Write1 /\ write \in [Requests -> Write1]
      BY DEF TypeOK, Kinds
    <3>2. [write[r] EXCEPT !.value = stored'] \in Write1
      BY <2>1, <3>1
    <3>3. write' = [write EXCEPT ![r] = [write[r] EXCEPT !.value = stored']]
      BY <1>4 DEF AppendSets
    <3> HIDE DEF Write1
    <3>4. write' \in [Requests -> Write1]
      BY <3>1, <3>2, <3>3
    <3> QED BY <3>4 DEF Write1
  <2> QED BY <1>4, <2>1, <2>2 DEF AppendSets, TypeOK, Kinds, page
<1>5. CASE WriteFails(r)
  <2>1. unsaved' \in [Views -> Value] /\ missed' \subseteq Views
    BY <1>5 DEF WriteFails, TypeOK
  <2> QED BY <1>5, <2>1 DEF WriteFails, TypeOK, wire, Fault
<1> QED BY <1>1, <1>2, <1>3, <1>4, <1>5 DEF Write

\* A listener or a hook that may send a write, of the view.
LEMMA SendTypes ==
  ASSUME TypeOK, NEW v \in Views,
         \/ UNCHANGED writes
         \/ \E r \in Requests, x \in Value : Send(r, "put", x, v)
  PROVE  /\ stage' \in [Requests -> {"idle", "sent", "read", "set", "done"}]
         /\ write' \in [Requests -> [kind : Kinds, value : Value, view : Views \cup {None}]]
         /\ read' \in [Requests -> Value]
<1>1. CASE UNCHANGED writes
  BY <1>1 DEF writes, TypeOK, Kinds
<1>2. ASSUME NEW r \in Requests, NEW x \in Value, Send(r, "put", x, v)
      PROVE  /\ stage' \in [Requests -> {"idle", "sent", "read", "set", "done"}]
             /\ write' \in [Requests -> [kind : Kinds, value : Value, view : Views \cup {None}]]
             /\ read' = read
  BY <1>2, SendFacts DEF Kinds
<1> QED BY <1>1, <1>2 DEF TypeOK

LEMMA TypesOfViews ==
  ASSUME TypeOK, NEW v \in Views, View(v)
  PROVE  TypeOK'
<1> USE ValueFacts, StorageAssumption
<1>1. CASE Subscribe(v)
  <2>1. fallback' \in [Views -> Seq(Entries)] /\ phase' \in [Views -> {"off", "asked", "answered", "on"}]
        /\ live' \in [Views -> BOOLEAN] /\ missed' \subseteq Views
    BY <1>1 DEF Subscribe, Empty, TypeOK, Entries
  <2> QED BY <1>1, <2>1 DEF Subscribe, writes, wire, TypeOK, Entries
<1>2. CASE Unsubscribe(v) \/ GetReads(v)
  <2>1. phase' \in [Views -> {"off", "asked", "answered", "on"}]
    BY <1>2 DEF Unsubscribe, GetReads, TypeOK
  <2>2. CASE Unsubscribe(v)
    BY <2>1, <2>2 DEF Unsubscribe, writes, wire, TypeOK
  <2>3. CASE GetReads(v)
    <3>1. initial' \in [Views -> Value]
      BY <2>3 DEF GetReads, TypeOK
    <3> QED BY <2>1, <2>3, <3>1 DEF GetReads, writes, wire, TypeOK
  <2> QED BY <1>2, <2>2, <2>3
<1>3. CASE Register(v)
  BY <1>3 DEF Register, writes, page, TypeOK
<1>4. CASE GetFails(v)
  BY <1>4 DEF GetFails, Fault, writes, wire, TypeOK
<1>5. CASE Disconnect(v)
  <2>1. /\ registered' \in [Views -> BOOLEAN] /\ stream' \in [Views -> Seq(Value)]
        /\ missed' \subseteq Views /\ faults' \in Nat
    BY <1>5 DEF Disconnect, Fault, TypeOK
  <2> QED BY <1>5, <2>1 DEF Disconnect, writes, page, TypeOK
<1>6. CASE GetArrives(v)
  <2>1. initial[v] \in Value
    BY DEF TypeOK
  <2>2. /\ shown' \in [Views -> Seq(Entries)] /\ async' \in [Views -> Value]
        /\ UNCHANGED writes \/ \E r \in Requests, x \in Value : Send(r, "put", x, v)
    <3>1. CASE live[v]
      BY <1>6, <3>1 DEF GetArrives, Ignore, writes, TypeOK, Entries
    <3>2. CASE ~live[v]
      BY <1>6, <2>1, <3>2, ApplyFacts DEF GetArrives
    <3> QED BY <3>1, <3>2
  <2>3. /\ stage' \in [Requests -> {"idle", "sent", "read", "set", "done"}]
        /\ write' \in [Requests -> [kind : Kinds, value : Value, view : Views \cup {None}]]
        /\ read' \in [Requests -> Value]
    BY <2>2, SendTypes
  <2> QED BY <1>6, <2>2, <2>3 DEF GetArrives, wire, TypeOK, Entries, Kinds
<1>7. CASE Deliver(v)
  <2>1. stream[v] \in Seq(Value) /\ stream[v] # << >>
    BY <1>7 DEF Deliver, TypeOK
  <2>2. Head(stream[v]) \in Value /\ Tail(stream[v]) \in Seq(Value)
    BY <2>1, TailFacts
  <2>3. stream' \in [Views -> Seq(Value)] /\ live' \in [Views -> BOOLEAN]
    BY <1>7, <2>2 DEF Deliver, TypeOK
  <2>4. /\ shown' \in [Views -> Seq(Entries)] /\ async' \in [Views -> Value]
        /\ UNCHANGED writes \/ \E r \in Requests, x \in Value : Send(r, "put", x, v)
    <3>1. CASE phase[v] = "off"
      BY <1>7, <3>1 DEF Deliver, Ignore, writes, TypeOK, Entries
    <3>2. CASE phase[v] # "off"
      BY <1>7, <2>2, <3>2, ApplyFacts DEF Deliver
    <3> QED BY <3>1, <3>2
  <2>5. /\ stage' \in [Requests -> {"idle", "sent", "read", "set", "done"}]
        /\ write' \in [Requests -> [kind : Kinds, value : Value, view : Views \cup {None}]]
        /\ read' \in [Requests -> Value]
    BY <2>4, SendTypes
  <2> QED BY <1>7, <2>3, <2>4, <2>5 DEF Deliver, TypeOK, Entries, Kinds
<1> QED BY <1>1, <1>2, <1>3, <1>4, <1>5, <1>6, <1>7 DEF View

LEMMA TypesOfEdits ==
  ASSUME TypeOK, NEW v \in Views, NEW r \in Requests, NEW x \in Words \cup {r}, Edit(v, r, x)
  PROVE  TypeOK'
<1>1. <<x>> \in Seq(Entries) /\ <<x>> \in Value
  BY ValueFacts DEF Entries
<1>2. /\ stage' \in [Requests -> {"idle", "sent", "read", "set", "done"}]
      /\ write' \in [Requests -> [kind : Kinds, value : Value, view : Views \cup {None}]]
      /\ read' \in [Requests -> Value]
  BY <1>1, SendTypes DEF Edit
<1>3. shown' \in [Views -> Seq(Entries)] /\ unsaved' \in [Views -> Value]
  BY <1>1 DEF Edit, TypeOK, Entries
<1> QED BY <1>2, <1>3 DEF Edit, wire, TypeOK, Entries, Kinds

LEMMA TypesOfTheRest ==
  ASSUME TypeOK, Publish \/ PublishFails \/ Restart \/ UNCHANGED vars
  PROVE  TypeOK'
<1>1. CASE Publish
  <2>1. outbox' \in Seq(Requests) /\ Head(outbox) \in Requests
    BY <1>1, TailFacts DEF Publish, TypeOK
  <2>2. write[Head(outbox)].value \in Value
    BY <2>1 DEF TypeOK
  <2>3. /\ stage' \in [Requests -> {"idle", "sent", "read", "set", "done"}]
        /\ stream' \in [Views -> Seq(Value)]
    BY <1>1, <2>1, <2>2 DEF Publish, TypeOK
  <2>4. missed' \subseteq Views
    BY <1>1 DEF Publish, Relying, TypeOK
  <2> QED BY <1>1, <2>1, <2>3, <2>4 DEF Publish, page, TypeOK
<1>2. CASE PublishFails
  <2>1. outbox' \in Seq(Requests) /\ Head(outbox) \in Requests
    BY <1>2, TailFacts DEF PublishFails, TypeOK
  <2>2. stage' \in [Requests -> {"idle", "sent", "read", "set", "done"}]
    BY <1>2, <2>1 DEF PublishFails, TypeOK
  <2>3. missed' \subseteq Views
    BY <1>2 DEF PublishFails, Relying, TypeOK
  <2> QED BY <1>2, <2>1, <2>2, <2>3 DEF PublishFails, Fault, page, TypeOK
<1>3. CASE Restart
  <2>1. stage' \in [Requests -> {"idle", "sent", "read", "set", "done"}]
    BY <1>3 DEF Restart, TypeOK
  <2>2. missed' \subseteq Views
    <3>1. \A r \in Requests : write[r].view \in Views \cup {None}
      BY DEF TypeOK
    <3> QED BY <1>3, <3>1 DEF Restart, Relying, TypeOK
  <2>3. unsaved' \in [Views -> Value]
    BY <1>3, ValueFacts DEF Restart, TypeOK
  <2>4. outbox' \in Seq(Requests) /\ stream' \in [Views -> Seq(Value)]
    BY <1>3 DEF Restart
  <2> QED BY <1>3, <2>1, <2>2, <2>3, <2>4 DEF Restart, Fault, TypeOK
<1>4. CASE UNCHANGED vars
  BY <1>4 DEF vars, writes, page, wire, TypeOK
<1> QED BY <1>1, <1>2, <1>3, <1>4

\* Types are kept by every step of a state in which appends are sound.
LEMMA TypesStep ==
  ASSUME TypeOK, \A r \in Requests : AppendSound(r), [Next]_vars
  PROVE  TypeOK'
  BY TypesOfWrites, TypesOfViews, TypesOfEdits, TypesOfTheRest DEF Next

-----------------------------------------------------------------------------
(* Appends.                                                                *)

\* A request is sent; an append carries its own entry, and is of no view.
Sends(r) ==
  /\ \E k \in Kinds, x \in Value, u \in Views \cup {None} :
       /\ Send(r, k, x, u)
       /\ k = "append" => x = <<r>> /\ u = None
  /\ UNCHANGED <<stored, recent>>

\* Requests end.
Ends ==
  /\ \A q \in Requests : stage'[q] \in {stage[q], "done"}
  /\ UNCHANGED <<write, read, stored, recent>>

\* What a step may do to the requests.
LEMMA RequestsFootprint ==
  ASSUME TypeOK, [Next]_vars
  PROVE  \/ Ends
         \/ \E r \in Requests : Sends(r) \/ Overwrite(r) \/ AppendReads(r) \/ AppendSets(r)
<1> DEFINE Done == \/ Ends
                   \/ \E r \in Requests : \/ Sends(r) \/ Overwrite(r)
                                          \/ AppendReads(r) \/ AppendSets(r)
<1> SUFFICES Done
  OBVIOUS
<1> USE ValueFacts
<1>1. ASSUME NEW r \in Requests, WriteElsewhere(r) PROVE Done
  <2>1. \E k \in Kinds, x \in Value : Send(r, k, x, None) /\ (k = "append" => x = <<r>>)
    BY <1>1 DEF WriteElsewhere, Kinds
  <2> QED BY <1>1, <2>1 DEF WriteElsewhere, Sends
<1>2. ASSUME NEW r \in Requests, Write(r) PROVE Done
  <2>1. WriteFails(r) => Ends
    BY DEF WriteFails, Ends, TypeOK
  <2> QED BY <1>2, <2>1 DEF Write
<1>3. ASSUME NEW v \in Views, View(v) PROVE Done
  <2>1. CASE Subscribe(v) \/ Unsubscribe(v) \/ Register(v) \/ GetReads(v) \/ GetFails(v)
               \/ Disconnect(v)
    BY <2>1 DEF Subscribe, Unsubscribe, Register, GetReads, GetFails, Disconnect, writes, Ends
  <2>2. ASSUME NEW x \in Value, Apply(v, x) \/ Ignore, UNCHANGED <<stored, recent>> PROVE Done
    <3>1. CASE UNCHANGED writes
      BY <2>2, <3>1 DEF writes, Ends
    <3>2. CASE ~UNCHANGED writes
      <4>1. Apply(v, x)
        BY <2>2, <3>2 DEF Ignore
      <4>2. PICK r \in Requests : Send(r, "put", fallback[v], v) /\ fallback[v] \in Value
        BY <3>2, <4>1, ApplyFacts
      <4> QED BY <2>2, <4>2 DEF Sends, Kinds
    <3> QED BY <3>1, <3>2
  <2>3. CASE GetArrives(v)
    BY <2>2, <2>3 DEF GetArrives, TypeOK
  <2>4. CASE Deliver(v)
    <3>1. Head(stream[v]) \in Value
      BY <2>4, TailFacts DEF Deliver, TypeOK
    <3> QED BY <2>2, <2>4, <3>1 DEF Deliver
  <2> QED BY <1>3, <2>1, <2>3, <2>4 DEF View
<1>4. ASSUME NEW v \in Views, NEW r \in Requests, NEW x \in Words \cup {r}, Edit(v, r, x)
      PROVE  Done
  <2>1. <<x>> \in Value
    BY DEF Entries
  <2> QED BY <1>4, <2>1 DEF Edit, Sends, Kinds, writes, Ends
<1>5. CASE Publish \/ PublishFails \/ Restart
  BY <1>5 DEF Publish, PublishFails, Restart, Ends, TypeOK
<1>6. CASE UNCHANGED vars
  BY <1>6 DEF vars, writes, Ends
<1> HIDE DEF Done
<1> QED BY <1>1, <1>2, <1>3, <1>4, <1>5, <1>6 DEF Next

AppendsSound == (\A r \in Requests : AppendSound(r)) /\ LockSound /\ RecentSound

LEMMA AppendsStep ==
  ASSUME TypeOK, AppendsSound, [Next]_vars
  PROVE  AppendsSound'
<1> USE ValueFacts, StorageAssumption
<1>1. ASSUME Ends PROVE AppendsSound'
  <2>1. /\ \A q \in Requests : stage'[q] \in {stage[q], "done"}
        /\ UNCHANGED <<write, read, stored, recent>>
    BY <1>1 DEF Ends
  <2>2. \A r \in Requests : AppendSound(r)'
    BY <2>1 DEF AppendsSound, AppendSound
  <2>3. LockSound'
    BY <2>1 DEF AppendsSound, LockSound, InLock
  <2> QED BY <2>1, <2>2, <2>3 DEF AppendsSound, RecentSound
<1>2. ASSUME NEW r \in Requests, Sends(r) PROVE AppendsSound'
  <2>1. PICK k \in Kinds, x \in Value, u \in Views \cup {None} :
          /\ Send(r, k, x, u)
          /\ k = "append" => x = <<r>> /\ u = None
    BY <1>2 DEF Sends
  <2>2. /\ read' = read /\ UNCHANGED <<stored, recent>>
        /\ \A q \in Requests : /\ stage'[q] = IF q = r THEN "sent" ELSE stage[q]
                               /\ q # r => write'[q] = write[q]
        /\ write'[r].kind = k /\ write'[r].value = x /\ write'[r].view = u
    BY <1>2, <2>1, SendFacts DEF Sends
  <2>3. \A q \in Requests : AppendSound(q)'
    BY <2>1, <2>2 DEF AppendsSound, AppendSound
  <2>4. LockSound'
    BY <2>2 DEF AppendsSound, LockSound, InLock
  <2> QED BY <2>2, <2>3, <2>4 DEF AppendsSound, RecentSound
<1>3. ASSUME NEW r \in Requests, Overwrite(r) PROVE AppendsSound'
  <2>1. /\ stage[r] = "sent" /\ write[r].kind # "append" /\ UNCHANGED <<write, read>>
        /\ \A q \in Requests : stage'[q] = IF q = r THEN "set" ELSE stage[q]
        /\ recent' = << >>
    BY <1>3 DEF Overwrite, TypeOK
  <2>2. \A q \in Requests : AppendSound(q)'
    BY <2>1 DEF AppendsSound, AppendSound
  <2>3. LockSound'
    BY <2>1 DEF AppendsSound, LockSound, InLock
  <2> QED BY <2>1, <2>2, <2>3 DEF AppendsSound, RecentSound
<1>4. ASSUME NEW r \in Requests, AppendReads(r) PROVE AppendsSound'
  <2>1. /\ stage[r] = "sent" /\ write[r].kind = "append" /\ InLock = {}
        /\ UNCHANGED <<stored, write, recent>>
        /\ \A q \in Requests : /\ stage'[q] = IF q = r THEN "read" ELSE stage[q]
                               /\ read'[q] = IF q = r THEN stored ELSE read[q]
    BY <1>4 DEF AppendReads, TypeOK
  <2>2. \A q \in Requests : AppendSound(q)'
    BY <2>1 DEF AppendsSound, AppendSound
  <2>3. LockSound'
    BY <2>1 DEF LockSound, InLock
  <2> QED BY <2>1, <2>2, <2>3 DEF AppendsSound, RecentSound
<1>5. ASSUME NEW r \in Requests, AppendSets(r) PROVE AppendsSound'
  <2>1. /\ stage[r] = "read" /\ write[r].kind = "append" /\ read' = read
        /\ \A q \in Requests : /\ stage'[q] = IF q = r THEN "set" ELSE stage[q]
                               /\ q # r => write'[q] = write[q]
        /\ write'[r].kind = "append" /\ write'[r].view = write[r].view
        /\ recent' = Append(recent, r)
    BY <1>5 DEF AppendSets, TypeOK, AppendsSound, AppendSound
  <2>2. \A q \in Requests : q # r => q \notin InLock
    BY <2>1 DEF AppendsSound, LockSound, InLock
  <2>3. \A q \in Requests : AppendSound(q)'
    BY <2>1, <2>2 DEF AppendsSound, AppendSound, InLock
  <2>4. LockSound'
    BY <2>1, <2>2 DEF LockSound, InLock
  <2>5. RecentSound'
    <3>1. PICK base \in Seq(Entries) :
            /\ base = IF read[r] = None THEN << >> ELSE read[r]
            /\ stored' = LastOf(base \o <<r>>, Cap) /\ stored' \in Seq(Entries)
      BY <1>5, AppendedFacts DEF AppendsSound
    <3>2. recent \in Seq(Entries) /\ r \in Entries
      BY SeqMonotonic DEF TypeOK, Entries
    <3>3. EndsWith(base, LastOf(recent, Cap))
      <4>1. CASE recent = << >>
        <5>1. LastOf(recent, Cap) = << >>
          BY <4>1, EmptySeq DEF LastOf
        <5> QED BY <5>1, EmptySeq DEF EndsWith
      <4>2. CASE recent # << >>
        BY <2>1, <3>1, <4>2 DEF AppendsSound, AppendSound, RecentSound
      <4> QED BY <4>1, <4>2
    <3>4. EndsWith(stored', LastOf(recent', Cap))
      BY <2>1, <3>1, <3>2, <3>3, AppendKeepsEnd
    <3> QED BY <3>1, <3>4 DEF RecentSound
  <2> QED BY <2>3, <2>4, <2>5 DEF AppendsSound
<1> QED BY <1>1, <1>2, <1>3, <1>4, <1>5, RequestsFootprint

-----------------------------------------------------------------------------
(* The outbox.                                                             *)

\* r is set, and stands last in the outbox.
Stores(r) ==
  /\ stage[r] # "set"
  /\ \A q \in Requests : /\ stage'[q] = IF q = r THEN "set" ELSE stage[q]
                         /\ q # r => write'[q] = write[q]
  /\ outbox' = Append(outbox, r)
  /\ write'[r].value = stored'

\* The first in the outbox is done with.
Takes ==
  /\ outbox # << >> /\ outbox' = Tail(outbox)
  /\ stage' = [stage EXCEPT ![Head(outbox)] = "done"]
  /\ UNCHANGED <<stored, write>>

\* Nothing happens to the outbox, or to what is in it.
Rests ==
  /\ UNCHANGED <<stored, outbox>>
  /\ \A r \in Requests : /\ stage'[r] = "set" <=> stage[r] = "set"
                         /\ stage[r] = "set" => write'[r] = write[r]

Clears == outbox' = << >> /\ \A r \in Requests : stage'[r] # "set"

LEMMA OutboxFootprint ==
  ASSUME TypeOK, AppendsSound, [Next]_vars
  PROVE  Rests \/ Takes \/ Clears \/ \E r \in Requests : Stores(r)
<1> DEFINE Done == Rests \/ Takes \/ Clears \/ \E r \in Requests : Stores(r)
<1> SUFFICES Done
  OBVIOUS
<1> USE ValueFacts
<1>1. ASSUME UNCHANGED <<stored, outbox, writes>> PROVE Done
  BY <1>1 DEF writes, Rests
<1>2. ASSUME NEW r \in Requests, NEW k \in Kinds, NEW x \in Value, NEW u \in Views \cup {None},
             Send(r, k, x, u), UNCHANGED <<stored, outbox>>
      PROVE  Done
  BY <1>2, SendFacts DEF Rests
<1>3. ASSUME NEW r \in Requests, WriteElsewhere(r) PROVE Done
  <2>1. \E k \in Kinds, x \in Value : Send(r, k, x, None)
    BY <1>3 DEF WriteElsewhere, Kinds
  <2> QED BY <1>2, <1>3, <2>1 DEF WriteElsewhere, wire
<1>4. ASSUME NEW r \in Requests, Overwrite(r) PROVE Stores(r)
  BY <1>4 DEF Overwrite, Stores, TypeOK
<1>5. ASSUME NEW r \in Requests, AppendSets(r) PROVE Stores(r)
  BY <1>5 DEF AppendSets, Stores, TypeOK
<1>6. ASSUME NEW r \in Requests, AppendReads(r) PROVE Done
  BY <1>6 DEF AppendReads, Rests, TypeOK, wire
<1>7. ASSUME NEW r \in Requests, WriteFails(r) PROVE Done
  BY <1>7 DEF WriteFails, Rests, TypeOK, wire
<1>8. ASSUME NEW v \in Views, View(v) PROVE Done
  <2>1. CASE Subscribe(v) \/ Unsubscribe(v) \/ Register(v) \/ GetReads(v) \/ GetFails(v)
               \/ Disconnect(v)
    BY <1>1, <2>1 DEF Subscribe, Unsubscribe, Register, GetReads, GetFails, Disconnect, wire
  <2>2. ASSUME NEW x \in Value, Apply(v, x) \/ Ignore, UNCHANGED <<stored, outbox>> PROVE Done
    <3>1. CASE UNCHANGED writes
      BY <1>1, <2>2, <3>1
    <3>2. CASE ~UNCHANGED writes
      <4>1. Apply(v, x)
        BY <2>2, <3>2 DEF Ignore
      <4>2. PICK r \in Requests : Send(r, "put", fallback[v], v) /\ fallback[v] \in Value
        BY <3>2, <4>1, ApplyFacts
      <4> QED BY <1>2, <2>2, <4>2 DEF Kinds
    <3> QED BY <3>1, <3>2
  <2>3. CASE GetArrives(v)
    BY <2>2, <2>3 DEF GetArrives, wire, TypeOK
  <2>4. CASE Deliver(v)
    <3>1. Head(stream[v]) \in Value
      BY <2>4, TailFacts DEF Deliver, TypeOK
    <3> QED BY <2>2, <2>4, <3>1 DEF Deliver
  <2> QED BY <1>8, <2>1, <2>3, <2>4 DEF View
<1>9. ASSUME NEW v \in Views, NEW r \in Requests, NEW x \in Words \cup {r}, Edit(v, r, x)
      PROVE  Done
  <2>1. <<x>> \in Value
    BY DEF Entries
  <2> QED BY <1>1, <1>2, <1>9, <2>1 DEF Edit, Kinds, wire
<1>10. CASE Publish \/ PublishFails
  BY <1>10 DEF Publish, PublishFails, Takes
<1>11. CASE Restart
  BY <1>11 DEF Restart, Clears
<1>12. CASE UNCHANGED vars
  BY <1>1, <1>12 DEF vars, wire
<1> HIDE DEF Done
<1>13. \A r \in Requests : Stores(r) => Done
  BY DEF Done
<1> QED BY <1>3, <1>4, <1>5, <1>6, <1>7, <1>8, <1>9, <1>10, <1>11, <1>12, <1>13
        DEF Next, Write, Done

LEMMA OutboxStep ==
  ASSUME TypeOK, AppendsSound, OutboxSound, [Next]_vars
  PROVE  OutboxSound'
<1>0. outbox \in Seq(Requests) /\ stage \in [Requests -> {"idle", "sent", "read", "set", "done"}]
  BY DEF TypeOK
<1> USE <1>0
<1>1. ASSUME Rests PROVE OutboxSound'
  <2>1. outbox # << >> => outbox[Len(outbox)] \in Requests /\ stage[outbox[Len(outbox)]] = "set"
    <3>1. outbox # << >> => Len(outbox) \in 1..Len(outbox)
      OBVIOUS
    <3> QED BY <3>1 DEF OutboxSound
  <2> QED BY <1>1, <2>1 DEF Rests, OutboxSound
<1>2. ASSUME NEW r \in Requests, Stores(r) PROVE OutboxSound'
  <2>1. /\ Len(outbox') = Len(outbox) + 1 /\ Len(outbox) \in Nat
        /\ \A i \in 1..Len(outbox) : outbox'[i] = outbox[i]
        /\ outbox'[Len(outbox) + 1] = r /\ outbox' # << >>
    <3>1. outbox' = Append(outbox, r)
      BY <1>2 DEF Stores
    <3> QED BY <3>1, AppendFacts
  <2>2. /\ \A q \in Requests : stage'[q] = IF q = r THEN "set" ELSE stage[q]
        /\ stage[r] # "set" /\ write'[r].value = stored'
    BY <1>2 DEF Stores
  <2>3. \A i \in 1..Len(outbox) : outbox[i] # r
    BY <2>2 DEF OutboxSound
  <2>4. \A i \in 1..Len(outbox') : i \in 1..Len(outbox) \/ i = Len(outbox) + 1
    BY <2>1
  <2>5. ASSUME NEW q \in Requests
        PROVE  stage'[q] = "set" <=> \E i \in 1..Len(outbox') : outbox'[i] = q
    <3>1. CASE q = r
      BY <2>1, <2>2, <3>1
    <3>2. CASE q # r
      <4>1. (\E i \in 1..Len(outbox') : outbox'[i] = q) <=> \E i \in 1..Len(outbox) : outbox[i] = q
        BY <2>1, <2>4, <3>2
      <4> QED BY <2>2, <3>2, <4>1 DEF OutboxSound
    <3> QED BY <3>1, <3>2
  <2>6. \A i, j \in 1..Len(outbox') : outbox'[i] = outbox'[j] => i = j
    BY <2>1, <2>3, <2>4 DEF OutboxSound
  <2>7. write'[outbox'[Len(outbox')]].value = stored'
    BY <2>1, <2>2
  <2> QED BY <2>5, <2>6, <2>7 DEF OutboxSound
<1>3. ASSUME Takes PROVE OutboxSound'
  <2>1. /\ Len(outbox') = Len(outbox) - 1 /\ Len(outbox) \in Nat \ {0}
        /\ \A i \in 1..Len(outbox') : outbox'[i] = outbox[i + 1]
        /\ Head(outbox) = outbox[1] /\ Head(outbox) \in Requests
        /\ outbox' # << >> => outbox'[Len(outbox')] = outbox[Len(outbox)]
    BY <1>3, TailFacts DEF Takes
  <2>2. /\ \A q \in Requests : stage'[q] = IF q = Head(outbox) THEN "done" ELSE stage[q]
        /\ UNCHANGED <<stored, write>>
    BY <1>3 DEF Takes
  <2>3. \A i \in 1..Len(outbox') : i + 1 \in 1..Len(outbox)
    BY <2>1
  <2>4. \A i \in 1..Len(outbox') : outbox'[i] # outbox[1]
    BY <2>1, <2>3 DEF OutboxSound
  <2>5. ASSUME NEW q \in Requests
        PROVE  stage'[q] = "set" <=> \E i \in 1..Len(outbox') : outbox'[i] = q
    <3>1. CASE q = Head(outbox)
      BY <2>1, <2>2, <2>4, <3>1
    <3>2. CASE q # Head(outbox)
      <4>1. \A i \in 1..Len(outbox) : outbox[i] = q => i - 1 \in 1..Len(outbox')
        BY <2>1, <3>2
      <4>2. \A i \in 1..Len(outbox) : outbox[i] = q => outbox'[i - 1] = q
        BY <2>1, <4>1
      <4>3. (\E i \in 1..Len(outbox') : outbox'[i] = q) <=> \E i \in 1..Len(outbox) : outbox[i] = q
        BY <2>1, <2>3, <4>1, <4>2
      <4> QED BY <2>2, <3>2, <4>3 DEF OutboxSound
    <3> QED BY <3>1, <3>2
  <2>6. \A i, j \in 1..Len(outbox') : outbox'[i] = outbox'[j] => i = j
    BY <2>1, <2>3 DEF OutboxSound
  <2>7. outbox' # << >> => write'[outbox'[Len(outbox')]].value = stored'
    BY <1>3, <2>1, <2>2 DEF OutboxSound, Takes
  <2> QED BY <2>5, <2>6, <2>7 DEF OutboxSound
<1>4. ASSUME Clears PROVE OutboxSound'
  <2>1. Len(outbox') = 0 /\ outbox' = << >>
    BY <1>4, EmptySeq DEF Clears
  <2> QED BY <1>4, <2>1 DEF Clears, OutboxSound
<1> QED BY <1>1, <1>2, <1>3, <1>4, OutboxFootprint

-----------------------------------------------------------------------------
(* Views.                                                                  *)

\* What a view knows stays as it is.
Untouched(w) ==
  /\ phase'[w] = phase[w] /\ initial'[w] = initial[w] /\ live'[w] = live[w]
  /\ async'[w] = async[w] /\ shown'[w] = shown[w] /\ fallback'[w] = fallback[w]
  /\ stream'[w] = stream[w]

LEMMA UntouchedStaysSound ==
  ASSUME NEW w \in Views, ViewSound(w), Untouched(w), stored' = stored,
         outbox' = << >> => outbox = << >>, w \in missed => w \in missed',
         Unsent(w) => Unsent(w)'
  PROVE  ViewSound(w)'
  BY DEF ViewSound, Untouched, Told, Shows

LEMMA SentIsUnsent ==
  ASSUME TypeOK, NEW r \in Requests, NEW k \in Kinds, NEW x \in Value,
         NEW u \in Views \cup {None}, Send(r, k, x, u)
  PROVE  \A w \in Views : (Unsent(w) \/ u = w) => Unsent(w)'
<1>1. /\ stage[r] = "idle" /\ write'[r].view = u
      /\ \A q \in Requests : /\ stage'[q] = IF q = r THEN "sent" ELSE stage[q]
                             /\ q # r => write'[q] = write[q]
  BY SendFacts
<1> QED BY <1>1 DEF Unsent

\* Applying a value changes one view only, and sends no less.
LEMMA AppliedFacts ==
  ASSUME TypeOK, NEW v \in Views, NEW x \in Value, Apply(v, x)
  PROVE  \A w \in Views : Unsent(w) => Unsent(w)'
<1>1. CASE UNCHANGED writes
  BY <1>1 DEF writes, Unsent
<1>2. ASSUME NEW r \in Requests, Send(r, "put", fallback[v], v), fallback[v] \in Value
      PROVE  \A w \in Views : Unsent(w) => Unsent(w)'
  BY <1>2, SentIsUnsent DEF Kinds
<1> QED BY <1>1, <1>2, ApplyFacts

ViewsSound == \A v \in Views : ViewSound(v)

LEMMA ViewsKeptByRequests ==
  ASSUME TypeOK, AppendsSound, ViewsSound, NEW r \in Requests, WriteElsewhere(r) \/ Write(r)
  PROVE  ViewsSound'
<1> USE ValueFacts, StorageAssumption
<1>1. CASE WriteElsewhere(r)
  <2>1. \E k \in Kinds, x \in Value : Send(r, k, x, None)
    BY <1>1 DEF WriteElsewhere, Kinds
  <2>2. \A w \in Views : Unsent(w) => Unsent(w)'
    BY <2>1, SentIsUnsent
  <2>3. \A w \in Views : Untouched(w)
    BY <1>1 DEF WriteElsewhere, Untouched, page, wire
  <2> QED BY <1>1, <2>2, <2>3, UntouchedStaysSound DEF WriteElsewhere, wire, ViewsSound
<1>2. CASE Overwrite(r) \/ AppendSets(r)
  <2>1. outbox' = Append(outbox, r)
    BY <1>2 DEF Overwrite, AppendSets
  <2>2. outbox \in Seq(Requests)
    BY DEF TypeOK
  <2>3. outbox' # << >>
    BY <2>1, <2>2, AppendFacts
  <2> QED BY <2>3 DEF ViewsSound, ViewSound
<1>3. CASE AppendReads(r)
  <2>1. \A w \in Views : Unsent(w) => Unsent(w)'
    BY <1>3 DEF AppendReads, Unsent, AppendsSound, AppendSound, TypeOK
  <2>2. \A w \in Views : Untouched(w)
    BY <1>3 DEF AppendReads, Untouched, page, wire
  <2> QED BY <1>3, <2>1, <2>2, UntouchedStaysSound DEF AppendReads, wire, ViewsSound
<1>4. CASE WriteFails(r)
  <2>1. \A w \in Views : w \notin missed' => (Unsent(w) => Unsent(w)')
    BY <1>4 DEF WriteFails, Unsent, TypeOK
  <2>2. \A w \in Views : Untouched(w)
    BY <1>4 DEF WriteFails, Untouched, wire
  <2>3. /\ stored' = stored /\ outbox' = outbox
        /\ \A w \in Views : w \in missed => w \in missed'
    BY <1>4 DEF WriteFails, wire
  <2>4. ASSUME NEW w \in Views PROVE ViewSound(w)'
    <3>1. CASE w \in missed'
      BY <3>1 DEF ViewSound
    <3>2. CASE w \notin missed'
      BY <2>1, <2>2, <2>3, <3>2, UntouchedStaysSound DEF ViewsSound
    <3> QED BY <3>1, <3>2
  <2> QED BY <2>4 DEF ViewsSound
<1> QED BY <1>1, <1>2, <1>3, <1>4 DEF Write

\* A view that goes by nothing yet has nothing to be told.
LEMMA NotRelying ==
  ASSUME TypeOK, NEW v \in Views, v \notin Relying
  PROVE  /\ phase[v] = "off" \/ (phase[v] = "asked" /\ ~live[v])
         /\ stream[v] = << >>
  BY DEF Relying, TypeOK

LEMMA ViewsKeptByPublishing ==
  ASSUME TypeOK, OutboxSound, ViewsSound, Publish \/ PublishFails
  PROVE  ViewsSound'
<1> SUFFICES ASSUME NEW v \in Views, v \notin missed', outbox' = << >>
             PROVE  ViewSound(v)'
  BY DEF ViewsSound, ViewSound
<1>1. UNCHANGED <<stored, phase, live, initial, async, shown, fallback>>
  BY DEF Publish, PublishFails, page
<1>2. CASE Publish
  <2> DEFINE r == Head(outbox)
  <2>1. /\ outbox # << >> /\ outbox' = Tail(outbox) /\ UNCHANGED write
        /\ stream'[v] = IF registered[v] THEN Append(stream[v], write[r].value) ELSE stream[v]
        /\ ~registered[v] => v \notin Relying
    BY <1>2 DEF Publish
  <2>2. r = outbox[Len(outbox)] /\ r \in Requests
    BY <2>1, TailFacts DEF TypeOK
  <2> HIDE DEF r
  <2>3. write[r].value = stored /\ stored \in Value /\ stream[v] \in Seq(Value)
    BY <2>1, <2>2 DEF OutboxSound, TypeOK
  <2>4. CASE registered[v]
    <3>1. stream'[v] # << >> /\ stream'[v][Len(stream'[v])] = stored
      BY <2>1, <2>3, <2>4, AppendFacts
    <3> QED BY <1>1, <3>1 DEF ViewSound
  <2>5. CASE ~registered[v]
    BY <1>1, <2>1, <2>5, NotRelying DEF ViewSound
  <2> QED BY <2>4, <2>5
<1>3. CASE PublishFails
  <2>1. v \notin Relying /\ stream' = stream
    BY <1>3 DEF PublishFails
  <2> QED BY <1>1, <2>1, NotRelying DEF ViewSound
<1> QED BY <1>2, <1>3

LEMMA ViewsKeptByRestart ==
  ASSUME TypeOK, ViewsSound, Restart
  PROVE  ViewsSound'
<1> SUFFICES ASSUME NEW v \in Views, v \notin missed'
             PROVE  ViewSound(v)'
  BY DEF ViewsSound, ViewSound
<1>1. /\ UNCHANGED <<stored, phase, live, initial, async, shown, fallback, write>>
      /\ stream'[v] = << >> /\ outbox' = << >> /\ v \notin missed
  BY DEF Restart
<1>2. CASE v \in Relying
  <2>1. outbox \o stream[v] = << >>
    BY <1>2 DEF Restart
  <2>2. outbox = << >> /\ stream[v] = << >>
    <3>1. Len(outbox \o stream[v]) = Len(outbox) + Len(stream[v])
      BY DEF TypeOK
    <3>2. Len(outbox) = 0 /\ Len(stream[v]) = 0
      BY <2>1, <3>1, EmptySeq DEF TypeOK
    <3> QED BY <3>2, EmptySeq DEF TypeOK
  <2>3. ~Unsent(v)
    BY StorageAssumption DEF Restart, Unsent
  <2> QED BY <1>1, <2>2, <2>3 DEF ViewsSound, ViewSound, Told, Shows
<1>3. CASE v \notin Relying
  BY <1>1, <1>3, NotRelying DEF ViewSound
<1> QED BY <1>2, <1>3

LEMMA ViewsKeptByEdits ==
  ASSUME TypeOK, ViewsSound, NEW v \in Views, NEW r \in Requests, NEW x \in Words \cup {r},
         Edit(v, r, x)
  PROVE  ViewsSound'
<1>1. <<x>> \in Value /\ <<x>> # None
  BY ValueFacts DEF Entries
<1>2. \A w \in Views : Unsent(w) => Unsent(w)'
  BY <1>1, SentIsUnsent DEF Edit, writes, Unsent, Kinds
<1>3. <<x>> # async[v] => Unsent(v)'
  BY <1>1, SentIsUnsent DEF Edit, Kinds
<1>4. /\ UNCHANGED <<stored, phase, initial, live, async, fallback, stream, outbox, missed>>
      /\ shown'[v] = <<x>> /\ \A w \in Views : w # v => shown'[w] = shown[w]
  BY DEF Edit, wire, TypeOK
<1>5. \A w \in Views : w # v => ViewSound(w)'
  BY <1>2, <1>4, UntouchedStaysSound DEF Untouched, ViewsSound
<1>6. ViewSound(v)'
  BY <1>1, <1>3, <1>4 DEF ViewsSound, ViewSound, Told, Shows
<1> QED BY <1>5, <1>6 DEF ViewsSound

LEMMA ViewsKeptByViews ==
  ASSUME TypeOK, ViewsSound, NEW v \in Views, View(v)
  PROVE  ViewsSound'
<1>1. CASE Subscribe(v)
  <2>1. /\ UNCHANGED <<stored, initial, shown, async, stream, outbox, writes>>
        /\ phase'[v] = "asked" /\ live'[v] = FALSE
        /\ stream[v] # << >> => missed' = missed
        /\ \A w \in Views : w # v => /\ phase'[w] = phase[w] /\ live'[w] = live[w]
                                     /\ fallback'[w] = fallback[w]
                                     /\ w \in missed => w \in missed'
    BY <1>1 DEF Subscribe, wire, TypeOK
  <2>2. \A w \in Views : Unsent(w) => Unsent(w)'
    BY <2>1 DEF writes, Unsent
  <2>3. \A w \in Views : w # v => ViewSound(w)'
    BY <2>1, <2>2, UntouchedStaysSound DEF Untouched, ViewsSound
  <2>4. ViewSound(v)'
    BY <2>1 DEF ViewsSound, ViewSound
  <2> QED BY <2>3, <2>4 DEF ViewsSound
<1>2. CASE Unsubscribe(v)
  <2>1. /\ UNCHANGED <<stored, live, shown, async, fallback, stream, outbox, writes, missed>>
        /\ phase'[v] = "off"
        /\ \A w \in Views : w # v => phase'[w] = phase[w] /\ initial'[w] = initial[w]
    BY <1>2 DEF Unsubscribe, wire, TypeOK
  <2>2. \A w \in Views : Unsent(w) => Unsent(w)'
    BY <2>1 DEF writes, Unsent
  <2>3. \A w \in Views : w # v => ViewSound(w)'
    BY <2>1, <2>2, UntouchedStaysSound DEF Untouched, ViewsSound
  <2>4. ViewSound(v)'
    BY <2>1 DEF ViewsSound, ViewSound
  <2> QED BY <2>3, <2>4 DEF ViewsSound
<1>3. CASE Register(v)
  <2>1. \A w \in Views : (Unsent(w) => Unsent(w)') /\ Untouched(w)
    BY <1>3 DEF Register, writes, page, Unsent, Untouched
  <2> QED BY <1>3, <2>1, UntouchedStaysSound DEF Register, ViewsSound
<1>4. CASE GetReads(v)
  <2>1. /\ UNCHANGED <<stored, live, shown, async, fallback, stream, outbox, writes, missed>>
        /\ phase[v] = "asked" /\ phase'[v] = "answered" /\ initial'[v] = stored
        /\ \A w \in Views : w # v => phase'[w] = phase[w] /\ initial'[w] = initial[w]
    BY <1>4 DEF GetReads, wire, TypeOK
  <2>2. \A w \in Views : Unsent(w) => Unsent(w)'
    BY <2>1 DEF writes, Unsent
  <2>3. \A w \in Views : w # v => ViewSound(w)'
    BY <2>1, <2>2, UntouchedStaysSound DEF Untouched, ViewsSound
  <2>4. ViewSound(v)'
    BY <2>1, <2>2 DEF ViewsSound, ViewSound, Told, Shows
  <2> QED BY <2>3, <2>4 DEF ViewsSound
<1>5. CASE GetFails(v)
  <2>1. /\ UNCHANGED <<stored, live, shown, async, fallback, stream, outbox, writes>>
        /\ missed' = missed \cup {v}
        /\ \A w \in Views : w # v => phase'[w] = phase[w] /\ initial'[w] = initial[w]
    BY <1>5 DEF GetFails, wire, TypeOK
  <2>2. \A w \in Views : Unsent(w) => Unsent(w)'
    BY <2>1 DEF writes, Unsent
  <2>3. \A w \in Views : w # v => ViewSound(w)'
    BY <2>1, <2>2, UntouchedStaysSound DEF Untouched, ViewsSound
  <2> QED BY <2>1, <2>3 DEF ViewsSound, ViewSound
<1>6. CASE GetArrives(v)
  <2>1. /\ UNCHANGED <<stored, live, fallback, stream, outbox, missed>>
        /\ phase[v] = "answered" /\ phase'[v] = "on"
        /\ \A w \in Views : w # v => phase'[w] = phase[w] /\ initial'[w] = initial[w]
    BY <1>6 DEF GetArrives, wire, TypeOK
  <2>2. initial[v] \in Value
    BY DEF TypeOK
  <2>3. CASE live[v]
    <3>1. UNCHANGED <<shown, async, writes>>
      BY <1>6, <2>3 DEF GetArrives, Ignore
    <3>2. \A w \in Views : Unsent(w) => Unsent(w)'
      BY <3>1 DEF writes, Unsent
    <3>3. \A w \in Views : w # v => ViewSound(w)'
      BY <2>1, <3>1, <3>2, UntouchedStaysSound DEF Untouched, ViewsSound
    <3>4. ViewSound(v)'
      BY <2>1, <2>3, <3>1, <3>2 DEF ViewsSound, ViewSound, Told, Shows
    <3> QED BY <3>3, <3>4 DEF ViewsSound
  <2>4. CASE ~live[v]
    <3>1. Apply(v, initial[v])
      BY <1>6, <2>4 DEF GetArrives
    <3>2. /\ \A w \in Views : w # v => shown'[w] = shown[w] /\ async'[w] = async[w]
          /\ shown'[v] = Shows(v, initial[v]) /\ async'[v] = initial[v]
      BY <2>2, <3>1, ApplyFacts
    <3>3. \A w \in Views : Unsent(w) => Unsent(w)'
      BY <2>2, <3>1, AppliedFacts
    <3>4. \A w \in Views : w # v => ViewSound(w)'
      BY <2>1, <3>2, <3>3, UntouchedStaysSound DEF Untouched, ViewsSound
    <3>5. ViewSound(v)'
      BY <2>1, <2>4, <3>2 DEF ViewsSound, ViewSound, Told, Shows
    <3> QED BY <3>4, <3>5 DEF ViewsSound
  <2> QED BY <2>3, <2>4
<1>7. CASE Deliver(v)
  <2>1. /\ UNCHANGED <<stored, phase, initial, fallback, outbox, missed>>
        /\ stream[v] # << >> /\ stream[v] \in Seq(Value) /\ stream'[v] = Tail(stream[v])
        /\ \A w \in Views : w # v => stream'[w] = stream[w]
    BY <1>7 DEF Deliver, TypeOK
  <2>2. /\ Head(stream[v]) \in Value
        /\ stream'[v] # << >> => stream'[v][Len(stream'[v])] = stream[v][Len(stream[v])]
        /\ stream'[v] = << >> => Head(stream[v]) = stream[v][Len(stream[v])]
    BY <2>1, TailFacts
  <2>3. CASE phase[v] = "off"
    <3>1. UNCHANGED <<shown, async, writes, live>>
      BY <1>7, <2>3 DEF Deliver, Ignore
    <3>2. \A w \in Views : Unsent(w) => Unsent(w)'
      BY <3>1 DEF writes, Unsent
    <3>3. \A w \in Views : w # v => ViewSound(w)'
      BY <2>1, <3>1, <3>2, UntouchedStaysSound DEF Untouched, ViewsSound
    <3>4. ViewSound(v)'
      BY <2>1, <2>2, <2>3 DEF ViewsSound, ViewSound
    <3> QED BY <3>3, <3>4 DEF ViewsSound
  <2>4. CASE phase[v] # "off"
    <3>1. /\ Apply(v, Head(stream[v]))
          /\ live'[v] = TRUE /\ \A w \in Views : w # v => live'[w] = live[w]
      BY <1>7, <2>4 DEF Deliver, TypeOK
    <3>2. /\ \A w \in Views : w # v => shown'[w] = shown[w] /\ async'[w] = async[w]
          /\ shown'[v] = Shows(v, Head(stream[v])) /\ async'[v] = Head(stream[v])
      BY <2>2, <3>1, ApplyFacts
    <3>3. \A w \in Views : Unsent(w) => Unsent(w)'
      BY <2>2, <3>1, AppliedFacts
    <3>4. \A w \in Views : w # v => ViewSound(w)'
      BY <2>1, <3>1, <3>2, <3>3, UntouchedStaysSound DEF Untouched, ViewsSound
    <3>5. ViewSound(v)'
      BY <2>1, <2>2, <3>1, <3>2 DEF ViewsSound, ViewSound, Told, Shows
    <3> QED BY <3>4, <3>5 DEF ViewsSound
  <2> QED BY <2>3, <2>4
<1>8. CASE Disconnect(v)
  <2>1. /\ UNCHANGED <<stored, phase, initial, live, shown, async, fallback, outbox, writes>>
        /\ stream'[v] = << >> /\ \A w \in Views : w # v => stream'[w] = stream[w]
        /\ missed' = IF stream[v] # << >> THEN missed \cup {v} ELSE missed
    BY <1>8 DEF Disconnect, page, TypeOK
  <2>2. \A w \in Views : Unsent(w) => Unsent(w)'
    BY <2>1 DEF writes, Unsent
  <2>3. \A w \in Views : w # v => ViewSound(w)'
    BY <2>1, <2>2, UntouchedStaysSound DEF Untouched, ViewsSound
  <2>4. ViewSound(v)'
    BY <2>1, <2>2 DEF ViewsSound, ViewSound, Told, Shows
  <2> QED BY <2>3, <2>4 DEF ViewsSound
<1> QED BY <1>1, <1>2, <1>3, <1>4, <1>5, <1>6, <1>7, <1>8 DEF View

LEMMA SyncInitial == Init => SyncInv
<1> SUFFICES ASSUME Init PROVE SyncInv
  OBVIOUS
<1>1. \A r \in Requests : stage[r] = "idle" /\ write[r] = NoWrite
  BY DEF Init
<1>2. AppendsSound
  BY <1>1 DEF Init, NoWrite, AppendsSound, AppendSound, LockSound, InLock, RecentSound
<1>3. OutboxSound
  BY <1>1, EmptySeq DEF Init, OutboxSound
<1>4. \A v \in Views : ViewSound(v)
  BY DEF Init, ViewSound
<1> QED BY <1>2, <1>3, <1>4, InitialTypes DEF SyncInv, AppendsSound

LEMMA SyncStep == SyncInv /\ [Next]_vars => SyncInv'
<1> SUFFICES ASSUME SyncInv, [Next]_vars PROVE SyncInv'
  OBVIOUS
<1>1. TypeOK /\ AppendsSound /\ OutboxSound /\ ViewsSound
  BY DEF SyncInv, AppendsSound, ViewsSound
<1>2. TypeOK' /\ AppendsSound' /\ OutboxSound'
  BY <1>1, TypesStep, AppendsStep, OutboxStep DEF AppendsSound
<1>3. UNCHANGED vars => ViewsSound'
  <2>1. UNCHANGED vars => \A w \in Views : (Unsent(w) => Unsent(w)') /\ Untouched(w)
    BY DEF vars, writes, page, wire, Unsent, Untouched
  <2> QED BY <1>1, <2>1, UntouchedStaysSound DEF vars, wire, ViewsSound
<1>4. ViewsSound'
  BY <1>1, <1>3, ViewsKeptByRequests, ViewsKeptByViews, ViewsKeptByEdits, ViewsKeptByPublishing,
     ViewsKeptByRestart DEF Next
<1> QED BY <1>2, <1>4 DEF SyncInv, AppendsSound, ViewsSound

-----------------------------------------------------------------------------

\* What is on its way to a view ends with what is stored, and appends hold the
\* lock from their read to their publication.
THEOREM SyncInvariant == Spec => []SyncInv
  BY SyncInitial, SyncStep, PTL DEF Spec

\* Appends are not lost to one another (app.ts:338-342, widgets/storage.ts:117-152):
\* what was appended since the last other write is the end of the list.
THEOREM AppendsAreKept == Spec => []AppendsKept
<1>1. ASSUME SyncInv PROVE AppendsKept
  <2>1. TypeOK /\ RecentSound
    BY <1>1 DEF SyncInv
  <2>2. ASSUME recent # << >> PROVE stored # None /\ IsSuffix(LastOf(recent, Cap), stored)
    <3>1. recent \in Seq(Entries)
      BY <2>1, SeqMonotonic DEF TypeOK, Entries
    <3>2. LastOf(recent, Cap) \in Seq(Entries)
      BY <3>1, LastOfFacts, StorageAssumption
    <3>3. stored # None /\ stored \in Seq(Entries) /\ EndsWith(stored, LastOf(recent, Cap))
      BY <2>1, <2>2 DEF TypeOK, RecentSound, Value, Entries
    <3> QED BY <3>2, <3>3, EndIsSuffix
  <2> QED BY <2>1, <2>2 DEF AppendsKept
<1> QED BY <1>1, SyncInvariant, PTL

\* Views converge (subscribe-key.ts, reatom-storage.ts): when everything has
\* arrived, a view that no event missed shows what is stored.
THEOREM ViewsConverge == Spec => []CurrentUnlessMissed
<1>1. ASSUME SyncInv PROVE CurrentUnlessMissed
  <2> SUFFICES ASSUME Quiet, NEW v \in Views \ missed, phase[v] = "on"
               PROVE  shown[v] = Shows(v, stored)
    BY DEF CurrentUnlessMissed, Current
  <2>1. outbox = << >>
    <3>1. outbox # << >> => 1 \in 1..Len(outbox) /\ outbox[1] \in Requests
      BY <1>1 DEF SyncInv, TypeOK
    <3> QED BY <1>1, <3>1 DEF SyncInv, OutboxSound, Quiet
  <2>2. stream[v] = << >> /\ ~Unsent(v)
    BY DEF Quiet, Unsent
  <2> QED BY <1>1, <2>1, <2>2 DEF SyncInv, ViewSound, Told
<1> QED BY <1>1, SyncInvariant, PTL

-----------------------------------------------------------------------------
(* Edits.  Values are objects here, each different from every other: Words is *)
(* empty, and an entry is what its request wrote.                             *)

Begun == {r \in Requests : stage[r] # "idle"}

EndsIn(value, B) == value # None /\ value # << >> => value[Len(value)] \in B

\* No value anywhere ends with an entry that nobody has written yet.
AllWritten ==
  /\ EndsIn(stored, Begun)
  /\ \A r \in Requests : EndsIn(write[r].value, Begun)
  /\ \A v \in Views : /\ EndsIn(initial[v], Begun) /\ EndsIn(async[v], Begun)
                      /\ EndsIn(shown[v], Begun) /\ EndsIn(fallback[v], Begun)
                      /\ \A i \in 1..Len(stream[v]) : EndsIn(stream[v][i], Begun)

\* The request that an edit, not stored yet, is on its way in.
Carries(r, v) ==
  /\ stage[r] = "sent" /\ write[r].kind # "append"
  /\ write[r].view = v /\ write[r].value = unsaved[v]

EditsCarried == \A v \in Views : unsaved[v] # None => \E r \in Requests : Carries(r, v)

EditsInv == AllWritten /\ EditsCarried

LEMMA MoreBegun ==
  ASSUME NEW x, NEW B, NEW C, B \subseteq C, EndsIn(x, B)
  PROVE  EndsIn(x, C)
  BY DEF EndsIn

LEMMA OneEntryEnds ==
  ASSUME NEW B, NEW e \in B
  PROVE  EndsIn(<<e>>, B)
<1>1. Len(<<e>>) = 1 /\ <<e>>[1] = e
  OBVIOUS
<1> QED BY <1>1 DEF EndsIn

LEMMA SendBegins ==
  ASSUME TypeOK, AllWritten, NEW r \in Requests, NEW k \in Kinds, NEW x \in Value,
         NEW u \in Views \cup {None}, Send(r, k, x, u), EndsIn(x, Begun \cup {r})
  PROVE  /\ Begun' = Begun \cup {r}
         /\ \A q \in Requests : EndsIn(write'[q].value, Begun')
<1>1. /\ \A q \in Requests : /\ stage'[q] = IF q = r THEN "sent" ELSE stage[q]
                             /\ q # r => write'[q] = write[q]
      /\ write'[r].value = x
  BY SendFacts
<1>2. Begun' = Begun \cup {r}
  BY <1>1 DEF Begun
<1>3. \A q \in Requests : EndsIn(write'[q].value, Begun')
  BY <1>1, <1>2 DEF AllWritten, EndsIn
<1> QED BY <1>2, <1>3

\* What a listener shows and sends ends with an entry that was written.
LEMMA AppliedIsWritten ==
  ASSUME TypeOK, AllWritten, NEW v \in Views, NEW x \in Value, EndsIn(x, Begun), Apply(v, x)
  PROVE  /\ Begun \subseteq Begun'
         /\ \A q \in Requests : EndsIn(write'[q].value, Begun')
         /\ \A w \in Views : EndsIn(shown'[w], Begun') /\ EndsIn(async'[w], Begun')
<1>1. Begun \subseteq Begun' /\ \A q \in Requests : EndsIn(write'[q].value, Begun')
  <2>1. CASE UNCHANGED writes
    BY <2>1 DEF writes, Begun, AllWritten
  <2>2. ASSUME NEW r \in Requests, Send(r, "put", fallback[v], v), fallback[v] \in Value
        PROVE  Begun \subseteq Begun' /\ \A q \in Requests : EndsIn(write'[q].value, Begun')
    <3>1. EndsIn(fallback[v], Begun \cup {r})
      BY MoreBegun DEF AllWritten
    <3> QED BY <2>2, <3>1, SendBegins DEF Kinds
  <2> QED BY <2>1, <2>2, ApplyFacts
<1>2. /\ \A w \in Views : w # v => shown'[w] = shown[w] /\ async'[w] = async[w]
      /\ shown'[v] = Shows(v, x) /\ async'[v] = x
  BY ApplyFacts
<1>3. EndsIn(Shows(v, x), Begun)
  BY DEF Shows, AllWritten
<1>4. \A w \in Views : EndsIn(shown'[w], Begun) /\ EndsIn(async'[w], Begun)
  BY <1>2, <1>3 DEF AllWritten
<1> QED BY <1>1, <1>4, MoreBegun

LEMMA AllWrittenStep ==
  ASSUME TypeOK, AppendsSound, AllWritten, OutboxSound, Words = {}, [Next]_vars
  PROVE  AllWritten'
<1> USE ValueFacts, StorageAssumption
<1>1. ASSUME Begun \subseteq Begun', \A q \in Requests : EndsIn(write'[q].value, Begun'),
             EndsIn(stored', Begun'),
             \A w \in Views : /\ EndsIn(initial'[w], Begun') /\ EndsIn(async'[w], Begun')
                             /\ EndsIn(shown'[w], Begun') /\ EndsIn(fallback'[w], Begun'),
             \A w \in Views : stream'[w] = stream[w]
                             \/ \A i \in 1..Len(stream'[w]) : EndsIn(stream'[w][i], Begun')
      PROVE  AllWritten'
  BY <1>1, MoreBegun DEF AllWritten
<1>2. ASSUME Begun \subseteq Begun'
      PROVE  /\ EndsIn(stored, Begun')
             /\ \A r \in Requests : EndsIn(write[r].value, Begun')
             /\ \A v \in Views : /\ EndsIn(initial[v], Begun') /\ EndsIn(async[v], Begun')
                                 /\ EndsIn(shown[v], Begun') /\ EndsIn(fallback[v], Begun')
                                 /\ \A i \in 1..Len(stream[v]) : EndsIn(stream[v][i], Begun')
  BY <1>2, MoreBegun DEF AllWritten
<1>3. ASSUME NEW r \in Requests, WriteElsewhere(r) PROVE AllWritten'
  <2>1. PICK k \in Kinds, x \in {<<r>>, None} : Send(r, k, x, None)
    BY <1>3 DEF WriteElsewhere, Kinds
  <2>2. EndsIn(x, Begun \cup {r}) /\ x \in Value
    BY OneEntryEnds DEF EndsIn
  <2>3. Begun \subseteq Begun' /\ \A q \in Requests : EndsIn(write'[q].value, Begun')
    BY <2>1, <2>2, SendBegins
  <2> QED BY <1>1, <1>2, <1>3, <2>3 DEF WriteElsewhere, page, wire
<1>4. ASSUME NEW r \in Requests, Overwrite(r) PROVE AllWritten'
  <2>1. Begun \subseteq Begun'
    BY <1>4 DEF Overwrite, Begun, TypeOK
  <2> QED BY <1>1, <1>2, <1>4, <2>1 DEF Overwrite
<1>5. ASSUME NEW r \in Requests, AppendReads(r) PROVE AllWritten'
  <2>1. Begun \subseteq Begun'
    BY <1>5 DEF AppendReads, Begun, TypeOK
  <2> QED BY <1>1, <1>2, <1>5, <2>1 DEF AppendReads, page, wire
<1>6. ASSUME NEW r \in Requests, AppendSets(r) PROVE AllWritten'
  <2>1. Begun \subseteq Begun' /\ r \in Begun'
    BY <1>6 DEF AppendSets, Begun, TypeOK
  <2>2. EndsIn(stored', Begun')
    BY <1>6, <2>1, AppendedFacts DEF EndsIn, AppendsSound
  <2>3. \A q \in Requests : write'[q].value \in {write[q].value, stored'}
    BY <1>6 DEF AppendSets, TypeOK
  <2>4. \A q \in Requests : EndsIn(write'[q].value, Begun')
    BY <1>2, <2>1, <2>2, <2>3
  <2> QED BY <1>1, <1>2, <1>6, <2>1, <2>2, <2>4 DEF AppendSets, page
<1>7. ASSUME NEW r \in Requests, WriteFails(r) PROVE AllWritten'
  <2>1. Begun \subseteq Begun'
    BY <1>7 DEF WriteFails, Begun, TypeOK
  <2> QED BY <1>1, <1>2, <1>7, <2>1 DEF WriteFails, wire
<1>8. ASSUME NEW v \in Views, View(v) PROVE AllWritten'
  <2>1. CASE Subscribe(v)
    <3>1. Begun' = Begun /\ \A w \in Views : fallback'[w] \in {fallback[w], shown[w], << >>}
      BY <2>1 DEF Subscribe, writes, Begun, Empty, TypeOK
    <3>2. \A w \in Views : EndsIn(fallback'[w], Begun')
      BY <1>2, <3>1 DEF EndsIn
    <3> QED BY <1>1, <1>2, <2>1, <3>1, <3>2 DEF Subscribe, writes, wire
  <2>2. CASE Register(v)
    BY <1>1, <1>2, <2>2 DEF Register, writes, page, Begun
  <2>3. CASE Unsubscribe(v) \/ GetReads(v) \/ GetFails(v)
    <3>1. Begun' = Begun /\ \A w \in Views : initial'[w] \in {initial[w], stored, None}
      BY <2>3 DEF Unsubscribe, GetReads, GetFails, writes, Begun, TypeOK
    <3>2. \A w \in Views : EndsIn(initial'[w], Begun')
      BY <1>2, <3>1 DEF EndsIn
    <3> QED BY <1>1, <1>2, <2>3, <3>1, <3>2 DEF Unsubscribe, GetReads, GetFails, writes, wire
  <2>4. CASE GetArrives(v)
    <3>1. /\ Begun \subseteq Begun' /\ \A q \in Requests : EndsIn(write'[q].value, Begun')
          /\ \A w \in Views : EndsIn(shown'[w], Begun') /\ EndsIn(async'[w], Begun')
      <4>1. CASE live[v]
        BY <2>4, <4>1 DEF GetArrives, Ignore, writes, Begun, AllWritten
      <4>2. CASE ~live[v]
        BY <2>4, <4>2, AppliedIsWritten DEF GetArrives, AllWritten, TypeOK
      <4> QED BY <4>1, <4>2
    <3>2. \A w \in Views : initial'[w] \in {initial[w], None}
      BY <2>4 DEF GetArrives, TypeOK
    <3>3. \A w \in Views : EndsIn(initial'[w], Begun')
      BY <1>2, <3>1, <3>2 DEF EndsIn
    <3> QED BY <1>1, <1>2, <2>4, <3>1, <3>3 DEF GetArrives, wire
  <2>5. CASE Deliver(v)
    <3>1. stream[v] \in Seq(Value) /\ stream[v] # << >>
      BY <2>5 DEF Deliver, TypeOK
    <3>2. /\ Head(stream[v]) \in Value /\ EndsIn(Head(stream[v]), Begun)
          /\ \A i \in 1..Len(Tail(stream[v])) : EndsIn(Tail(stream[v])[i], Begun)
      <4>1. /\ Len(Tail(stream[v])) = Len(stream[v]) - 1 /\ Len(stream[v]) \in Nat \ {0}
            /\ \A i \in 1..Len(Tail(stream[v])) : Tail(stream[v])[i] = stream[v][i + 1]
            /\ Head(stream[v]) = stream[v][1] /\ Head(stream[v]) \in Value
        BY <3>1, TailFacts
      <4> QED BY <4>1 DEF AllWritten
    <3>3. /\ Begun \subseteq Begun' /\ \A q \in Requests : EndsIn(write'[q].value, Begun')
          /\ \A w \in Views : EndsIn(shown'[w], Begun') /\ EndsIn(async'[w], Begun')
      <4>1. CASE phase[v] = "off"
        BY <2>5, <4>1 DEF Deliver, Ignore, writes, Begun, AllWritten
      <4>2. CASE phase[v] # "off"
        BY <2>5, <3>2, <4>2, AppliedIsWritten DEF Deliver
      <4> QED BY <4>1, <4>2
    <3>4. \A w \in Views : stream'[w] = IF w = v THEN Tail(stream[v]) ELSE stream[w]
      BY <2>5 DEF Deliver, TypeOK
    <3>5. \A w \in Views : stream'[w] = stream[w]
                          \/ \A i \in 1..Len(stream'[w]) : EndsIn(stream'[w][i], Begun')
      BY <3>2, <3>3, <3>4, MoreBegun
    <3> QED BY <1>1, <1>2, <2>5, <3>3, <3>5 DEF Deliver
  <2>6. CASE Disconnect(v)
    <3>1. \A w \in Views : stream'[w] = stream[w] \/ stream'[w] = << >>
      BY <2>6 DEF Disconnect, TypeOK
    <3>2. \A w \in Views : stream'[w] = stream[w]
                          \/ \A i \in 1..Len(stream'[w]) : EndsIn(stream'[w][i], Begun')
      BY <3>1, EmptySeq
    <3> QED BY <1>1, <1>2, <2>6, <3>2 DEF Disconnect, writes, page, Begun
  <2> QED BY <1>8, <2>1, <2>2, <2>3, <2>4, <2>5, <2>6 DEF View
<1>9. ASSUME NEW v \in Views, NEW r \in Requests, Edit(v, r, r) PROVE AllWritten'
  <2>1. EndsIn(<<r>>, Begun \cup {r}) /\ stage[r] = "idle"
    BY <1>9, OneEntryEnds DEF Edit
  <2>4. <<r>> # None /\ <<r>> # << >> /\ <<r>>[Len(<<r>>)] = r
    <3>1. <<r>> \in Seq(Entries)
      BY DEF Entries
    <3> QED BY <3>1
  <2>2. <<r>> # async[v]
    BY <2>1, <2>4 DEF AllWritten, EndsIn, Begun
  <2>3. Begun' = Begun \cup {r} /\ \A q \in Requests : EndsIn(write'[q].value, Begun')
    BY <1>9, <2>1, <2>2, SendBegins DEF Edit, Kinds
  <2>6. \A w \in Views : shown'[w] \in {shown[w], <<r>>}
    BY <1>9 DEF Edit, TypeOK
  <2>5. \A w \in Views : EndsIn(shown'[w], Begun')
    BY <1>2, <2>1, <2>3, <2>6
  <2> QED BY <1>1, <1>2, <1>9, <2>3, <2>5 DEF Edit, wire
<1>10. ASSUME Publish PROVE AllWritten'
  <2>1. Begun \subseteq Begun' /\ Head(outbox) \in Requests
    BY <1>10, TailFacts DEF Publish, Begun, TypeOK
  <2>2. EndsIn(write[Head(outbox)].value, Begun') /\ write[Head(outbox)].value \in Value
    BY <1>2, <2>1 DEF TypeOK
  <2>3. ASSUME NEW w \in Views
        PROVE  stream'[w] = stream[w]
                 \/ \A i \in 1..Len(stream'[w]) : EndsIn(stream'[w][i], Begun')
    <3>1. stream'[w] = stream[w] \/ stream'[w] = Append(stream[w], write[Head(outbox)].value)
      BY <1>10 DEF Publish
    <3>2. stream[w] \in Seq(Value)
      BY DEF TypeOK
    <3> QED BY <1>2, <2>1, <2>2, <3>1, <3>2, AppendFacts
  <2> QED BY <1>1, <1>2, <1>10, <2>1, <2>3 DEF Publish, page
<1>11. ASSUME PublishFails PROVE AllWritten'
  <2>1. Begun \subseteq Begun'
    BY <1>11 DEF PublishFails, Begun, TypeOK
  <2> QED BY <1>1, <1>2, <1>11, <2>1 DEF PublishFails, page
<1>12. ASSUME Restart PROVE AllWritten'
  <2>1. Begun \subseteq Begun'
    BY <1>12 DEF Restart, Begun, TypeOK
  <2>2. \A w \in Views : \A i \in 1..Len(stream'[w]) : EndsIn(stream'[w][i], Begun')
    BY <1>12, EmptySeq DEF Restart
  <2> QED BY <1>1, <1>2, <1>12, <2>1, <2>2 DEF Restart
<1>13. ASSUME UNCHANGED vars PROVE AllWritten'
  BY <1>1, <1>2, <1>13 DEF vars, writes, page, wire, Begun
<1> QED BY <1>3, <1>4, <1>5, <1>6, <1>7, <1>8, <1>9, <1>10, <1>11, <1>12, <1>13 DEF Next, Write

\* A write that carries an edit stays on its way until the server or a fault
\* takes it, and then the edit is stored or was reported as failed.
LEMMA EditsCarriedStep ==
  ASSUME TypeOK, AllWritten, OutboxSound, EditsCarried, Words = {}, [Next]_vars
  PROVE  EditsCarried'
<1> USE ValueFacts, StorageAssumption
<1>1. ASSUME \A w \in Views : unsaved'[w] \in {unsaved[w], None},
             \A w \in Views, r \in Requests : Carries(r, w) /\ unsaved'[w] # None =>
                stage'[r] = "sent" /\ write'[r] = write[r]
      PROVE  EditsCarried'
  BY <1>1 DEF EditsCarried, Carries
<1>2. ASSUME NEW r \in Requests, NEW k \in Kinds, NEW x \in Value,
             NEW u \in Views \cup {None}, Send(r, k, x, u)
      PROVE  \A q \in Requests : stage[q] = "sent" => stage'[q] = "sent" /\ write'[q] = write[q]
  BY <1>2, SendFacts
<1>3. ASSUME NEW r \in Requests, WriteElsewhere(r) PROVE EditsCarried'
  <2>1. PICK k \in Kinds, x \in {<<r>>, None} : Send(r, k, x, None)
    BY <1>3 DEF WriteElsewhere, Kinds
  <2>2. x \in Value
    OBVIOUS
  <2>3. unsaved' = unsaved
    BY <1>3 DEF WriteElsewhere, page
  <2> QED BY <1>1, <1>2, <2>1, <2>2, <2>3 DEF Carries
<1>4. ASSUME NEW r \in Requests, Overwrite(r) PROVE EditsCarried'
  <2>1. /\ write' = write /\ \A q \in Requests : q # r => stage'[q] = stage[q]
        /\ \A w \in Views : unsaved'[w] = IF w = write[r].view /\ unsaved[w] = write[r].value
                                          THEN None ELSE unsaved[w]
    BY <1>4 DEF Overwrite, TypeOK
  <2>2. \A w \in Views : unsaved'[w] \in {unsaved[w], None}
    BY <2>1
  <2>3. \A w \in Views, q \in Requests : Carries(q, w) /\ unsaved'[w] # None =>
          stage'[q] = "sent" /\ write'[q] = write[q]
    BY <2>1 DEF Carries
  <2> QED BY <1>1, <2>2, <2>3
<1>5. ASSUME NEW r \in Requests, AppendReads(r) \/ AppendSets(r) PROVE EditsCarried'
  <2>1. /\ \A q \in Requests : q # r => stage'[q] = stage[q] /\ write'[q] = write[q]
        /\ unsaved' = unsaved
        /\ stage[r] = "read" \/ write[r].kind = "append"
    BY <1>5 DEF AppendReads, AppendSets, page, TypeOK
  <2> QED BY <1>1, <2>1 DEF Carries
<1>6. ASSUME NEW r \in Requests, WriteFails(r) PROVE EditsCarried'
  <2>1. /\ write' = write /\ \A q \in Requests : q # r => stage'[q] = stage[q]
        /\ \A w \in Views : unsaved'[w] = IF w = write[r].view THEN None ELSE unsaved[w]
    BY <1>6 DEF WriteFails, TypeOK
  <2> QED BY <1>1, <2>1 DEF Carries
<1>7. ASSUME NEW v \in Views, View(v) PROVE EditsCarried'
  <2>1. unsaved' = unsaved
    BY <1>7 DEF View, Subscribe, Unsubscribe, Register, GetReads, GetArrives, GetFails,
                Deliver, Disconnect, page
  <2>2. UNCHANGED writes \/ \E r \in Requests, x \in Value : Send(r, "put", x, v)
    <3>1. ASSUME NEW x \in Value, Apply(v, x)
          PROVE  UNCHANGED writes \/ \E r \in Requests, y \in Value : Send(r, "put", y, v)
      BY <3>1, ApplyFacts
    <3>2. CASE GetArrives(v)
      BY <3>1, <3>2 DEF GetArrives, Ignore, TypeOK
    <3>3. CASE Deliver(v)
      <4>1. Head(stream[v]) \in Value
        BY <3>3, TailFacts DEF Deliver, TypeOK
      <4> QED BY <3>1, <3>3, <4>1 DEF Deliver, Ignore
    <3>4. CASE ~GetArrives(v) /\ ~Deliver(v)
      BY <1>7, <3>4 DEF View, Subscribe, Unsubscribe, Register, GetReads, GetFails, Disconnect
    <3> QED BY <3>2, <3>3, <3>4
  <2>3. \A q \in Requests : stage[q] = "sent" => stage'[q] = "sent" /\ write'[q] = write[q]
    BY <1>2, <2>2 DEF writes, Kinds
  <2> QED BY <1>1, <2>1, <2>3 DEF Carries
<1>8. ASSUME NEW v \in Views, NEW r \in Requests, Edit(v, r, r) PROVE EditsCarried'
  <2>1. EndsIn(async[v], Begun) /\ stage[r] = "idle"
    BY <1>8 DEF AllWritten, Edit
  <2>2. <<r>> # async[v]
    <3>1. <<r>> \in Seq(Entries) /\ <<r>> # << >> /\ <<r>>[Len(<<r>>)] = r
      BY DEF Entries
    <3> QED BY <2>1, <3>1 DEF EndsIn, Begun
  <2>3. /\ Send(r, "put", <<r>>, v)
        /\ \A w \in Views : unsaved'[w] = IF w = v THEN <<r>> ELSE unsaved[w]
    BY <1>8, <2>2 DEF Edit, TypeOK
  <2>4. /\ stage'[r] = "sent" /\ write'[r].kind = "put"
        /\ write'[r].view = v /\ write'[r].value = <<r>>
        /\ \A q \in Requests : stage[q] = "sent" => stage'[q] = "sent" /\ write'[q] = write[q]
    <3>1. "put" \in Kinds /\ <<r>> \in Value
      BY DEF Kinds
    <3> QED BY <1>2, <2>3, <3>1, SendFacts
  <2> QED BY <2>3, <2>4 DEF EditsCarried, Carries
<1>9. ASSUME Publish \/ PublishFails PROVE EditsCarried'
  <2>1. Head(outbox) \in Requests /\ stage[Head(outbox)] = "set"
    <3>1. outbox # << >> /\ outbox \in Seq(Requests)
      BY <1>9 DEF Publish, PublishFails, TypeOK
    <3>2. 1 \in 1..Len(outbox) /\ Head(outbox) = outbox[1] /\ Head(outbox) \in Requests
      BY <3>1, TailFacts
    <3> QED BY <3>2 DEF OutboxSound
  <2>2. /\ write' = write /\ unsaved' = unsaved
        /\ \A q \in Requests : q # Head(outbox) => stage'[q] = stage[q]
    BY <1>9, <2>1 DEF Publish, PublishFails, page, TypeOK
  <2> QED BY <1>1, <2>1, <2>2 DEF Carries
<1>10. ASSUME Restart PROVE EditsCarried'
  <2>1. \A w \in Views : unsaved'[w] \in {unsaved[w], None}
    BY <1>10 DEF Restart
  <2>2. \A w \in Views, r \in Requests : Carries(r, w) => unsaved'[w] = None
    BY <1>10 DEF Restart, Carries
  <2> QED BY <1>1, <2>1, <2>2
<1>11. ASSUME UNCHANGED vars PROVE EditsCarried'
  BY <1>1, <1>11 DEF vars, writes, page, Carries
<1> QED BY <1>3, <1>4, <1>5, <1>6, <1>7, <1>8, <1>9, <1>10, <1>11 DEF Next, Write

LEMMA EditsInitial == Init => EditsInv
<1> SUFFICES ASSUME Init PROVE EditsInv
  OBVIOUS
<1>1. AllWritten
  BY EmptySeq DEF Init, AllWritten, EndsIn, NoWrite, Empty
<1> QED BY <1>1 DEF Init, EditsInv, EditsCarried

\* An edit in a page is stored unless its write fails (reatom-storage.ts:93-102),
\* when values are objects: the guard that keeps events from being written back
\* compares by identity, and an edit makes a value that was never delivered.  The
\* hypothesis is the code's own limit: values that are equal when they look the
\* same, as strings are, are lost when one is changed back before it is heard of.
THEOREM EditsGetSaved == ASSUME Words = {} PROVE Spec => []EditsAreSaved
<1>1. Init => SyncInv /\ EditsInv
  BY SyncInitial, EditsInitial
<1>2. SyncInv /\ EditsInv /\ [Next]_vars => (SyncInv /\ EditsInv)'
  BY SyncStep, AllWrittenStep, EditsCarriedStep DEF SyncInv, AppendsSound, EditsInv
<1>3. SyncInv /\ EditsInv => EditsAreSaved
  BY DEF EditsInv, EditsCarried, Carries, EditsAreSaved, Quiet
<1> QED BY <1>1, <1>2, <1>3, PTL DEF Spec
=============================================================================

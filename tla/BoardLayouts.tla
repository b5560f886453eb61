---------------------------- MODULE BoardLayouts ----------------------------
(***************************************************************************)
(* The shared boards of the client and the one-time migrations of their    *)
(* layouts: packages/client/src/board/model (board-model.ts, board-        *)
(* storage.ts, mobile-layout.ts), in one page that is loaded again and     *)
(* whose reads and writes of the two storage keys may fail, each alone.    *)
(*                                                                         *)
(* A layout is the height of every placed widget and the least height its  *)
(* item records; positions, and widths, which the passport floor treats    *)
(* the same way, are left out.  A write is stored or lost when it is made. *)
(***************************************************************************)
EXTENDS Naturals

CONSTANTS Boards, Widgets,
          Passport,   \* the passport checker among them
          Default,    \* Default[w]: the height of its type's defaultSize
          Floor,      \* the passport checker's minH
          MaxHeight,  \* bound on heights
          MaxEdits,   \* bound: what the user does
          MaxFaults,  \* bound: reads and writes that fail
          None

Generic  == "layout-height-floor-v1"
Passports == "passport-checker-height-floor-v1"
Heights  == 1..MaxHeight

VARIABLES
  stored,     \* the two stored values: boards, and marks, the applied ids per board
  boards,     \* the page's atom, None when it holds no boards
  marks,      \* the page's atom of the applied migrations
  loading,    \* the keys whose first read is out
  out,        \* the value on its way to each key, or None: the last one is stored last
  edits,      \* ghost: how often the user did something
  faults,     \* ghost: how often a read or a write failed
  deliberate, \* ghost: what the user resized since the generic pass was recorded
  unread      \* ghost: a first read of the applied migrations has failed, in this page or before

vars == <<stored, boards, marks, loading, out, edits, faults, deliberate, unread>>

NoMarks    == [b \in Boards |-> {}]
Empty      == [layout |-> << >>, mobile |-> None]
NewItem(w) == [h |-> Default[w], min |-> IF w = Passport THEN Floor ELSE 0]

\* f with v at k.
Put(f, k, v) == [x \in DOMAIN f \cup {k} |-> IF x = k THEN v ELSE f[x]]

Faulty(ok) ==
  \/ ok /\ UNCHANGED faults
  \/ ~ok /\ faults < MaxFaults /\ faults' = faults + 1

\* What earlier releases left: no least heights, and maybe the generic pass.
Init ==
  /\ \E hs \in [Widgets -> Heights], m \in {{}, {Generic}} :
       LET b == CHOOSE x \in Boards : TRUE
           layout == [w \in Widgets |-> [h |-> hs[w], min |-> 0]]
       IN  stored = [boards |-> [x \in {b} |-> [layout |-> layout, mobile |-> None]],
                     marks  |-> [NoMarks EXCEPT ![b] = m]]
  /\ boards = None /\ marks = NoMarks /\ loading = {"boards", "marks"}
  /\ out = [boards |-> None, marks |-> None]
  /\ edits = 0 /\ faults = 0 /\ deliberate = {} /\ unread = FALSE

-----------------------------------------------------------------------------
(* migrateBoardLayoutHeights.                                              *)

Least(h, k) == IF h < k THEN k ELSE h

\* bumpHeightsToDefault.
Bumped(layout) == [w \in DOMAIN layout |-> [layout[w] EXCEPT !.h = Least(@, Default[w])]]

\* enforcePassportCheckerSizeFloor.
Floored(layout) ==
  [w \in DOMAIN layout |-> IF w # Passport THEN layout[w]
     ELSE LET min == Least(layout[w].min, Floor) IN [h |-> Least(layout[w].h, min), min |-> min]]

\* Mutant: the generic pass clamps the heights on every read.
MigratedAlways(board, m) ==
  LET Pass(l) == Floored(Bumped(l))
  IN  [layout |-> Pass(board.layout),
       mobile |-> IF board.mobile = None THEN None ELSE Pass(board.mobile)]

\* The generic pass runs unless it is marked, the passport's looks at the board.
Migrated(board, m) ==
  LET Pass(l) == Floored(IF Generic \in m THEN l ELSE Bumped(l))
  IN  [layout |-> Pass(board.layout),
       mobile |-> IF board.mobile = None THEN None ELSE Pass(board.mobile)]

-----------------------------------------------------------------------------
\* Both atoms are as the boards bs and the marks ms say once the effect
\* migrateSharedBoardHeights has run, which waits for both keys; a key whose
\* atom is then no longer what it was is written.
Settle(b0, m0, bs, ms) ==
  LET ready == loading' = {} /\ bs # None
      put(new, old, p) == IF new # old THEN new ELSE p
  IN  /\ boards' = IF ready THEN [b \in DOMAIN bs |-> Migrated(bs[b], ms[b])] ELSE bs
      /\ marks'  = IF ready THEN [b \in Boards |-> IF b \in DOMAIN bs
                                    THEN ms[b] \cup {Generic, Passports} ELSE ms[b]]
                            ELSE ms
      /\ out' = [boards |-> put(boards', b0, out.boards), marks |-> put(marks', m0, out.marks)]

\* The first read of a key is answered, or fails: the atom keeps its default.
ReadBoards(ok) ==
  /\ "boards" \in loading /\ loading' = loading \ {"boards"}
  /\ IF ok THEN Settle(stored.boards, marks, stored.boards, marks)
     ELSE Settle(boards, marks, boards, marks)

ReadMarks(ok) ==
  /\ "marks" \in loading /\ loading' = loading \ {"marks"}
  /\ IF ok THEN Settle(boards, stored.marks, boards, stored.marks)
     ELSE Settle(boards, marks, boards, marks)

Read(ok) ==
  /\ \/ ReadBoards(ok) /\ UNCHANGED unread
     \/ ReadMarks(ok) /\ unread' = (unread \/ ~ok)
  /\ Faulty(ok)
  /\ UNCHANGED <<stored, edits, deliberate>>

\* A write reaches the server, or does not and is not sent again.
Written(key, ok) ==
  /\ out[key] # None /\ out' = [out EXCEPT ![key] = None]
  /\ Faulty(ok)
  /\ stored' = IF ok THEN [stored EXCEPT ![key] = out[key]] ELSE stored
  /\ UNCHANGED <<boards, marks, loading, edits, deliberate, unread>>

\* The page is loaded again; what it was writing got there or did not.
Reload ==
  /\ loading' = {"boards", "marks"} /\ loading # loading'
  /\ boards' = None /\ marks' = NoMarks
  /\ out' = [boards |-> None, marks |-> None]
  /\ \E arrived \in SUBSET {"boards", "marks"} :
       stored' = [k \in {"boards", "marks"} |->
                    IF k \in arrived /\ out[k] # None THEN out[k] ELSE stored[k]]
  /\ UNCHANGED <<edits, faults, deliberate, unread>>

-----------------------------------------------------------------------------
(* What the user does with the boards the page shows.                      *)

Edit(bs) ==
  /\ edits < MaxEdits /\ edits' = edits + 1
  /\ UNCHANGED loading
  /\ Settle(boards, marks, bs, marks)
  /\ UNCHANGED <<stored, faults, unread>>

With(b, board) == [boards EXCEPT ![b] = board]
Shows(b)       == boards # None /\ b \in DOMAIN boards

AddBoard(b) ==
  /\ b \notin DOMAIN stored.boards /\ ~Shows(b) /\ stored.marks[b] \cup marks[b] = {}
  /\ Edit(Put(IF boards = None THEN << >> ELSE boards, b, Empty))
  /\ UNCHANGED deliberate

RemoveBoard(b) ==
  /\ Shows(b)
  /\ Edit([x \in DOMAIN boards \ {b} |-> boards[x]])
  /\ UNCHANGED deliberate

AddInstance(b, w) ==
  /\ Shows(b) /\ w \notin DOMAIN boards[b].layout
  /\ Edit(With(b, [boards[b] EXCEPT !.layout = Put(@, w, NewItem(w))]))
  /\ UNCHANGED deliberate

RemoveInstance(b, w) ==
  /\ Shows(b) /\ w \in DOMAIN boards[b].layout
  /\ LET Without(l) == [x \in DOMAIN l \ {w} |-> l[x]] IN
     Edit(With(b, [layout |-> Without(boards[b].layout),
                   mobile |-> IF boards[b].mobile = None THEN None
                              ELSE Without(boards[b].mobile)]))
  /\ deliberate' = deliberate \ {<<b, w>>}

\* A resize is not taken below the least height of the item.
Resized(l, w, h) == [l EXCEPT ![w].h = Least(h, l[w].min)]
Deliberate(b, w) ==
  deliberate' = IF Generic \in stored.marks[b] THEN deliberate \cup {<<b, w>>} ELSE deliberate

Resize(b, w, h) ==
  /\ Shows(b) /\ w \in DOMAIN boards[b].layout
  /\ Edit(With(b, [boards[b] EXCEPT !.layout = Resized(@, w, h)]))
  /\ Deliberate(b, w)

\* resolveBoardLayout at mobile width: the stored one in step with the desktop's.
Resolved(board) ==
  [w \in DOMAIN board.layout |->
     IF board.mobile # None /\ w \in DOMAIN board.mobile THEN board.mobile[w] ELSE board.layout[w]]

\* materializeMobileLayout at the start of the gesture, updateMobileLayout after.
ResizeMobile(b, w, h) ==
  /\ Shows(b) /\ w \in DOMAIN boards[b].layout
  /\ LET mobile == Resolved(boards[b])
     IN  Edit(With(b, [boards[b] EXCEPT !.mobile = Resized(mobile, w, h)]))
  /\ Deliberate(b, w)

ResetMobileLayout(b) ==
  /\ Shows(b) /\ boards[b].mobile # None
  /\ Edit(With(b, [boards[b] EXCEPT !.mobile = None]))
  /\ UNCHANGED deliberate

Next ==
  \/ \E ok \in BOOLEAN : Read(ok) \/ \E key \in {"boards", "marks"} : Written(key, ok)
  \/ Reload
  \/ \E b \in Boards :
       \/ AddBoard(b) \/ RemoveBoard(b) \/ ResetMobileLayout(b)
       \/ \E w \in Widgets : \/ AddInstance(b, w) \/ RemoveInstance(b, w)
                             \/ \E h \in Heights : Resize(b, w, h) \/ ResizeMobile(b, w, h)

Spec == Init /\ [][Next]_vars

-----------------------------------------------------------------------------
IsLayout(l) == /\ DOMAIN l \subseteq Widgets
               /\ \A w \in DOMAIN l : l[w] \in [h : Heights, min : {0, Floor}]
AreBoards(bs) == /\ DOMAIN bs \subseteq Boards
                 /\ \A b \in DOMAIN bs : /\ IsLayout(bs[b].layout)
                                         /\ bs[b].mobile # None => IsLayout(bs[b].mobile)

TypeOK ==
  /\ AreBoards(stored.boards) /\ (boards # None => AreBoards(boards))
  /\ {stored.marks, marks} \subseteq [Boards -> SUBSET {Generic, Passports}]
  /\ loading \subseteq {"boards", "marks"} /\ unread \in BOOLEAN
  /\ deliberate \subseteq Boards \X Widgets

\* "so a marker cannot hide a failed board write": whatever was stored and
\* whatever was lost, the boards of a page that has read both keys never show
\* the passport checker below its floor.
FloorHolds ==
  loading = {} /\ boards # None =>
    \A b \in DOMAIN boards : \A l \in {boards[b].layout, boards[b].mobile} \ {None} :
      Passport \in DOMAIN l => l[Passport].h >= Floor

\* The step that ends the reading: the migration meets the boards, as they were
\* edited if they were read before.
Undoes(b, w) ==
  LET met == IF "boards" \in loading THEN stored.boards ELSE boards IN
  /\ Shows(b)' /\ b \in DOMAIN met /\ w \in DOMAIN met[b].layout
  /\ boards'[b].layout[w].h # met[b].layout[w].h

\* What the user chose after the pass was recorded, the passport's floor apart.
LeavesResizes == \A p \in deliberate : p[2] # Passport => ~Undoes(p[1], p[2])

\* "must never be re-applied after a later deliberate resize": a page that is
\* loaded does not change a height the user chose after the pass was recorded.
ResizeStands == [][loading # {} /\ loading' = {} => LeavesResizes]_vars

\* What is left of both, in every step: the floor, and the resizes as long as no
\* page has failed to read the applied migrations.  One that has writes its own
\* marks over the others' boards, so a later page may repeat the pass as well.
MigratesSoundly ==
  TypeOK' /\ FloorHolds' /\ (loading # {} /\ loading' = {} /\ ~unread' => LeavesResizes)
MigrationSound == [][MigratesSoundly]_vars
=============================================================================

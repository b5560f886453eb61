--------------------------- MODULE MCBrowserTasks ---------------------------
(***************************************************************************)
(* Three calls: two for one widget, one for another.                       *)
(***************************************************************************)
EXTENDS BrowserTasks

CONSTANTS t1, t2, t3, w1, w2

WidgetOf == [t \in Tasks |-> IF t = t3 THEN w2 ELSE w1]
=============================================================================

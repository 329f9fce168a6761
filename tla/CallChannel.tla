---------------------------- MODULE CallChannel ----------------------------
(***************************************************************************)
(* What the bridge promises to the page: its calls reach native code one   *)
(* by one, each at most once, and the callback of a call runs only after   *)
(* native code was handed the call, and again only as long as it throws:   *)
(* one that returned has settled the call.  The page may be replaced by a  *)
(* new one, which starts from nothing; native code that answers a call of  *)
(* the old page then answers the new one's call of the same number.  The   *)
(* channel may go down for good, with its app.                             *)
(*                                                                         *)
(* To the first page it promises more: every call is handed over.          *)
(***************************************************************************)
EXTENDS Naturals

VARIABLES
    made,     \* number of calls made by the page
    handled,  \* number of them handed to native code
    answered, \* those whose callback has run
    settled,  \* those whose callback has returned
    replaced, \* is the page another than the first?
    down      \* the app has ended

vars == <<made, handled, answered, settled, replaced, down>>

Init ==
    /\ made = 0 /\ handled = 0 /\ answered = {} /\ settled = {}
    /\ replaced = FALSE /\ down = FALSE

Make == made' = made + 1 /\ UNCHANGED <<handled, answered, settled, replaced>>

Handle ==
    /\ handled < made
    /\ handled' = handled + 1
    /\ UNCHANGED <<made, answered, settled, replaced>>

Answer(i) ==
    /\ i \notin settled /\ i < (IF replaced THEN made ELSE handled)
    /\ answered' = answered \cup {i}
    /\ settled' \in {settled, settled \cup {i}}
    /\ UNCHANGED <<made, handled, replaced>>

Replace ==
    /\ made' = 0 /\ handled' = 0 /\ answered' = {} /\ settled' = {}
    /\ replaced' = TRUE

\* A step of the page or of the app; the app may end with it.
Next ==
    /\ ~down /\ down' \in BOOLEAN
    /\ \/ Make \/ Handle \/ Replace
       \/ \E i \in 0..(made - 1) : Answer(i)
       \/ UNCHANGED <<made, handled, answered, settled, replaced>>

\* What the bridge may never do wrong, and what it owes to the first page.
Safety == Init /\ [][Next]_vars
Liveness == WF_vars(~down /\ ~replaced /\ Handle /\ UNCHANGED down)

Spec == Safety /\ Liveness
=============================================================================

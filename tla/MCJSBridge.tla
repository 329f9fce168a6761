---------------------------- MODULE MCJSBridge ----------------------------
(***************************************************************************)
(* JSBridge seen by the page, against the channel it is meant to be.       *)
(*                                                                         *)
(* A call is made when bridge.js stores it, handled when the delegate's    *)
(* selector is invoked, and answered when JSBridge_setResponseWithId runs  *)
(* its callback, settled when that returned.  The page is replaced when a  *)
(* load commits; the channel is down when an exception has ended the app.  *)
(***************************************************************************)
EXTENDS JSBridge

OfThisPage(seq) == {i \in 1..Len(seq) : seq[i].page = doc.n}

Channel == INSTANCE CallChannel WITH
    made     <- Len(calls),
    handled  <- Cardinality(OfThisPage(log)),
    answered <- {fired[i].id : i \in OfThisPage(fired)},
    settled  <- {fired[i].id : i \in {k \in OfThisPage(fired) : fired[k].returned}},
    replaced <- doc.n > 1,
    down     <- raised

\* The bridge is such a channel: exactly once to a page that is not replaced,
\* at most once to its successors, and an answer settles a call.
ImplementsChannel == Channel!Spec
=============================================================================

---------------------------- MODULE MCPushRouter ----------------------------
(***************************************************************************)
(* PushRouter with two requests on one instance, or one request on two.     *)
(***************************************************************************)
EXTENDS PushRouter

CONSTANTS i1, i2, r1, r2

\* The second request has not begun, or the second instance has never been seen: neither
\* begins once the other has.  No step that fairness asks for is cut off.
Small ==
    \/ pc[r2] = "idle"
    \/ i2 \notin source \cup avail \cup free \cup ids \cup list[r1] \cup list[r2]

SmallSpec == Init /\ [][Next /\ Small']_vars /\ Fairness
=============================================================================

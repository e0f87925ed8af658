----------------------------- MODULE ResultFiles ----------------------------
(***************************************************************************)
(* What the receiver promises of its result files to those who read the    *)
(* directory: they come in the order of their strides, are written and     *)
(* closed one after the other, and a closed file stays as it is.  A file   *)
(* may be left behind unfinished.  Receiver implements this module, and    *)
(* Explorer takes it for granted.                                          *)
(***************************************************************************)
EXTENDS Integers

CONSTANT Strides   \* the stride numbers

VARIABLE content   \* stride -> none, empty, partial (no footer yet) or complete

Init == content = [s \in Strides |-> "none"]

Later(s) == {t \in Strides : t > s}

Create(s) ==
  /\ content[s] = "none"
  /\ \A t \in Later(s) : content[t] = "none"
  /\ content' = [content EXCEPT ![s] = "empty"]

\* No later file was begun.
InTurn(s) == \A t \in Later(s) : content[t] \in {"none", "empty"}

Write(s) ==
  /\ content[s] = "empty" /\ InTurn(s)
  /\ content' = [content EXCEPT ![s] = "partial"]

Close(s) ==
  /\ content[s] = "partial" /\ InTurn(s)
  /\ content' = [content EXCEPT ![s] = "complete"]

Next == \E s \in Strides : Create(s) \/ Write(s) \/ Close(s)

Spec == Init /\ [][Next]_content
=============================================================================

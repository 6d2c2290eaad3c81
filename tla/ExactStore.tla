----------------------------- MODULE ExactStore -----------------------------
(***************************************************************************)
(* What the coders expect of the storage for unpredictable values: values  *)
(* are put in one after the other, and come back in that order, each near  *)
(* to the one put in.                                                      *)
(***************************************************************************)
EXTENDS Naturals, Sequences

CONSTANTS
  Words,         \* values
  Near(_, _, _)  \* Near(e, w, v): v is as near to w as the precision e asks

VARIABLES
  reqExpo,  \* the precision
  given,    \* the values put in
  out       \* those that have come back

vars == <<reqExpo, given, out>>

Init == given = << >> /\ out = << >>

Put(w) ==
  /\ out = << >>
  /\ given' = Append(given, w)
  /\ UNCHANGED <<reqExpo, out>>

Take ==
  /\ Len(out) < Len(given)
  /\ Len(out') = Len(out) + 1
  /\ SubSeq(out', 1, Len(out)) = out
  /\ Near(reqExpo, given[Len(out')], out'[Len(out')])
  /\ UNCHANGED <<reqExpo, given>>

Next == (\E w \in Words : Put(w)) \/ Take

Spec == Init /\ [][Next]_vars
=============================================================================

----------------------------- MODULE VarRegistry -----------------------------
(***************************************************************************)
(* What the set of registered variables promises: a sequence of variables  *)
(* in registration order; deregistering removes the first one that matches *)
(* and says whether there was one.  Its end may go stale, by the removal   *)
(* of the last variable; what is added from then on comes too early or is  *)
(* not there at all, but nothing else goes wrong.  VarSet.tla, the linked  *)
(* list of the code, is shown to implement it.                             *)
(***************************************************************************)
EXTENDS Integers, Sequences

CONSTANTS
  Ids,      \* variable ids callers use
  Names     \* variable names callers use

VARIABLES
  registered,   \* the variables, in registration order
  status,       \* SZ_SCES or SZ_NSCS, what the last deregistration returned
  stale         \* the end of the sequence may be mistaken

vars == <<registered, status, stale>>

Matches(p, k) == \A f \in DOMAIN p : registered[k][f] = p[f]

Init == registered = << >> /\ status = "SZ_SCES" /\ stale = FALSE

\* An id is kept as a byte.
Register(i, n) ==
  /\ \/ registered' = Append(registered, [id |-> i % 256, name |-> n])
     \/ /\ stale
        /\ \/ UNCHANGED registered
           \/ \E k \in 0 .. Len(registered) :
                registered' = Append(SubSeq(registered, 1, k), [id |-> i % 256, name |-> n])
  /\ UNCHANGED <<status, stale>>

\* What becomes of the end when the k-th entry is removed: it stays what it is
\* by name, unless that was the last entry; by id it is found again with the
\* last entry, or lost with any.
Ends(p, k) ==
  IF k = Len(registered)
  THEN IF "id" \in DOMAIN p THEN BOOLEAN ELSE {TRUE}
  ELSE IF "id" \in DOMAIN p THEN {stale, TRUE} ELSE {stale}

\* p gives the field to look for, [id |-> i] or [name |-> n]; i is not reduced
\* to a byte.
Deregister(p) ==
  \/ /\ \A k \in DOMAIN registered : ~Matches(p, k)
     /\ status' = "SZ_NSCS"
     /\ UNCHANGED <<registered, stale>>
  \/ \E k \in DOMAIN registered :
       /\ Matches(p, k)
       /\ \A j \in 1 .. k - 1 : ~Matches(p, j)
       /\ registered' = SubSeq(registered, 1, k - 1)
                          \o SubSeq(registered, k + 1, Len(registered))
       /\ status' = "SZ_SCES"
       /\ stale' \in Ends(p, k)

\* SZ_freeVarSet
Clear == registered' = << >> /\ UNCHANGED <<status, stale>>

Next ==
  \/ \E i \in Ids, n \in Names : Register(i, n)
  \/ \E i \in Ids : Deregister([id |-> i])
  \/ \E n \in Names : Deregister([name |-> n])
  \/ Clear

Spec == Init /\ [][Next]_vars
=============================================================================

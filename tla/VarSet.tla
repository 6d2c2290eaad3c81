------------------------------- MODULE VarSet -------------------------------
(***************************************************************************)
(* The registered variables as VarSet.c keeps them: a singly linked list   *)
(* in malloc'ed memory, with a header node, a pointer to the last node for *)
(* appending, and a count that the loops of SZ_compress_ts rely on.        *)
(*                                                                         *)
(* An address that was freed may be handed out again, and can be written   *)
(* through a pointer that was not reset; what is read from it before it is *)
(* handed out again can be anything.                                       *)
(*                                                                         *)
(* Two history variables record when the pointer to the last node is no    *)
(* longer to be relied on, and when something was appended behind it all   *)
(* the same.  No action reads them but to update them.                     *)
(***************************************************************************)
EXTENDS Integers, Sequences, FiniteSets

CONSTANTS
  Ids,            \* var_id arguments, of type int
  Names,          \* varName arguments
  Slots,          \* bound: addresses malloc hands out for an SZ_Variable
  Header,         \* the address of the header node
  Null,
  CountValues     \* the values of an unsigned short: 65536

ASSUME VarSetAssumption ==
  /\ Ids \subseteq Int /\ Names # {}
  /\ IsFiniteSet(Slots)
  /\ Header \notin Slots /\ Null \notin Slots \cup {Header}
  /\ CountValues \in Nat \ {0}

VARIABLES
  sz_varset,  \* "NULL", "allocated", or "freed": the pointer is never reset
  heap,       \* the contents of every address, live or not
  live,       \* the addresses malloc has handed out and free has not taken
  lastVar,
  count,
  status,     \* what the last deregistration returned
  stale,      \* history: lastVar may have been left behind, or moved too far
  lost        \* history: a variable was added while it was so

vars == <<sz_varset, heap, live, lastVar, count, status, stale, lost>>

Addresses == Slots \cup {Header}
Blank == [id |-> 0, name |-> CHOOSE n \in Names : TRUE, next |-> Null]

\* unsigned char var_id
Stored(i) == i % 256

-----------------------------------------------------------------------------
\* The node reached after n links from the header.
Hop == LET hop[n \in 0 .. Cardinality(Slots) + 1] ==
             IF n = 0 THEN Header
             ELSE IF hop[n - 1] = Null THEN Null ELSE heap[hop[n - 1]].next
       IN hop

\* The list, without the header.
Length == Cardinality({n \in 1 .. Cardinality(Slots) : Hop[n] # Null})
List == IF sz_varset = "allocated" THEN [n \in 1 .. Length |-> Hop[n]] ELSE << >>

\* The position of the first node that has field f equal to v, or 0.
First(f, v) ==
  LET hits == {n \in DOMAIN List : heap[List[n]][f] = v}
  IN IF hits = {} THEN 0 ELSE CHOOSE n \in hits : \A m \in hits : n <= m

-----------------------------------------------------------------------------
Init ==
  /\ sz_varset = "NULL"
  /\ heap = [a \in Addresses |-> Blank]
  /\ live = {} /\ lastVar = Null /\ count = 0
  /\ status = "SZ_SCES" /\ stale = FALSE /\ lost = FALSE

\* Mutant of SZ_batchAddVar: lastVar stays where it was.
AddWithoutAdvance(i, n) ==
  /\ sz_varset # "freed"
  /\ LET last == IF sz_varset = "NULL" THEN Header ELSE lastVar
     IN \E a \in Slots \ live :
          /\ heap' = [heap EXCEPT ![a] = [id |-> Stored(i), name |-> n, next |-> Null],
                                  ![last].next = a]
          /\ live' = live \cup {Header, a}
          /\ lastVar' = last
  /\ count' = (count + 1) % CountValues
  /\ sz_varset' = "allocated"
  /\ lost' = (lost \/ stale)
  /\ UNCHANGED <<status, stale>>

\* SZ_registerVar: the set is created by the first registration.
SZ_batchAddVar(i, n) ==
  /\ sz_varset # "freed"
  /\ LET last == IF sz_varset = "NULL" THEN Header ELSE lastVar
     IN \E a \in Slots \ live :
          /\ heap' = [heap EXCEPT ![a] = [id |-> Stored(i), name |-> n, next |-> Null],
                                  ![last].next = a]
          /\ live' = live \cup {Header, a}
          /\ lastVar' = a
  /\ count' = (count + 1) % CountValues
  /\ sz_varset' = "allocated"
  /\ lost' = (lost \/ stale)
  /\ UNCHANGED <<status, stale>>

NotFound(f, v) ==
  /\ First(f, v) = 0
  /\ status' = "SZ_NSCS"
  /\ UNCHANGED <<sz_varset, heap, live, lastVar, count, stale, lost>>

\* Mutant of Unlink: the count stays.
UnlinkUncounted(k) ==
  /\ heap' = [heap EXCEPT ![Hop[k - 1]].next = heap[Hop[k]].next]
  /\ live' = live \ {Hop[k]}
  /\ status' = "SZ_SCES"
  /\ UNCHANGED <<sz_varset, count, lost>>

\* Mutant of Unlink: the node is not freed.
UnlinkLeaky(k) ==
  /\ heap' = [heap EXCEPT ![Hop[k - 1]].next = heap[Hop[k]].next]
  /\ count' = (count - 1) % CountValues
  /\ status' = "SZ_SCES"
  /\ UNCHANGED <<sz_varset, live, lost>>

\* Mutant of Unlink: p->next is not set.
UnlinkDangling(k) ==
  /\ live' = live \ {Hop[k]}
  /\ count' = (count - 1) % CountValues
  /\ status' = "SZ_SCES"
  /\ UNCHANGED <<sz_varset, heap, lost>>

\* Take the k-th node out of the list and free it.
Unlink(k) ==
  /\ heap' = [heap EXCEPT ![Hop[k - 1]].next = heap[Hop[k]].next]
  /\ live' = live \ {Hop[k]}
  /\ count' = (count - 1) % CountValues
  /\ status' = "SZ_SCES"
  /\ UNCHANGED <<sz_varset, lost>>

\* Mutant of SZ_batchDelVar_ID: lastVar follows the node that was removed.
DelIdNext(i) ==
  /\ sz_varset = "allocated"
  /\ \/ NotFound("id", i)
     \/ /\ First("id", i) # 0
        /\ Unlink(First("id", i))
        /\ lastVar' = heap[Hop[First("id", i)]].next
        /\ UNCHANGED stale

\* The id is compared as an int with the stored unsigned char.  Whether the
\* node was the last is read from the node after it was freed.
SZ_batchDelVar_ID(i) ==
  /\ sz_varset = "allocated"
  /\ \/ NotFound("id", i)
     \/ /\ First("id", i) # 0
        /\ LET k == First("id", i)
           IN /\ Unlink(k)
              /\ \E readNull \in BOOLEAN :
                   /\ lastVar' = IF readNull THEN Hop[k - 1] ELSE lastVar
                   /\ stale' = IF k = Len(List) THEN ~readNull ELSE stale \/ readNull

\* Mutant of SZ_batchDelVar: the last match is removed, not the first.
DelLastMatch(n) ==
  /\ sz_varset = "allocated"
  /\ \/ NotFound("name", n)
     \/ \E k \in DOMAIN List :
          /\ heap[List[k]].name = n
          /\ \A j \in DOMAIN List : heap[List[j]].name = n => j <= k
          /\ Unlink(k)
          /\ UNCHANGED lastVar
          /\ stale' = (stale \/ k = Len(List))

\* By name, lastVar is left alone.
SZ_batchDelVar(n) ==
  /\ sz_varset = "allocated"
  /\ \/ NotFound("name", n)
     \/ /\ First("name", n) # 0
        /\ Unlink(First("name", n))
        /\ UNCHANGED lastVar
        /\ stale' = (stale \/ First("name", n) = Len(List))

\* SZ_Finalize, or a direct call: every node on the list and the header go.
SZ_freeVarSet ==
  /\ sz_varset = "allocated"
  /\ live' = live \ ({Header} \cup {List[k] : k \in DOMAIN List})
  /\ sz_varset' = "freed"
  /\ UNCHANGED <<heap, lastVar, count, status, stale, lost>>

Next ==
  \/ \E i \in Ids, n \in Names : SZ_batchAddVar(i, n)
  \/ \E i \in Ids : SZ_batchDelVar_ID(i)
  \/ \E n \in Names : SZ_batchDelVar(n)
  \/ SZ_freeVarSet

Spec == Init /\ [][Next]_vars

-----------------------------------------------------------------------------
(* Properties                                                              *)

\* There is always a node, live or not, to append to; ids fit a byte and the
\* count its unsigned short.
TypeOK ==
  /\ sz_varset \in {"NULL", "allocated", "freed"}
  /\ sz_varset = "allocated" => lastVar # Null
  /\ heap \in [Addresses -> [id : 0 .. 255, name : Names, next : Addresses \cup {Null}]]
  /\ live \subseteq Addresses
  /\ lastVar \in Addresses \cup {Null}
  /\ count \in 0 .. CountValues - 1
  /\ status \in {"SZ_SCES", "SZ_NSCS"}
  /\ stale \in BOOLEAN /\ lost \in BOOLEAN

\* Following links from the header, as every loop over the variables does
\* (VarSet.c:126, 152, 173), visits allocated nodes only and ends, whatever
\* was added and removed, and wherever lastVar points.
WalkSafe ==
  sz_varset = "allocated" =>
    /\ \A k \in DOMAIN List : List[k] \in live
    /\ Hop[Len(List) + 1] = Null

\* SZ_compress_ts takes count steps along the list without testing for its
\* end (sz.c:1076): count is the number of variables on it, as far as an
\* unsigned short can say, until one was added behind a lastVar gone wrong.
CountMatches ==
  sz_varset = "allocated" /\ ~lost => count = Len(List) % CountValues

\* lastVar is the last variable of the list (VarSet.c:103-105), until the last
\* one is removed by its name, or by its id when the freed node that
\* VarSet.c:135 reads no longer holds the link it had.
LastIsLast == sz_varset = "allocated" /\ ~stale => lastVar = Hop[Len(List)]

\* Every variable that was registered and not deregistered is on the list, so
\* SZ_compress_ts can "process all variables" (sz.c:1060), nothing else is
\* allocated, and after SZ_freeVarSet nothing at all is (VarSet.c:208-224).
AlwaysReachable ==
  live = IF sz_varset = "allocated"
         THEN {Header} \cup {List[k] : k \in DOMAIN List}
         ELSE {}

\* So it is until a variable is added while lastVar is wrong: the removal of
\* the last variable by name does no harm before the next registration.
AllReachable == ~lost => AlwaysReachable

\* The list implements the registry of the callers' ids and names.
Registry == INSTANCE VarRegistry WITH
  registered <- [k \in 1 .. Len(List) |->
                  [id |-> heap[List[k]].id, name |-> heap[List[k]].name]]
RegistryImplemented == Registry!Spec
=============================================================================

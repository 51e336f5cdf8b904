------------------------------ MODULE ArgList ------------------------------
(***************************************************************************)
(* The list of installer arguments of a handle (sxupdate_add_installer_arg *)
(* in src/api.c): nodes linked by their next fields, and a pointer to the  *)
(* slot that the next node goes into.  Nodes are numbered as they are      *)
(* allocated, node i holds the i-th argument, and 0 is the null pointer.   *)
(* The slot is the next field of node i, or 0 for the head of the list.    *)
(***************************************************************************)
EXTENDS Naturals, Sequences

NoArgs == [head |-> 0, next |-> <<>>, slot |-> 0]

Put(list, slot, node) ==
  IF slot = 0 THEN [list EXCEPT !.head = node]
              ELSE [list EXCEPT !.next[slot] = node]

\* Mutant of WithArg: the slot stays where it is.
WithArgSlotStays(list) ==
  LET node == Len(list.next) + 1
      slot == IF list.head = 0 THEN 0 ELSE list.slot
  IN  [Put([list EXCEPT !.next = Append(@, 0)], slot, node) EXCEPT !.slot = slot]

(* One more argument; when there is no memory for it the list stays as it  *)
(* is.                                                                     *)
WithArg(list) ==
  LET node == Len(list.next) + 1
      slot == IF list.head = 0 THEN 0 ELSE list.slot
  IN  [Put([list EXCEPT !.next = Append(@, 0)], slot, node) EXCEPT !.slot = node]

(* The nodes from the head of the list on.                                 *)
Walk(list) ==
  LET from[i \in 0 .. Len(list.next)] ==
        IF i = 0 THEN <<>> ELSE <<i>> \o from[list.next[i]]
  IN  from[list.head]
=============================================================================

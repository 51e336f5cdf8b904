----------------------------- MODULE Documents -----------------------------
(***************************************************************************)
(* What src/parse.c can tell apart in a document: the sequence of calls    *)
(* that yajl makes of its two callbacks, and the end of the text.          *)
(* Metadata.tla reads such sequences; Paths.tla has the grammar that they  *)
(* come from.                                                              *)
(***************************************************************************)
EXTENDS Naturals, Sequences

EndItem == [k |-> "endItem"]
Close   == [k |-> "close"]

Indices(b) == 1 .. Len(b)

(* A value of an item comes before the end of that item, and that before   *)
(* the end of the document.                                                *)
WellFormed(b) ==
  \A i, j \in Indices(b) :
    b[i].k = "value" /\ b[j].k = "close" =>
      \E e \in Indices(b) : i < e /\ e < j /\ b[e].k = "endItem"
=============================================================================

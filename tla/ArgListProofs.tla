--------------------------- MODULE ArgListProofs ---------------------------
(***************************************************************************)
(* Proofs about ArgList.tla, for lists of any length: walking the list     *)
(* from its head meets every argument once, in the order of addition.      *)
(*                                                                         *)
(* A walk is a recursive function.  What it computes is shown without the  *)
(* induction theorems, which take an operator: if it were something else   *)
(* at some nodes, there would be a last such node, and what follows it is  *)
(* right.                                                                  *)
(***************************************************************************)
EXTENDS ArgList, LeastElement, SequenceTheorems, TLAPS

-----------------------------------------------------------------------------
(* The links                                                               *)

(* Every node is followed by the node that was allocated after it, and the *)
(* next one goes behind the last.                                          *)
Linked(list) ==
  LET n == Len(list.next)
  IN  /\ list.next \in Seq(Nat)
      /\ list.head = IF n = 0 THEN 0 ELSE 1
      /\ list.slot = n
      /\ \A i \in 1 .. n : list.next[i] = IF i = n THEN 0 ELSE i + 1

(* The empty list is.                                                      *)
LEMMA EmptyIsLinked == Linked(NoArgs)
BY DEF Linked, NoArgs

(* What one more argument changes.                                         *)
LEMMA WithArgFields ==
  ASSUME NEW list \in [head : Nat, next : Seq(Nat), slot : Nat]
  PROVE  LET n == Len(list.next)
             slot == IF list.head = 0 THEN 0 ELSE list.slot
             next == Append(list.next, 0)
         IN  WithArg(list) =
               [head |-> IF slot = 0 THEN n + 1 ELSE list.head,
                next |-> IF slot = 0 THEN next ELSE [next EXCEPT ![slot] = n + 1],
                slot |-> n + 1]
<1> DEFINE n == Len(list.next)
           slot == IF list.head = 0 THEN 0 ELSE list.slot
           next == Append(list.next, 0)
           longer == [list EXCEPT !.next = next]
<1>1. WithArg(list) = [Put(longer, slot, n + 1) EXCEPT !.slot = n + 1]
  BY DEF WithArg
<1>2. longer = [head |-> list.head, next |-> next, slot |-> list.slot]
  <2> HIDE DEF next
  <2>1. QED OBVIOUS
<1> HIDE DEF longer, slot, n, next
<1> DEFINE result == [head |-> IF slot = 0 THEN n + 1 ELSE list.head,
                      next |-> IF slot = 0 THEN next ELSE [next EXCEPT ![slot] = n + 1],
                      slot |-> n + 1]
<1>3. CASE slot = 0
  <2>1. Put(longer, slot, n + 1) = [head |-> n + 1, next |-> next, slot |-> list.slot]
    BY <1>2, <1>3 DEF Put
  <2>2. WithArg(list) = [head |-> n + 1, next |-> next, slot |-> n + 1]
    BY <1>1, <2>1
  <2>3. WithArg(list) = result
    BY <1>3, <2>2
  <2>4. QED BY <2>3 DEF slot, n, next
<1>4. CASE slot # 0
  <2>1. Put(longer, slot, n + 1)
          = [head |-> list.head, next |-> [next EXCEPT ![slot] = n + 1], slot |-> list.slot]
    BY <1>2, <1>4 DEF Put
  <2>2. WithArg(list)
          = [head |-> list.head, next |-> [next EXCEPT ![slot] = n + 1], slot |-> n + 1]
    BY <1>1, <2>1
  <2>3. WithArg(list) = result
    BY <1>4, <2>2
  <2>4. QED BY <2>3 DEF slot, n, next
<1>5. QED BY <1>3, <1>4

(* One more argument leaves the list linked, and one longer.               *)
LEMMA WithArgLinked ==
  ASSUME NEW list, list \in [head : Nat, next : Seq(Nat), slot : Nat], Linked(list)
  PROVE  /\ Linked(WithArg(list))
         /\ Len(WithArg(list).next) = Len(list.next) + 1
<1> DEFINE n == Len(list.next)
           next == Append(list.next, 0)
<1>1. /\ n \in Nat /\ list.next \in Seq(Nat) /\ list.slot = n
      /\ list.head = IF n = 0 THEN 0 ELSE 1
      /\ \A i \in 1 .. n : list.next[i] = IF i = n THEN 0 ELSE i + 1
  BY DEF Linked
<1>2. next \in Seq(Nat) /\ Len(next) = n + 1 /\ next[n + 1] = 0
      /\ \A i \in 1 .. n : next[i] = list.next[i]
  BY <1>1
<1>3. CASE n = 0
  <2>1. WithArg(list) = [head |-> 1, next |-> next, slot |-> 1]
    BY <1>1, <1>3, WithArgFields
  <2>2. QED BY <1>1, <1>2, <1>3, <2>1 DEF Linked
<1>4. CASE n # 0
  <2>1. WithArg(list) = [head |-> 1, next |-> [next EXCEPT ![n] = n + 1], slot |-> n + 1]
    BY <1>1, <1>4, WithArgFields
  <2> HIDE DEF next
  <2>2. /\ [next EXCEPT ![n] = n + 1] \in Seq(Nat)
        /\ Len([next EXCEPT ![n] = n + 1]) = n + 1
        /\ \A i \in 1 .. n + 1 :
             [next EXCEPT ![n] = n + 1][i] = IF i = n THEN n + 1 ELSE next[i]
    BY <1>1, <1>2, <1>4, ExceptSeq
  <2> DEFINE linked == [next EXCEPT ![n] = n + 1]
  <2> HIDE DEF linked
  <2>3. /\ linked \in Seq(Nat) /\ Len(linked) = n + 1
        /\ \A i \in 1 .. n + 1 : linked[i] = IF i = n + 1 THEN 0 ELSE i + 1
    BY <1>1, <1>2, <1>4, <2>2 DEF linked
  <2>4. WithArg(list) = [head |-> 1, next |-> linked, slot |-> n + 1]
    BY <2>1 DEF linked
  <2>5. QED BY <1>1, <2>3, <2>4 DEF Linked
<1>5. QED BY <1>3, <1>4

-----------------------------------------------------------------------------
(* The walk                                                                *)

(* The nodes from i to n.                                                  *)
InOrder(n, i) == IF i = 0 THEN <<>> ELSE [j \in 1 .. n - i + 1 |-> i + j - 1]

(* They are node i and those that follow it.                               *)
LEMMA InOrderStep ==
  ASSUME NEW n \in Nat, NEW i \in 1 .. n
  PROVE  InOrder(n, i) = <<i>> \o InOrder(n, IF i = n THEN 0 ELSE i + 1)
<1> DEFINE rest == InOrder(n, IF i = n THEN 0 ELSE i + 1)
<1>1. rest \in Seq(Nat) /\ Len(rest) = n - i
      /\ \A j \in 1 .. n - i : rest[j] = i + j
  <2>1. CASE i = n
    BY <2>1 DEF InOrder
  <2>2. CASE i < n
    <3>1. rest = [j \in 1 .. n - i |-> i + j]
      BY <2>2 DEF InOrder
    <3>2. \A j \in 1 .. n - i : i + j \in Nat
      OBVIOUS
    <3>3. n - i \in Nat
      OBVIOUS
    <3>4. QED BY <3>1, <3>2, <3>3
  <2>3. QED BY <2>1, <2>2
<1> HIDE DEF rest
<1>2. <<i>> \in Seq(Nat) /\ Len(<<i>>) = 1 /\ <<i>>[1] = i
  OBVIOUS
<1>3. InOrder(n, i) \in Seq(Nat) /\ Len(InOrder(n, i)) = n - i + 1
      /\ \A j \in 1 .. n - i + 1 : InOrder(n, i)[j] = i + j - 1
  <2>1. InOrder(n, i) = [j \in 1 .. n - i + 1 |-> i + j - 1]
    BY DEF InOrder
  <2>2. \A j \in 1 .. n - i + 1 : i + j - 1 \in Nat
    OBVIOUS
  <2>3. n - i + 1 \in Nat
    OBVIOUS
  <2>4. QED BY <2>1, <2>2, <2>3
<1>4. <<i>> \o rest \in Seq(Nat) /\ Len(<<i>> \o rest) = n - i + 1
  BY <1>1, <1>2, ConcatProperties
<1>5. \A j \in 1 .. n - i + 1 : (<<i>> \o rest)[j] = i + j - 1
  <2>1. TAKE j \in 1 .. n - i + 1
  <2>2. CASE j = 1
    BY <1>1, <1>2, <2>2, ConcatProperties
  <2>3. CASE j # 1
    <3>1. (<<i>> \o rest)[j] = rest[j - 1]
      BY <1>1, <1>2, <2>3, ConcatProperties
    <3>2. j - 1 \in 1 .. n - i
      BY <2>3
    <3>3. QED BY <1>1, <3>1, <3>2
  <2>4. QED BY <2>2, <2>3
<1>6. InOrder(n, i) = <<i>> \o rest
  BY <1>3, <1>4, <1>5, SeqEqual
<1>7. QED BY <1>6 DEF rest

(* Walking a list that is linked this way meets its nodes in order.        *)
LEMMA WalkInOrder ==
  ASSUME NEW list, Linked(list)
  PROVE  Walk(list) = [i \in 1 .. Len(list.next) |-> i]
<1> DEFINE n == Len(list.next)
           Step(f) == [i \in 0 .. n |-> IF i = 0 THEN <<>> ELSE <<i>> \o f[list.next[i]]]
           walk == CHOOSE f : f = Step(f)
           ordered == [i \in 0 .. n |-> InOrder(n, i)]
<1>1. /\ n \in Nat
      /\ list.head = IF n = 0 THEN 0 ELSE 1
      /\ \A i \in 1 .. n : list.next[i] = IF i = n THEN 0 ELSE i + 1
  BY DEF Linked
<1>2. Walk(list) = walk[list.head]
  BY DEF Walk
<1> HIDE DEF n
<1>3. ordered = Step(ordered)
  <2>1. \A i \in 0 .. n : ordered[i] = IF i = 0 THEN <<>> ELSE <<i>> \o ordered[list.next[i]]
    <3>1. TAKE i \in 0 .. n
    <3>2. CASE i = 0
      BY <3>2, <1>1 DEF InOrder
    <3>3. CASE i # 0
      <4>1. i \in 1 .. n /\ list.next[i] = IF i = n THEN 0 ELSE i + 1
        BY <1>1, <3>3
      <4>2. list.next[i] \in 0 .. n
        BY <1>1, <4>1
      <4>3. QED BY <1>1, <3>3, <4>1, <4>2, InOrderStep
    <3>4. QED BY <3>2, <3>3
  <2>2. QED BY <2>1
<1>4. walk = Step(walk)
  BY <1>3
<1> HIDE DEF walk
<1>5. \A i \in 0 .. n : walk[i] = IF i = 0 THEN <<>> ELSE <<i>> \o walk[list.next[i]]
  BY <1>4
<1>6. walk[0] = <<>> /\ InOrder(n, 0) = <<>>
  <2>1. 0 \in 0 .. n
    BY <1>1
  <2>2. walk[0] = <<>>
    BY <1>5, <2>1
  <2>3. QED BY <2>2 DEF InOrder
<1>7. \A k \in 0 .. n : walk[n - k] = InOrder(n, n - k)
  <2> DEFINE wrong == {k \in 0 .. n : walk[n - k] # InOrder(n, n - k)}
  <2>1. SUFFICES ASSUME wrong # {} PROVE FALSE
    OBVIOUS
  <2>2. PICK k \in wrong : \A m \in wrong : k <= m
    <3>1. wrong \subseteq Nat
      BY <1>1
    <3>2. QED BY <2>1, <3>1, LeastNumber
  <2>3. CASE n - k = 0
    BY <1>6, <2>2, <2>3
  <2>4. CASE n - k # 0
    <3> DEFINE i == n - k
    <3>1. i \in 1 .. n /\ k \in 0 .. n /\ walk[i] # InOrder(n, i)
      BY <1>1, <2>2, <2>4
    <3> HIDE DEF i
    <3>2. walk[i] = <<i>> \o walk[IF i = n THEN 0 ELSE i + 1]
      <4>1. i \in 0 .. n /\ i # 0 /\ list.next[i] = IF i = n THEN 0 ELSE i + 1
        BY <1>1, <3>1
      <4>2. QED BY <1>5, <4>1
    <3>3. CASE i = n
      BY <1>6, <1>1, <3>1, <3>2, <3>3, InOrderStep
    <3>4. CASE i # n
      <4>1. k - 1 \in 0 .. n /\ k - 1 \notin wrong /\ n - (k - 1) = i + 1
        BY <1>1, <2>2, <3>1, <3>4 DEF i
      <4>2. walk[i + 1] = InOrder(n, i + 1)
        BY <4>1
      <4>3. QED BY <1>1, <3>1, <3>2, <3>4, <4>2, InOrderStep
    <3>5. QED BY <3>3, <3>4
  <2>5. QED BY <2>3, <2>4
<1>8. walk[list.head] = [i \in 1 .. n |-> i]
  <2>1. CASE n = 0
    BY <1>1, <1>5, <2>1
  <2>2. CASE n # 0
    <3>1. n - 1 \in 0 .. n /\ n - (n - 1) = 1
      BY <1>1, <2>2
    <3>2. walk[1] = InOrder(n, 1)
      BY <1>7, <3>1
    <3>3. InOrder(n, 1) = [j \in 1 .. n |-> j]
      BY <1>1 DEF InOrder
    <3>4. QED BY <1>1, <2>2, <3>2, <3>3
  <2>3. QED BY <2>1, <2>2
<1>9. QED BY <1>2, <1>8 DEF n
=============================================================================

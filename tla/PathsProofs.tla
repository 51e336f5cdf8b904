---------------------------- MODULE PathsProofs ----------------------------
(***************************************************************************)
(* Proofs about Paths.tla, for every depth, every set of keys and every    *)
(* document: the helper keeps what the nesting is, a path is matched       *)
(* exactly by the nesting it names as long as keys contain no brackets,    *)
(* and an item ends after its values.                                      *)
(***************************************************************************)
EXTENDS Paths, TLAPS

-----------------------------------------------------------------------------
(* Sequences                                                               *)

LEMMA NonEmpty ==
  ASSUME NEW S, NEW s \in Seq(S), NEW n \in Nat, n = Len(s), n # 0
  PROVE  s # <<>> /\ n \in 1 .. Len(s) /\ s[n] \in S
<1>1. s # <<>> /\ n \in 1 .. Len(s)
  OBVIOUS
<1>2. QED
  BY <1>1

LEMMA Appended ==
  ASSUME NEW S, NEW s \in Seq(S), NEW n \in Nat, n = Len(s), NEW e \in S
  PROVE  /\ Len(Append(s, e)) = n + 1
         /\ \A i \in 1 .. n : Append(s, e)[i] = s[i]
  OBVIOUS

LEMMA Replaced ==
  ASSUME NEW S, NEW s \in Seq(S), NEW n \in Nat, n = Len(s), n # 0, NEW e \in S
  PROVE  /\ Len([s EXCEPT ![n] = e]) = n
         /\ [s EXCEPT ![n] = e][n] = e
         /\ \A i \in 1 .. n - 1 : [s EXCEPT ![n] = e][i] = s[i]
  BY NonEmpty

-----------------------------------------------------------------------------
(* The parser's state and the nesting                                      *)

MapStates   == {"map_start", "map_sep", "map_need_val", "map_got_val", "map_need_key"}
ArrayStates == {"array_start", "array_got_val", "array_need_val"}

(* The variables have their types, but for the bound on the level.         *)
Typed ==
  /\ states \in Seq(ParserStates) /\ states # <<>>
  /\ level \in Int
  /\ stack \in [0 .. MaxLevel - 1 -> Brackets \cup {"none"}]
  /\ keys \in [0 .. MaxLevel - 1 -> Keys \cup {NULL}]
  /\ nesting \in Seq(Containers)

FlagsTyped ==
  /\ gotVersion \in BOOLEAN /\ odd \in BOOLEAN
  /\ ended \in BOOLEAN /\ unended \in BOOLEAN

(* An open array or map with another one inside it waits for its end, and  *)
(* a map has a key.                                                        *)
Outer(i) ==
  \/ nesting[i].kind = "lbrace" /\ states[i + 1] = "map_got_val" /\ nesting[i].key \in Keys
  \/ nesting[i].kind = "lbracket" /\ states[i + 1] = "array_got_val" /\ nesting[i].key = NULL

(* The innermost one is where the parser is.                               *)
Inner(i) ==
  \/ states[i + 1] = "error"
  \/ nesting[i].kind = "lbrace" /\ states[i + 1] = "map_start" /\ nesting[i].key = NULL
  \/ nesting[i].kind = "lbrace" /\ states[i + 1] \in MapStates \ {"map_start"}
                           /\ nesting[i].key \in Keys
  \/ nesting[i].kind = "lbracket" /\ states[i + 1] \in ArrayStates /\ nesting[i].key = NULL

Lengths ==
  /\ Len(states) = Len(nesting) + 1
  /\ Len(nesting) <= MaxDepth

ParserFollowsNesting ==
  /\ nesting = <<>> => states[1] \in {"start", "complete", "error"}
  /\ nesting # <<>> => states[1] = "complete"
  /\ \A i \in 1 .. Len(nesting) - 1 : Outer(i)
  /\ nesting # <<>> => Inner(Len(nesting))

Shape == Typed /\ Lengths /\ ParserFollowsNesting /\ HelperFollowsNesting

(* The arrays and maps further out are as they were.                       *)
LEMMA OuterKept ==
  ASSUME NEW i \in Int, Outer(i), nesting'[i] = nesting[i], states'[i + 1] = states[i + 1]
  PROVE  Outer(i)'
  BY DEF Outer

(* What the helper keeps of the nesting, one level at a time.              *)
KeptAt(i) ==
  IF i < level THEN stack[i] = nesting[i + 1].kind /\ keys[i] = nesting[i + 1].key
               ELSE keys[i] = NULL

LEMMA ShapeInit == Init => Shape /\ FlagsTyped
<1> SUFFICES ASSUME Init PROVE Shape /\ FlagsTyped
  OBVIOUS
<1>1. Typed
  BY DEF Init, Typed, ParserStates
<1>2. Lengths /\ ParserFollowsNesting
  BY PathsAssumption DEF Init, Lengths, ParserFollowsNesting
<1>3. HelperFollowsNesting
  BY DEF Init, HelperFollowsNesting
<1>4. FlagsTyped
  BY DEF Init, FlagsTyped
<1>5. QED
  BY <1>1, <1>2, <1>3, <1>4 DEF Shape

LEMMA ShapeStutters ==
  Shape /\ UNCHANGED <<states, level, stack, keys, nesting>> => Shape'
<1> SUFFICES ASSUME Shape, UNCHANGED <<states, level, stack, keys, nesting>> PROVE Shape'
  OBVIOUS
<1>1. Typed' /\ Lengths'
  BY DEF Shape, Typed, Lengths
<1>2. ParserFollowsNesting'
  BY DEF Shape, ParserFollowsNesting, Outer, Inner
<1>3. HelperFollowsNesting'
  BY DEF Shape, HelperFollowsNesting
<1>4. QED
  BY <1>1, <1>2, <1>3 DEF Shape

(* A token inside the innermost array or map.                              *)
LEMMA ShapeInside == Shape /\ (Scalar \/ Colon \/ Comma \/ ParseError) => Shape'
<1> SUFFICES ASSUME Shape, Scalar \/ Colon \/ Comma \/ ParseError PROVE Shape'
  OBVIOUS
<1> PICK n \in Nat : n = Len(nesting)
  BY DEF Shape, Typed
<1>0. /\ n = Len(nesting) /\ states \in Seq(ParserStates) /\ Len(states) = n + 1
      /\ Top = states[n + 1]
  BY DEF Shape, Typed, Lengths, Top
<1>1. PICK s \in ParserStates :
        /\ Becomes(s) /\ UNCHANGED <<level, stack, keys, nesting>>
        /\ \/ Top = "start" /\ s = "complete"
           \/ Top = "map_need_val" /\ s = "map_got_val"
           \/ Top \in {"array_start", "array_need_val"} /\ s = "array_got_val"
           \/ Top = "map_sep" /\ s = "map_need_val"
           \/ Top = "map_got_val" /\ s = "map_need_key"
           \/ Top = "array_got_val" /\ s = "array_need_val"
           \/ s = "error"
  BY DEF Scalar, Colon, Comma, ParseError, ExpectsValue, Advanced, helperVars, ParserStates
<1>2. /\ states' \in Seq(ParserStates) /\ Len(states') = Len(states)
      /\ \A i \in 1 .. n : states'[i] = states[i]
      /\ states'[n + 1] = s
  BY <1>0, <1>1 DEF Becomes
<1>3. Typed' /\ Lengths'
  BY <1>0, <1>1, <1>2 DEF Shape, Typed, Lengths
<1>4. ASSUME nesting = <<>> PROVE states'[1] \in {"start", "complete", "error"}
  BY <1>0, <1>1, <1>2, <1>4 DEF Shape, ParserFollowsNesting
<1>5. ASSUME nesting # <<>> PROVE states'[1] = "complete" /\ Inner(n)'
  <2>1. states[1] = "complete" /\ Inner(n)
    BY <1>0, <1>5 DEF Shape, ParserFollowsNesting
  <2>2. n # 0
    BY <1>0, <1>5 DEF Shape, Typed
  <2>3. states'[1] = "complete"
    BY <1>2, <2>1, <2>2
  <2>4. Inner(n)'
    BY <1>0, <1>1, <1>2, <2>1 DEF Inner, MapStates, ArrayStates
  <2>5. QED
    BY <2>3, <2>4
<1>6. ASSUME NEW i \in 1 .. n - 1 PROVE Outer(i)'
  <2>1. Outer(i)
    BY <1>0 DEF Shape, ParserFollowsNesting
  <2>2. i \in Int /\ i + 1 \in 1 .. n
    OBVIOUS
  <2>3. QED
    BY <1>1, <1>2, <2>1, <2>2, OuterKept
<1>7. ParserFollowsNesting'
  BY <1>0, <1>1, <1>4, <1>5, <1>6 DEF ParserFollowsNesting
<1>8. HelperFollowsNesting'
  BY <1>1 DEF Shape, HelperFollowsNesting
<1>9. QED
  BY <1>3, <1>7, <1>8 DEF Shape

LEMMA ShapeStart == Shape /\ (StartMap \/ StartArray) => Shape'
<1> SUFFICES ASSUME Shape, StartMap \/ StartArray PROVE Shape'
  OBVIOUS
<1> PICK n \in Nat : n = Len(nesting)
  BY DEF Shape, Typed
<1>0. /\ n = Len(nesting) /\ states \in Seq(ParserStates) /\ Len(states) = n + 1
      /\ Top = states[n + 1] /\ level = n
      /\ nesting \in Seq(Containers)
      /\ stack \in [0 .. MaxLevel - 1 -> Brackets \cup {"none"}]
      /\ keys \in [0 .. MaxLevel - 1 -> Keys \cup {NULL}]
  BY DEF Shape, Typed, Lengths, Top, HelperFollowsNesting
<1>1. PICK b \in Brackets, s \in ParserStates, r \in ParserStates :
        /\ (b = "lbrace" /\ s = "map_start") \/ (b = "lbracket" /\ s = "array_start")
        /\ n < MaxDepth /\ Start(b)
        /\ states' = Append([states EXCEPT ![Len(states)] = r], s)
        /\ \/ Top = "start" /\ r = "complete"
           \/ Top = "map_need_val" /\ r = "map_got_val"
           \/ Top \in {"array_start", "array_need_val"} /\ r = "array_got_val"
  <2>1. ExpectsValue
    BY DEF StartMap, StartArray
  <2>2. PICK r \in ParserStates :
          /\ r = Advanced[Top]
          /\ \/ Top = "start" /\ r = "complete"
             \/ Top = "map_need_val" /\ r = "map_got_val"
             \/ Top \in {"array_start", "array_need_val"} /\ r = "array_got_val"
    BY <2>1 DEF ExpectsValue, Advanced, ParserStates
  <2>3. PICK b \in Brackets, s \in ParserStates :
          /\ (b = "lbrace" /\ s = "map_start") \/ (b = "lbracket" /\ s = "array_start")
          /\ n < MaxDepth /\ Start(b)
          /\ states' = Append([states EXCEPT ![Len(states)] = Advanced[Top]], s)
    <3>1. CASE StartMap
      <4>1. "lbrace" \in Brackets /\ "map_start" \in ParserStates
        BY DEF Brackets, ParserStates
      <4>2. /\ n < MaxDepth /\ Start("lbrace")
            /\ states' = Append([states EXCEPT ![Len(states)] = Advanced[Top]], "map_start")
        BY <1>0, <3>1 DEF StartMap
      <4>3. QED
        BY <4>1, <4>2
    <3>2. CASE StartArray
      <4>1. "lbracket" \in Brackets /\ "array_start" \in ParserStates
        BY DEF Brackets, ParserStates
      <4>2. /\ n < MaxDepth /\ Start("lbracket")
            /\ states' = Append([states EXCEPT ![Len(states)] = Advanced[Top]], "array_start")
        BY <1>0, <3>2 DEF StartArray
      <4>3. QED
        BY <4>1, <4>2
    <3>3. QED
      BY <3>1, <3>2
  <2>4. QED
    BY <2>2, <2>3
<1>2. /\ states' \in Seq(ParserStates) /\ Len(states') = n + 2
      /\ \A i \in 1 .. n : states'[i] = states[i]
      /\ states'[n + 1] = r /\ states'[n + 2] = s
  <2>1. [states EXCEPT ![Len(states)] = r] \in Seq(ParserStates)
    BY <1>0
  <2>2. states' = Append([states EXCEPT ![n + 1] = r], s)
    BY <1>0, <1>1
  <2>3. QED
    BY <1>0, <2>1, <2>2
<1>3. /\ nesting' = Append(nesting, [kind |-> b, key |-> NULL])
      /\ [kind |-> b, key |-> NULL] \in Containers
  BY <1>1 DEF Start, Containers
<1>4. /\ nesting' \in Seq(Containers) /\ Len(nesting') = n + 1
      /\ \A i \in 1 .. n : nesting'[i] = nesting[i]
      /\ nesting'[n + 1].kind = b /\ nesting'[n + 1].key = NULL
  BY <1>0, <1>3
<1>5. /\ level' = n + 1 /\ keys' = keys
      /\ stack' = IF n < MaxLevel THEN [stack EXCEPT ![n] = b] ELSE stack
  BY <1>0, <1>1 DEF Start
<1>6. Typed'
  <2>1. states' # <<>> /\ level' \in Int
    BY <1>2, <1>5
  <2>2. stack' \in [0 .. MaxLevel - 1 -> Brackets \cup {"none"}]
    BY <1>5 DEF Shape, Typed
  <2>3. QED
    BY <1>2, <1>4, <1>5, <2>1, <2>2 DEF Shape, Typed
<1>7. Lengths'
  <2>1. n < MaxDepth
    BY <1>1
  <2>2. QED
    BY <1>2, <1>4, <2>1, PathsAssumption DEF Lengths
<1>8. ASSUME NEW i \in 1 .. n - 1 PROVE Outer(i)'
  <2>1. Outer(i)
    BY <1>0 DEF Shape, ParserFollowsNesting
  <2>2. i \in Int /\ i \in 1 .. n /\ i + 1 \in 1 .. n
    OBVIOUS
  <2>3. QED
    BY <1>2, <1>4, <2>1, <2>2, OuterKept
<1>9. ASSUME n # 0 PROVE Outer(n)'
  <2>1. nesting # <<>>
    BY <1>0, <1>9
  <2>2. Inner(n) /\ states'[n + 1] = r /\ nesting'[n] = nesting[n] /\ states[1] = "complete"
    BY <1>0, <1>2, <1>4, <1>9, <2>1 DEF Shape, ParserFollowsNesting
  <2>3. Top # "start"
    BY <1>0, <2>2 DEF Inner, MapStates, ArrayStates
  <2>4. QED
    BY <1>0, <1>1, <2>2, <2>3 DEF Outer, Inner, ArrayStates, MapStates
<1>10. Inner(n + 1)'
  <2>1. states'[(n + 1) + 1] = s
    BY <1>2
  <2>2. QED
    BY <1>1, <1>4, <2>1 DEF Inner, ArrayStates
<1>11. states'[1] = "complete"
  <2>1. CASE n = 0
    <3>1. Top \in {"start", "complete", "error"}
      BY <1>0, <2>1 DEF Shape, ParserFollowsNesting
    <3>2. r = "complete"
      BY <1>1, <3>1
    <3>3. QED
      BY <1>2, <2>1, <3>2
  <2>2. CASE n # 0
    BY <1>0, <1>2, <2>2 DEF Shape, ParserFollowsNesting
  <2>3. QED
    BY <2>1, <2>2
<1>12. ParserFollowsNesting'
  <2>1. \A i \in 1 .. n : Outer(i)'
    BY <1>8, <1>9
  <2>2. nesting' # <<>> /\ Len(nesting') - 1 = n
    BY <1>4
  <2>3. QED
    BY <1>4, <1>10, <1>11, <2>1, <2>2 DEF ParserFollowsNesting
<1>13. HelperFollowsNesting'
  <2>1. ASSUME NEW i \in 0 .. MaxLevel - 1 PROVE KeptAt(i)'
    <3>1. KeptAt(i)
      BY DEF Shape, HelperFollowsNesting, KeptAt
    <3>2. i < n => nesting'[i + 1] = nesting[i + 1]
      BY <1>4
    <3>3. stack'[i] = IF i = n THEN b ELSE stack[i]
      BY <1>0, <1>5, PathsAssumption
    <3>4. QED
      BY <1>0, <1>4, <1>5, <3>1, <3>2, <3>3 DEF KeptAt
  <2>2. QED
    BY <1>4, <1>5, <2>1 DEF HelperFollowsNesting, KeptAt
<1>14. QED
  BY <1>6, <1>7, <1>12, <1>13 DEF Shape

LEMMA ShapeKey == ASSUME Shape, NEW k \in Keys, MapKey(k) PROVE Shape'
<1> PICK n \in Nat : n = Len(nesting)
  BY DEF Shape, Typed
<1>0. /\ n = Len(nesting) /\ states \in Seq(ParserStates) /\ Len(states) = n + 1
      /\ Top = states[n + 1] /\ level = n
      /\ nesting \in Seq(Containers)
      /\ stack \in [0 .. MaxLevel - 1 -> Brackets \cup {"none"}]
      /\ keys \in [0 .. MaxLevel - 1 -> Keys \cup {NULL}]
  BY DEF Shape, Typed, Lengths, Top, HelperFollowsNesting
<1>n. n # 0 /\ n \in 1 .. n /\ 1 \in 1 .. n /\ nesting # <<>>
  <2>1. n # 0 /\ nesting # <<>>
    BY <1>0 DEF MapKey, Shape, ParserFollowsNesting
  <2>2. QED
    BY <2>1
<1>1. nesting[n].kind = "lbrace" /\ nesting[n] \in Containers
  <2>1. Inner(n) /\ nesting[n] \in Containers
    BY <1>0, <1>n DEF Shape, ParserFollowsNesting
  <2>2. QED
    BY <1>0, <2>1 DEF Inner, MapKey, ArrayStates
<1>2. /\ states' \in Seq(ParserStates) /\ Len(states') = n + 1
      /\ \A i \in 1 .. n : states'[i] = states[i]
      /\ states'[n + 1] = "map_sep"
  BY <1>0 DEF MapKey, Becomes, ParserStates
<1>3. /\ nesting' \in Seq(Containers) /\ Len(nesting') = n
      /\ \A i \in 1 .. n - 1 : nesting'[i] = nesting[i]
      /\ nesting'[n].kind = "lbrace" /\ nesting'[n].key = k
  <2>1. PICK c \in Containers : nesting' = [nesting EXCEPT ![n] = c] /\ c.kind = "lbrace" /\ c.key = k
    <3>1. nesting' = [nesting EXCEPT ![n] = [nesting[n] EXCEPT !.key = k]]
      BY <1>0 DEF MapKey
    <3>2. /\ [nesting[n] EXCEPT !.key = k] \in Containers
          /\ [nesting[n] EXCEPT !.key = k].kind = "lbrace" /\ [nesting[n] EXCEPT !.key = k].key = k
      BY <1>1 DEF Containers
    <3>3. QED
      BY <3>1, <3>2
  <2>2. nesting' = [nesting EXCEPT ![n] = c]
    BY <2>1
  <2>3. /\ nesting' \in Seq(Containers) /\ Len(nesting') = n
        /\ \A i \in 1 .. n - 1 : nesting'[i] = nesting[i]
        /\ nesting'[n] = c
    BY <1>0, <1>n, <2>2
  <2>4. QED
    BY <2>1, <2>3
<1>4. /\ level' = level /\ stack' = stack
      /\ keys' = IF n <= MaxLevel THEN [keys EXCEPT ![n - 1] = k] ELSE keys
  BY <1>0 DEF MapKey
<1>5. Typed'
  <2>1. states' # <<>>
    BY <1>2
  <2>2. keys' \in [0 .. MaxLevel - 1 -> Keys \cup {NULL}]
    BY <1>4 DEF Shape, Typed
  <2>3. QED
    BY <1>2, <1>3, <1>4, <2>1, <2>2 DEF Shape, Typed
<1>6. Lengths'
  BY <1>0, <1>2, <1>3 DEF Shape, Lengths
<1>7. ASSUME NEW i \in 1 .. n - 1 PROVE Outer(i)'
  <2>1. Outer(i)
    BY <1>0 DEF Shape, ParserFollowsNesting
  <2>2. i \in Int /\ i + 1 \in 1 .. n
    OBVIOUS
  <2>3. QED
    BY <1>2, <1>3, <2>1, <2>2, OuterKept
<1>8. Inner(n)'
  BY <1>2, <1>3 DEF Inner, MapStates
<1>9. states'[1] = "complete"
  <2>1. states'[1] = states[1]
    BY <1>2, <1>n
  <2>2. QED
    BY <1>n, <2>1 DEF Shape, ParserFollowsNesting
<1>10. ParserFollowsNesting'
  <2>1. nesting' # <<>>
    BY <1>3, <1>n
  <2>2. QED
    BY <1>3, <1>7, <1>8, <1>9, <2>1 DEF ParserFollowsNesting
<1>11. HelperFollowsNesting'
  <2>1. ASSUME NEW i \in 0 .. MaxLevel - 1 PROVE KeptAt(i)'
    <3>1. KeptAt(i)
      BY DEF Shape, HelperFollowsNesting, KeptAt
    <3>2. /\ i < n - 1 => i + 1 \in 1 .. n - 1
          /\ i = n - 1 => i + 1 = n
      BY PathsAssumption
    <3>3. i < n => /\ nesting'[i + 1].kind = nesting[i + 1].kind
                   /\ nesting'[i + 1].key = IF i = n - 1 THEN k ELSE nesting[i + 1].key
      <4>1. CASE i < n - 1
        BY <1>3, <3>2, <4>1
      <4>2. CASE i = n - 1
        BY <1>1, <1>3, <3>2, <4>2
      <4>3. QED
        BY <4>1, <4>2, PathsAssumption
    <3>4. keys'[i] = IF i = n - 1 THEN k ELSE keys[i]
      BY <1>0, <1>4, PathsAssumption
    <3>5. QED
      BY <1>0, <1>4, <3>1, <3>3, <3>4, PathsAssumption DEF KeptAt
  <2>2. QED
    BY <1>0, <1>3, <1>4, <2>1 DEF HelperFollowsNesting, KeptAt
<1>12. QED
  BY <1>5, <1>6, <1>10, <1>11 DEF Shape

LEMMA ShapeEnd == Shape /\ (EndMap \/ EndArray) => Shape'
<1> SUFFICES ASSUME Shape, EndMap \/ EndArray PROVE Shape'
  OBVIOUS
<1> PICK n \in Nat : n = Len(nesting)
  BY DEF Shape, Typed
<1>0. /\ n = Len(nesting) /\ states \in Seq(ParserStates) /\ Len(states) = n + 1
      /\ Top = states[n + 1] /\ level = n
      /\ nesting \in Seq(Containers)
      /\ stack \in [0 .. MaxLevel - 1 -> Brackets \cup {"none"}]
      /\ keys \in [0 .. MaxLevel - 1 -> Keys \cup {NULL}]
  BY DEF Shape, Typed, Lengths, Top, HelperFollowsNesting
<1>1. /\ n # 0 /\ Inner(n)
      /\ EndArray => nesting[n].key = NULL
  <2>1. Top \in {"map_start", "map_got_val", "array_start", "array_got_val"}
    BY DEF EndMap, EndArray
  <2>2. n # 0
    BY <1>0, <2>1 DEF Shape, ParserFollowsNesting
  <2>3. Inner(n)
    BY <1>0, <2>2 DEF Shape, ParserFollowsNesting
  <2>4. QED
    BY <1>0, <2>2, <2>3 DEF EndArray, Inner, MapStates
<1>2. states' = SubSeq(states, 1, n) /\ nesting' = SubSeq(nesting, 1, n - 1)
  BY <1>0 DEF EndMap, EndArray, Ends, Front
<1>3. /\ states' \in Seq(ParserStates) /\ Len(states') = n
      /\ \A i \in 1 .. n : states'[i] = states[i]
  BY <1>0, <1>1, <1>2
<1>4. /\ nesting' \in Seq(Containers) /\ Len(nesting') = n - 1
      /\ \A i \in 1 .. n - 1 : nesting'[i] = nesting[i]
  BY <1>0, <1>1, <1>2
<1>5. /\ level' = n - 1 /\ stack' = stack
      /\ \/ keys' = [keys EXCEPT ![n - 1] = NULL]
         \/ keys' = keys /\ (n - 1 >= MaxLevel \/ nesting[n].key = NULL)
  BY <1>0, <1>1, PathsAssumption DEF EndMap, EndArray, Ends
<1>6. Typed'
  <2>1. states' # <<>>
    BY <1>1, <1>3
  <2>2. keys' \in [0 .. MaxLevel - 1 -> Keys \cup {NULL}]
    BY <1>5 DEF Shape, Typed
  <2>3. QED
    BY <1>3, <1>4, <1>5, <2>1, <2>2 DEF Shape, Typed
<1>7. Lengths'
  BY <1>0, <1>3, <1>4, PathsAssumption DEF Shape, Lengths
<1>8. ASSUME NEW i \in 1 .. (n - 1) - 1 PROVE Outer(i)'
  <2>1. i \in Int /\ i \in 1 .. n - 1 /\ i + 1 \in 1 .. n
    OBVIOUS
  <2>2. Outer(i)
    BY <1>0, <2>1 DEF Shape, ParserFollowsNesting
  <2>3. QED
    BY <1>3, <1>4, <2>1, <2>2, OuterKept
<1>9. ASSUME n # 1 PROVE Inner(n - 1)'
  <2>1. Outer(n - 1)
    BY <1>0, <1>1, <1>9 DEF Shape, ParserFollowsNesting
  <2>2. (n - 1) + 1 \in 1 .. n /\ n - 1 \in 1 .. n - 1
    BY <1>1, <1>9
  <2>3. QED
    BY <1>3, <1>4, <2>1, <2>2 DEF Outer, Inner, MapStates, ArrayStates
<1>10. states'[1] = "complete"
  <2>1. nesting # <<>> /\ states'[1] = states[1]
    BY <1>0, <1>1, <1>3
  <2>2. QED
    BY <2>1 DEF Shape, ParserFollowsNesting
<1>11. ParserFollowsNesting'
  <2>1. nesting' # <<>> => n # 1
    BY <1>4
  <2>2. Len(nesting') - 1 = (n - 1) - 1
    BY <1>4
  <2>3. QED
    BY <1>4, <1>8, <1>9, <1>10, <2>1, <2>2 DEF ParserFollowsNesting
<1>12. HelperFollowsNesting'
  <2>1. ASSUME NEW i \in 0 .. MaxLevel - 1 PROVE KeptAt(i)'
    <3>1. KeptAt(i)
      BY DEF Shape, HelperFollowsNesting, KeptAt
    <3>2. i < n - 1 => nesting'[i + 1] = nesting[i + 1]
      BY <1>4
    <3>3. keys'[i] = IF i = n - 1 THEN NULL ELSE keys[i]
      BY <1>0, <1>1, <1>5, <3>1, PathsAssumption DEF KeptAt
    <3>4. QED
      BY <1>0, <1>5, <3>1, <3>2, <3>3 DEF KeptAt
  <2>2. QED
    BY <1>4, <1>5, <2>1 DEF HelperFollowsNesting, KeptAt
<1>13. QED
  BY <1>6, <1>7, <1>11, <1>12 DEF Shape

LEMMA ShapeStep == Shape /\ [Next]_vars => Shape'
<1>1. Shape /\ UNCHANGED vars => Shape'
  BY ShapeStutters DEF vars, yajlVars, helperVars
<1>2. Shape /\ Next => Shape'
  BY ShapeInside, ShapeStart, ShapeKey, ShapeEnd DEF Next
<1>3. QED
  BY <1>1, <1>2

LEMMA FlagsStep == FlagsTyped /\ [Next]_vars => FlagsTyped'
<1>1. FlagsTyped /\ UNCHANGED vars => FlagsTyped'
  BY DEF FlagsTyped, vars
<1>2. FlagsTyped /\ (Scalar \/ Colon \/ Comma \/ ParseError) => FlagsTyped'
  BY DEF FlagsTyped, Scalar, Colon, Comma, ParseError
<1>3. FlagsTyped /\ (StartMap \/ StartArray) => FlagsTyped'
  BY DEF FlagsTyped, StartMap, StartArray, Start
<1>4. ASSUME NEW k \in Keys, FlagsTyped, MapKey(k) PROVE FlagsTyped'
  BY <1>4 DEF FlagsTyped, MapKey
<1>5. FlagsTyped /\ (EndMap \/ EndArray) => FlagsTyped'
  BY DEF FlagsTyped, EndMap, EndArray, Ends
<1>6. QED
  BY <1>1, <1>2, <1>3, <1>4, <1>5 DEF Next

(* In every document, of any depth and with any keys, every variable has   *)
(* its type.                                                               *)
THEOREM TypeCorrect == Spec => []TypeOK
<1>1. Init => Shape /\ FlagsTyped
  BY ShapeInit
<1>2. Shape /\ FlagsTyped /\ [Next]_vars => (Shape /\ FlagsTyped)'
  BY ShapeStep, FlagsStep
<1>3. Shape /\ FlagsTyped => TypeOK
  <2>1. Shape => level \in 0 .. MaxDepth
    BY PathsAssumption DEF Shape, Typed, Lengths, HelperFollowsNesting
  <2>2. QED
    BY <2>1 DEF Shape, Typed, FlagsTyped, TypeOK
<1>4. QED
  BY <1>1, <1>2, <1>3, PTL DEF Spec

(* The level, the parents and the keys that yajl_helper.c keeps are those  *)
(* of the nesting, whatever follows whatever: nothing of an array or a map *)
(* that has ended is left in them where a later one looks.                 *)
THEOREM HelperFollows == Spec => []HelperFollowsNesting
<1>1. Init => Shape
  BY ShapeInit
<1>2. Shape => HelperFollowsNesting
  BY DEF Shape
<1>3. QED
  BY <1>1, <1>2, ShapeStep, PTL DEF Spec

-----------------------------------------------------------------------------
(* Matching a path, when keys contain no brackets                          *)

(* What keys and paths are made of.                                        *)
Words ==
  STRING \cup {"lbrace", "lbracket", "items", "version", "enclosure", "mismatch"}

(* No bracket has been read in a key that is still there.                  *)
PlainKeys ==
  ~odd => \A i \in 1 .. Len(nesting) : nesting[i].key # NULL => Plain(nesting[i].key)

KeyIsPlain(i) == keys[i] # NULL => keys[i] \in Seq(Words) /\ Plain(keys[i])

LEMMA ShortOrLong ==
  ASSUME NEW S, NEW s \in Seq(S)
  PROVE  s = <<>> \/ Len(s) = 1 \/ Len(s) >= 2
<1>1. Len(s) # 0 => Len(s) >= 1
  OBVIOUS
<1>2. Len(s) = 0 => s = <<>>
  OBVIOUS
<1>3. PICK n \in Nat : n = Len(s)
  OBVIOUS
<1>4. n = 0 \/ n = 1 \/ n >= 2
  OBVIOUS
<1>5. QED
  BY <1>2, <1>3, <1>4

LEMMA Concatenated ==
  ASSUME NEW S, NEW s \in Seq(S), NEW t \in Seq(S)
  PROVE  /\ s \o t \in Seq(S) /\ Len(s \o t) = Len(s) + Len(t)
         /\ \A i \in 1 .. Len(s) : (s \o t)[i] = s[i]
         /\ \A i \in Len(s) + 1 .. Len(s) + Len(t) : (s \o t)[i] = t[i - Len(s)]
  OBVIOUS

LEMMA TailOf ==
  ASSUME NEW S, NEW s \in Seq(S), Len(s) >= 2
  PROVE  Tail(s) \in Seq(S) /\ Tail(s) # <<>> /\ Tail(s)[1] = s[2]
<1>1. PICK n \in Nat : n = Len(s) /\ n >= 2
  OBVIOUS
<1>2. /\ s # <<>> /\ Tail(s) \in Seq(S) /\ Len(Tail(s)) = n - 1
  BY <1>1
<1>3. n - 1 # 0 /\ 1 \in 1 .. n - 1
  BY <1>1
<1>4. PICK u \in Seq(S) : u = Tail(s)
  BY <1>2
<1>5. u # <<>>
  BY <1>2, <1>3, <1>4
<1>6. Tail(s)[1] = s[1 + 1]
  BY <1>2, <1>3
<1>7. QED
  BY <1>2, <1>4, <1>5, <1>6

LEMMA Single ==
  ASSUME NEW S, NEW s \in Seq(S), Len(s) = 1
  PROVE  s = <<s[1]>>
  OBVIOUS

LEMMA Dead ==
  ASSUME NEW i \in 0 .. MaxLevel - 1, stack[i] \in Brackets \cup {"none"},
         NEW rest \in Seq(Words), rest # <<>>, rest[1] \notin Brackets \cup {"none"}
  PROVE  Behind(rest, i) = Mismatch
<1>1. Head(rest) # stack[i]
  OBVIOUS
<1>2. QED
  BY <1>1 DEF Behind

LEMMA MismatchStays ==
  ASSUME NEW i \in 0 .. MaxLevel - 1, stack[i] \in Brackets \cup {"none"}
  PROVE  Behind(Mismatch, i) = Mismatch
<1>1. Mismatch \in Seq(Words) /\ Mismatch # <<>> /\ Mismatch[1] = "mismatch"
  BY DEF Mismatch, Words
<1>2. "mismatch" \notin Brackets \cup {"none"}
  BY DEF Brackets
<1>3. QED
  BY <1>1, <1>2, Dead

(* The name of a field is matched by exactly that key, but for the empty   *)
(* key, after which the next round compares the name with a parent.        *)
LEMMA WordMatched ==
  ASSUME NEW i \in 0 .. MaxLevel - 1, KeyIsPlain(i),
         NEW rest \in Seq(Words), Len(rest) >= 3,
         rest[1] = "lbrace", rest[2] \notin Brackets, rest[3] \in Brackets
  PROVE  Behind(rest, i) =
           IF stack[i] = "lbrace" /\ keys[i] # NULL /\ keys[i] = <<rest[2]>>
           THEN SubSeq(rest, 3, Len(rest))
           ELSE IF stack[i] = "lbrace" /\ keys[i] # NULL /\ keys[i] = <<>> THEN Tail(rest)
           ELSE Mismatch
<1> DEFINE k == keys[i]
<1>1. Head(rest) = "lbrace" /\ Len(rest) > 1 /\ rest # <<>>
  OBVIOUS
<1>2. /\ Tail(rest) \in Seq(Words) /\ Len(Tail(rest)) = Len(rest) - 1
      /\ Tail(rest)[1] = rest[2] /\ Tail(rest)[2] = rest[3]
  OBVIOUS
<1>3. CASE k = NULL
  BY <1>1, <1>3 DEF Behind
<1>4. CASE k # NULL /\ k = <<>>
  <2>1. IsPrefix(k, Tail(rest))
    BY <1>2, <1>4 DEF IsPrefix
  <2>2. SubSeq(rest, 0 + 2, Len(rest)) = Tail(rest)
    OBVIOUS
  <2>3. Len(k) = 0 /\ k # <<rest[2]>>
    BY <1>4
  <2>4. QED
    BY <1>1, <1>4, <2>1, <2>2, <2>3 DEF Behind
<1>5. CASE k # NULL /\ Len(k) = 1
  BY <1>1, <1>5 DEF Behind, KeyIsPlain, IsPrefix
<1>6. CASE k # NULL /\ Len(k) >= 2
  BY <1>1, <1>6 DEF Behind, KeyIsPlain, IsPrefix, Plain
<1>7. ASSUME k # NULL PROVE k = <<>> \/ Len(k) = 1 \/ Len(k) >= 2
  BY <1>7, ShortOrLong DEF KeyIsPlain
<1>8. QED
  BY <1>3, <1>4, <1>5, <1>6, <1>7

LEMMA BracketMatched ==
  ASSUME NEW i \in 0 .. MaxLevel - 1,
         NEW rest \in Seq(Words), rest # <<>>, rest[1] = "lbracket" \/ Len(rest) = 1
  PROVE  Behind(rest, i) = IF stack[i] = rest[1] THEN Tail(rest) ELSE Mismatch
<1>1. Head(rest) = rest[1]
  OBVIOUS
<1>2. CASE rest[1] = "lbracket"
  BY <1>1, <1>2 DEF Behind
<1>3. CASE Len(rest) = 1
  BY <1>1, <1>3 DEF Behind
<1>4. QED
  BY <1>2, <1>3

LEMMA BraceMatched ==
  ASSUME NEW i \in 0 .. MaxLevel - 1
  PROVE  Behind(<<"lbrace">>, i) = IF stack[i] = "lbrace" THEN <<>> ELSE Mismatch
<1>1. <<"lbrace">> \in Seq(Words)
  BY DEF Words
<1>2. /\ <<"lbrace">> # <<>> /\ Len(<<"lbrace">>) = 1 /\ <<"lbrace">>[1] = "lbrace"
      /\ Tail(<<"lbrace">>) = <<>>
  OBVIOUS
<1>3. QED
  BY <1>1, <1>2, BracketMatched

(* What the levels of the helper say about the items array.                *)
HelperIsPlain ==
  \A i \in 0 .. MaxLevel - 1 : stack[i] \in Brackets \cup {"none"} /\ KeyIsPlain(i)

KeyAt(i, w) == stack[i] = "lbrace" /\ keys[i] # NULL /\ keys[i] = <<w>>
InItems     == KeyAt(0, "items") /\ stack[1] = "lbracket"

(* Two rounds get past the items array, with whatever of the path is left. *)
LEMMA ItemsMatched ==
  ASSUME HelperIsPlain, NEW t \in Seq(Words)
  PROVE  Behind2(ItemsPath \o t) = IF InItems THEN t ELSE Mismatch
<1> DEFINE p == ItemsPath \o t
<1> DEFINE q == SubSeq(p, 3, Len(p))
<1>0. /\ 0 \in 0 .. MaxLevel - 1 /\ 1 \in 0 .. MaxLevel - 1
      /\ stack[0] \in Brackets \cup {"none"} /\ stack[1] \in Brackets \cup {"none"}
      /\ KeyIsPlain(0)
  BY PathsAssumption DEF HelperIsPlain
<1>1. /\ p \in Seq(Words) /\ Len(p) = 3 + Len(t)
      /\ p[1] = "lbrace" /\ p[2] = "items" /\ p[3] = "lbracket"
      /\ \A j \in 1 .. Len(t) : p[j + 3] = t[j]
  <2>1. /\ ItemsPath \in Seq(Words) /\ Len(ItemsPath) = 3
        /\ ItemsPath[1] = "lbrace" /\ ItemsPath[2] = "items" /\ ItemsPath[3] = "lbracket"
    BY DEF ItemsPath, Words
  <2>2. /\ p \in Seq(Words) /\ Len(p) = Len(ItemsPath) + Len(t)
        /\ \A j \in 1 .. Len(ItemsPath) : p[j] = ItemsPath[j]
        /\ \A j \in Len(ItemsPath) + 1 .. Len(ItemsPath) + Len(t) : p[j] = t[j - Len(ItemsPath)]
    BY <2>1, Concatenated
  <2>3. ASSUME NEW j \in 1 .. Len(t) PROVE p[j + 3] = t[j]
    <3>1. PICK m \in Nat : m = Len(t)
      OBVIOUS
    <3>2. j + 3 \in 3 + 1 .. 3 + m /\ (j + 3) - 3 = j
      BY <3>1
    <3>3. QED
      BY <2>1, <2>2, <3>1, <3>2
  <2>4. 1 \in 1 .. 3 /\ 2 \in 1 .. 3 /\ 3 \in 1 .. 3
    OBVIOUS
  <2>5. QED
    BY <2>1, <2>2, <2>3, <2>4
<1> HIDE DEF p
<1>2. "items" \notin Brackets \cup {"none"} /\ "lbracket" \in Brackets
  BY DEF Brackets
<1>3. Behind(p, 0) = IF KeyAt(0, "items") THEN q
                     ELSE IF stack[0] = "lbrace" /\ keys[0] # NULL /\ keys[0] = <<>> THEN Tail(p)
                     ELSE Mismatch
  <2>1. Len(p) >= 3
    BY <1>1
  <2>2. QED
    BY <1>0, <1>1, <1>2, <2>1, WordMatched DEF KeyAt
<1>4. Behind(Tail(p), 1) = Mismatch /\ Behind(Mismatch, 1) = Mismatch
  <2>1. Len(p) >= 2
    BY <1>1
  <2>2. Tail(p) \in Seq(Words) /\ Tail(p) # <<>> /\ Tail(p)[1] = "items"
    BY <1>1, <2>1, TailOf
  <2>3. QED
    BY <1>0, <1>2, <2>2, Dead, MismatchStays
<1>5. Behind(q, 1) = IF stack[1] = "lbracket" THEN t ELSE Mismatch
  <2>1. q \in Seq(Words) /\ q # <<>> /\ q[1] = "lbracket" /\ Len(q) = 1 + Len(t)
    BY <1>1
  <2>2. Tail(q) = t
    <3>1. Tail(q) \in Seq(Words) /\ Len(Tail(q)) = Len(t)
      BY <2>1
    <3>2. ASSUME NEW j \in 1 .. Len(t) PROVE Tail(q)[j] = t[j]
      <4>1. Tail(q)[j] = q[j + 1]
        BY <2>1
      <4>2. q[j + 1] = p[j + 3]
        BY <1>1
      <4>3. QED
        BY <1>1, <4>1, <4>2
    <3>3. QED
      BY <3>1, <3>2
  <2>3. QED
    BY <1>0, <2>1, <2>2, BracketMatched
<1>6. QED
  BY <1>3, <1>4, <1>5 DEF Behind2, InItems, p

(* Three rounds find an item, four an object of that name in an item.      *)
LEMMA ItemMatched ==
  ASSUME HelperIsPlain
  PROVE  (Behind3(ItemPath) # Mismatch) <=> (InItems /\ stack[2] = "lbrace")
<1>1. 2 \in 0 .. MaxLevel - 1 /\ stack[2] \in Brackets \cup {"none"}
  BY PathsAssumption DEF HelperIsPlain
<1>2. Behind2(ItemPath) = IF InItems THEN <<"lbrace">> ELSE Mismatch
  <2>1. <<"lbrace">> \in Seq(Words)
    BY DEF Words
  <2>2. QED
    BY <2>1, ItemsMatched DEF ItemPath
<1>3. Behind(<<"lbrace">>, 2) = IF stack[2] = "lbrace" THEN <<>> ELSE Mismatch
  BY <1>1, BraceMatched
<1>4. Behind(Mismatch, 2) = Mismatch /\ Mismatch # <<>>
  BY <1>1, MismatchStays DEF Mismatch
<1>5. QED
  BY <1>2, <1>3, <1>4 DEF Behind3

LEMMA ObjectMatched ==
  ASSUME HelperIsPlain, NEW w \in Words, w \notin Brackets \cup {"none"}
  PROVE  (Behind4(ItemsPath \o <<"lbrace", w, "lbrace">>) # Mismatch)
            <=> (InItems /\ KeyAt(2, w) /\ stack[3] = "lbrace")
<1> DEFINE t == <<"lbrace", w, "lbrace">>
<1>1. /\ 2 \in 0 .. MaxLevel - 1 /\ 3 \in 0 .. MaxLevel - 1
      /\ stack[2] \in Brackets \cup {"none"} /\ stack[3] \in Brackets \cup {"none"}
      /\ KeyIsPlain(2)
  BY PathsAssumption DEF HelperIsPlain
<1>2. /\ t \in Seq(Words) /\ Len(t) = 3 /\ t[1] = "lbrace" /\ t[2] = w /\ t[3] = "lbrace"
  BY DEF Words
<1> HIDE DEF t
<1>3. Behind2(ItemsPath \o t) = IF InItems THEN t ELSE Mismatch
  BY <1>2, ItemsMatched
<1>4. Behind(t, 2) = IF KeyAt(2, w) THEN <<"lbrace">>
                     ELSE IF stack[2] = "lbrace" /\ keys[2] # NULL /\ keys[2] = <<>> THEN Tail(t)
                     ELSE Mismatch
  <2>1. "lbrace" \in Brackets
    BY DEF Brackets
  <2>2. SubSeq(t, 3, Len(t)) = <<"lbrace">>
    <3>1. SubSeq(t, 3, Len(t)) \in Seq(Words) /\ Len(SubSeq(t, 3, Len(t))) = 1
      BY <1>2
    <3>2. SubSeq(t, 3, Len(t))[1] = t[3]
      BY <1>2
    <3>3. SubSeq(t, 3, Len(t)) = <<SubSeq(t, 3, Len(t))[1]>>
      BY <3>1, Single
    <3>4. QED
      BY <1>2, <3>2, <3>3
  <2>3. Len(t) >= 3
    BY <1>2
  <2>4. QED
    BY <1>1, <1>2, <2>1, <2>2, <2>3, WordMatched DEF KeyAt
<1>5. Behind(<<"lbrace">>, 3) = IF stack[3] = "lbrace" THEN <<>> ELSE Mismatch
  BY <1>1, BraceMatched
<1>6. Behind(Tail(t), 3) = Mismatch
  <2>1. Len(t) >= 2
    BY <1>2
  <2>2. Tail(t) \in Seq(Words) /\ Tail(t) # <<>> /\ Tail(t)[1] = w
    BY <1>2, <2>1, TailOf
  <2>3. QED
    BY <1>1, <2>2, Dead
<1>7. /\ Behind(Mismatch, 2) = Mismatch /\ Behind(Mismatch, 3) = Mismatch
      /\ Mismatch # <<>>
  BY <1>1, MismatchStays DEF Mismatch
<1>8. QED
  BY <1>3, <1>4, <1>5, <1>6, <1>7 DEF Behind3, Behind4, t

(* What the helper keeps of a level is what the nesting is there.          *)
LEMMA LevelKept ==
  ASSUME Shape, NEW i \in 1 .. MaxLevel, i <= Len(nesting)
  PROVE  stack[i - 1] = nesting[i].kind /\ keys[i - 1] = nesting[i].key
<1>1. PICK n \in Nat : n = Len(nesting) /\ n = level
  BY DEF Shape, Typed, HelperFollowsNesting
<1>2. i - 1 \in 0 .. MaxLevel - 1 /\ i - 1 < n /\ (i - 1) + 1 = i
  BY <1>1, PathsAssumption
<1>3. KeptAt(i - 1)
  BY <1>2 DEF Shape, HelperFollowsNesting, KeptAt
<1>4. QED
  BY <1>1, <1>2, <1>3 DEF KeptAt

LEMMA OuterKeyed ==
  ASSUME Shape, NEW i \in 1 .. Len(nesting) - 1, nesting[i].kind = "lbrace"
  PROVE  nesting[i].key \in Keys /\ nesting[i].key # NULL
<1>1. Outer(i)
  BY DEF Shape, ParserFollowsNesting
<1>2. nesting[i].key \in Keys
  BY <1>1 DEF Outer
<1>3. QED
  BY <1>2, PathsAssumption

LEMMA InItemsMeans ==
  ASSUME Shape, Len(nesting) >= 3
  PROVE  InItems <=> (IsMap(1, "items") /\ nesting[2].kind = "lbracket")
<1>1. PICK n \in Nat : n = Len(nesting) /\ n >= 3
  BY DEF Shape, Typed
<1>2. /\ 1 \in 1 .. MaxLevel /\ 1 <= Len(nesting) /\ 1 \in 1 .. Len(nesting) - 1
      /\ 2 \in 1 .. MaxLevel /\ 2 <= Len(nesting)
      /\ 1 - 1 = 0 /\ 2 - 1 = 1
  BY <1>1, PathsAssumption
<1>3. /\ stack[0] = nesting[1].kind /\ keys[0] = nesting[1].key
      /\ stack[1] = nesting[2].kind
  BY <1>2, LevelKept
<1>4. nesting[1].kind = "lbrace" => nesting[1].key # NULL
  BY <1>2, OuterKeyed
<1>5. QED
  BY <1>3, <1>4 DEF InItems, KeyAt, IsMap

LEMMA HelperPlain ==
  ASSUME Shape, PlainKeys, ~odd
  PROVE  HelperIsPlain
<1>0. PICK n \in Nat : n = Len(nesting) /\ n = level
  BY DEF Shape, Typed, HelperFollowsNesting
<1> SUFFICES ASSUME NEW i \in 0 .. MaxLevel - 1
             PROVE  stack[i] \in Brackets \cup {"none"} /\ KeyIsPlain(i)
  BY DEF HelperIsPlain
<1>1. stack[i] \in Brackets \cup {"none"} /\ keys[i] \in Keys \cup {NULL}
  BY DEF Shape, Typed
<1>2. ASSUME keys[i] # NULL PROVE keys[i] \in Seq(Words) /\ Plain(keys[i])
  <2>1. KeptAt(i)
    BY DEF Shape, HelperFollowsNesting, KeptAt
  <2>2. i < n /\ keys[i] = nesting[i + 1].key
    BY <1>0, <1>2, <2>1 DEF KeptAt
  <2>3. i + 1 \in 1 .. Len(nesting)
    BY <1>0, <2>2, PathsAssumption
  <2>4. Plain(keys[i])
    BY <1>2, <2>2, <2>3 DEF PlainKeys
  <2>5. keys[i] \in Seq(STRING)
    BY <1>1, <1>2, PathsAssumption
  <2>6. QED
    BY <2>4, <2>5 DEF Words
<1>3. QED
  BY <1>1, <1>2 DEF KeyIsPlain

LEMMA PlainKeysStep == Shape /\ PlainKeys /\ [Next]_vars => PlainKeys'
<1> SUFFICES ASSUME Shape, PlainKeys PROVE [Next]_vars => PlainKeys'
  OBVIOUS
<1>0. nesting \in Seq(Containers) /\ Lengths
  BY DEF Shape, Typed
<1>1. UNCHANGED vars => PlainKeys'
  BY DEF PlainKeys, vars
<1>2. Scalar \/ Colon \/ Comma \/ ParseError => PlainKeys'
  BY DEF PlainKeys, Scalar, Colon, Comma, ParseError
<1>3. ASSUME NEW b \in Brackets, Start(b) PROVE PlainKeys'
  <2>1. /\ nesting' = Append(nesting, [kind |-> b, key |-> NULL]) /\ odd' = odd
        /\ [kind |-> b, key |-> NULL] \in Containers
    BY <1>3 DEF Start, Containers
  <2>2. PICK n \in Nat : n = Len(nesting)
    BY <1>0
  <2>3. /\ Len(nesting') = n + 1 /\ nesting'[n + 1].key = NULL
        /\ \A i \in 1 .. n : nesting'[i] = nesting[i]
    BY <1>0, <2>1, <2>2
  <2>4. QED
    BY <2>1, <2>2, <2>3 DEF PlainKeys
<1>4. ASSUME NEW k \in Keys, MapKey(k) PROVE PlainKeys'
  <2>1. PICK n \in Nat : n = Len(nesting)
    BY <1>0
  <2>2. odd' = (odd \/ ~Plain(k)) /\ nesting' = [nesting EXCEPT ![n] = [nesting[n] EXCEPT !.key = k]]
    BY <1>4, <2>1 DEF MapKey
  <2>3. n # 0
    BY <1>4, <2>1, <1>0 DEF MapKey, Top, Shape, ParserFollowsNesting, Lengths
  <2>4. n \in 1 .. n /\ nesting[n] \in Containers
    BY <1>0, <2>1, <2>3
  <2>5. [nesting[n] EXCEPT !.key = k].key = k /\ [nesting[n] EXCEPT !.key = k] \in Containers
    BY <2>4 DEF Containers
  <2>6. /\ Len(nesting') = n /\ nesting'[n].key = k
        /\ \A i \in 1 .. n - 1 : nesting'[i] = nesting[i]
    BY <1>0, <2>1, <2>2, <2>4, <2>5
  <2>7. ASSUME NEW i \in 1 .. n, ~odd', nesting'[i].key # NULL PROVE Plain(nesting'[i].key)
    <3>1. CASE i = n
      BY <2>2, <2>6, <2>7, <3>1
    <3>2. CASE i \in 1 .. n - 1
      BY <2>1, <2>2, <2>6, <2>7, <3>2 DEF PlainKeys
    <3>3. QED
      BY <3>1, <3>2
  <2>8. QED
    BY <2>6, <2>7 DEF PlainKeys
<1>5. ASSUME EndMap \/ EndArray PROVE PlainKeys'
  <2>1. PICK n \in Nat : n = Len(nesting)
    BY <1>0
  <2>2. nesting' = SubSeq(nesting, 1, n - 1) /\ odd' = odd
    BY <1>5, <2>1 DEF EndMap, EndArray, Ends, Front
  <2>3. /\ Len(nesting') \in Nat /\ Len(nesting') <= n
        /\ \A i \in 1 .. Len(nesting') : nesting'[i] = nesting[i]
    BY <1>0, <2>1, <2>2
  <2>4. QED
    BY <2>1, <2>2, <2>3 DEF PlainKeys
<1>6. (StartMap \/ StartArray) => \E b \in Brackets : Start(b)
  BY DEF StartMap, StartArray, Brackets
<1>7. QED
  BY <1>1, <1>2, <1>3, <1>4, <1>5, <1>6 DEF Next

LEMMA ShapeAndPlain ==
  /\ Init => Shape /\ PlainKeys
  /\ Shape /\ PlainKeys /\ [Next]_vars => (Shape /\ PlainKeys)'
<1>1. Init => PlainKeys
  BY DEF Init, PlainKeys
<1>2. QED
  BY <1>1, ShapeInit, ShapeStep, PlainKeysStep

(* A value is known to be what the nesting says it is for (got_path and    *)
(* the comparisons of sxupdate_process_value).                             *)
LEMMA ValueNamed ==
  ASSUME Shape, PlainKeys, ~odd,
         NEW object \in {"item", "version", "enclosure"},
         NEW field \in ItemFields \cup VersionFields \cup EnclosureFields
  PROVE  Place = <<object, field>> <=> Named(object, field)
<1>1. PICK n \in Nat : n = Len(nesting) /\ n = level
  BY DEF Shape, Typed, HelperFollowsNesting
<1>2. HelperIsPlain
  BY HelperPlain
<1>3. CASE n # 3 /\ n # 4
  BY <1>1, <1>3 DEF Place, Named
<1>4. CASE n = 3
  <2>1. stack[2] = nesting[3].kind /\ keys[2] = nesting[3].key
    <3>1. 3 \in 1 .. MaxLevel /\ 3 <= Len(nesting) /\ 3 - 1 = 2
      BY <1>1, <1>4, PathsAssumption
    <3>2. QED
      BY <3>1, LevelKept
  <2>2. InItems <=> (IsMap(1, "items") /\ nesting[2].kind = "lbracket")
    BY <1>1, <1>4, InItemsMeans
  <2>3. (Behind3(ItemPath) # Mismatch) <=> (InItems /\ stack[2] = "lbrace")
    BY <1>2, ItemMatched
  <2>4. stack[2] = "lbrace" => PropName = keys[2]
    BY <1>1, <1>4, PathsAssumption DEF PropName
  <2>5. CASE InItems /\ stack[2] = "lbrace"
    <3>1. Place = IF Among(ItemFields) THEN <<"item", keys[2][1]>> ELSE <<>>
      BY <1>1, <1>4, <2>3, <2>4, <2>5 DEF Place
    <3>2. Among(ItemFields) <=> \E f \in ItemFields : keys[2] = <<f>>
      BY <2>4, <2>5 DEF Among
    <3>3. Place = <<object, field>> <=> (object = "item" /\ field \in ItemFields /\ keys[2] = <<field>>)
      BY <3>1, <3>2
    <3>4. QED
      BY <1>1, <1>4, <2>1, <2>2, <2>5, <3>3 DEF Named, IsMap
  <2>6. CASE ~(InItems /\ stack[2] = "lbrace")
    <3>1. Place = <<>>
      BY <1>1, <1>4, <2>3, <2>6 DEF Place
    <3>2. QED
      BY <1>1, <1>4, <2>1, <2>2, <2>6, <3>1 DEF Named, IsMap
  <2>7. QED
    BY <2>5, <2>6
<1>5. CASE n = 4
  <2>1. /\ stack[2] = nesting[3].kind /\ keys[2] = nesting[3].key
        /\ stack[3] = nesting[4].kind /\ keys[3] = nesting[4].key
    <3>1. /\ 3 \in 1 .. MaxLevel /\ 3 <= Len(nesting) /\ 3 - 1 = 2
          /\ 4 \in 1 .. MaxLevel /\ 4 <= Len(nesting) /\ 4 - 1 = 3
      BY <1>1, <1>5, PathsAssumption
    <3>2. QED
      BY <3>1, LevelKept
  <2>2. InItems <=> (IsMap(1, "items") /\ nesting[2].kind = "lbracket")
    BY <1>1, <1>5, InItemsMeans
  <2>3. nesting[3].kind = "lbrace" => nesting[3].key # NULL
    <3>1. 3 \in 1 .. Len(nesting) - 1
      BY <1>1, <1>5
    <3>2. QED
      BY <3>1, OuterKeyed
  <2>4. \A w : KeyAt(2, w) <=> IsMap(3, w)
    BY <2>1, <2>3 DEF KeyAt, IsMap
  <2>5. /\ (Behind4(VersionPath) # Mismatch)
             <=> (InItems /\ KeyAt(2, "version") /\ stack[3] = "lbrace")
        /\ (Behind4(EnclosurePath) # Mismatch)
             <=> (InItems /\ KeyAt(2, "enclosure") /\ stack[3] = "lbrace")
    <3>1. /\ "version" \in Words /\ "version" \notin Brackets \cup {"none"}
          /\ "enclosure" \in Words /\ "enclosure" \notin Brackets \cup {"none"}
      BY DEF Words, Brackets
    <3>2. QED
      BY <1>2, <3>1, ObjectMatched DEF VersionPath, EnclosurePath
  <2>6. stack[3] = "lbrace" => PropName = keys[3]
    BY <1>1, <1>5, PathsAssumption DEF PropName
  <2>7. CASE InItems /\ KeyAt(2, "version") /\ stack[3] = "lbrace"
    <3>1. Place = IF Among(VersionFields) THEN <<"version", keys[3][1]>> ELSE <<>>
      BY <1>1, <1>5, <2>5, <2>6, <2>7 DEF Place
    <3>2. Among(VersionFields) <=> \E f \in VersionFields : keys[3] = <<f>>
      BY <2>6, <2>7 DEF Among
    <3>3. Place = <<object, field>>
            <=> (object = "version" /\ field \in VersionFields /\ keys[3] = <<field>>)
      BY <3>1, <3>2
    <3>4. ~IsMap(3, "enclosure")
      BY <2>4, <2>7 DEF IsMap
    <3>5. QED
      BY <1>1, <1>5, <2>1, <2>2, <2>4, <2>7, <3>3, <3>4 DEF Named, IsMap
  <2>8. CASE InItems /\ KeyAt(2, "enclosure") /\ stack[3] = "lbrace"
    <3>1. ~IsMap(3, "version") /\ ~KeyAt(2, "version")
      BY <2>4, <2>8 DEF IsMap
    <3>2. Place = IF Among(EnclosureFields) THEN <<"enclosure", keys[3][1]>> ELSE <<>>
      BY <1>1, <1>5, <2>5, <2>6, <2>8, <3>1 DEF Place
    <3>3. Among(EnclosureFields) <=> \E f \in EnclosureFields : keys[3] = <<f>>
      BY <2>6, <2>8 DEF Among
    <3>4. Place = <<object, field>>
            <=> (object = "enclosure" /\ field \in EnclosureFields /\ keys[3] = <<field>>)
      BY <3>2, <3>3
    <3>5. QED
      BY <1>1, <1>5, <2>1, <2>2, <2>4, <2>8, <3>1, <3>4 DEF Named, IsMap
  <2>9. CASE ~(InItems /\ (KeyAt(2, "version") \/ KeyAt(2, "enclosure")) /\ stack[3] = "lbrace")
    <3>1. Place = <<>>
      BY <1>1, <1>5, <2>5, <2>9 DEF Place
    <3>2. QED
      BY <1>1, <1>5, <2>1, <2>2, <2>4, <2>9, <3>1 DEF Named, IsMap
  <2>10. QED
    BY <2>7, <2>8, <2>9
<1>6. QED
  BY <1>3, <1>4, <1>5

-----------------------------------------------------------------------------
(* The end of an item                                                      *)

(* When a map ends, sxupdate_end_map recognises it exactly if it is an     *)
(* item of the items array.                                                *)
LEMMA EndRecognised ==
  ASSUME Shape, PlainKeys, ~odd, EndMap
  PROVE  ItemEnds <=> AtItem
<1>1. PICK n \in Nat : n = Len(nesting) /\ n = level /\ Top = states[n + 1]
  BY DEF Shape, Typed, Lengths, HelperFollowsNesting, Top
<1>2. CASE n # 3
  BY <1>1, <1>2 DEF ItemEnds, AtItem
<1>3. CASE n = 3
  <2>1. nesting[3].kind = "lbrace"
    <3>0. nesting # <<>>
      <4>1. nesting \in Seq(Containers)
        BY DEF Shape, Typed
      <4>2. Len(nesting) = 3
        BY <1>1, <1>3
      <4>3. QED
        BY <4>1, <4>2
    <3>1. Inner(n)
      BY <1>1, <3>0 DEF Shape, ParserFollowsNesting
    <3>2. Top \in {"map_start", "map_got_val"}
      BY DEF EndMap
    <3>3. QED
      BY <1>1, <1>3, <3>1, <3>2 DEF Inner, ArrayStates
  <2>2. InItems <=> (IsMap(1, "items") /\ nesting[2].kind = "lbracket")
    BY <1>1, <1>3, InItemsMeans
  <2>3. ItemsPath \o <<>> = ItemsPath /\ <<>> \in Seq(Words)
    BY DEF ItemsPath
  <2>4. Behind2(ItemsPath) = IF InItems THEN <<>> ELSE Mismatch
    BY <2>3, HelperPlain, ItemsMatched
  <2>5. Mismatch # <<>>
    BY DEF Mismatch
  <2>6. QED
    BY <1>1, <1>3, <2>1, <2>2, <2>4, <2>5 DEF ItemEnds, AtItem, IsMap
<1>4. QED
  BY <1>2, <1>3

LEMMA GotVersionStep ==
  Shape /\ PlainKeys /\ GotVersionAtItemEnd /\ [Next]_vars => GotVersionAtItemEnd'
<1> SUFFICES ASSUME Shape, PlainKeys, GotVersionAtItemEnd PROVE [Next]_vars => GotVersionAtItemEnd'
  OBVIOUS
<1>1. UNCHANGED vars => GotVersionAtItemEnd'
  BY DEF GotVersionAtItemEnd, vars
<1>2. Scalar \/ Colon \/ Comma \/ ParseError \/ EndArray => GotVersionAtItemEnd'
  BY DEF GotVersionAtItemEnd, Scalar, Colon, Comma, ParseError, EndArray, Ends
<1>3. StartMap \/ StartArray => GotVersionAtItemEnd'
  BY DEF GotVersionAtItemEnd, StartMap, StartArray, Start
<1>4. ASSUME NEW k \in Keys, MapKey(k) PROVE GotVersionAtItemEnd'
  BY <1>4 DEF GotVersionAtItemEnd, MapKey
<1>5. ASSUME EndMap PROVE GotVersionAtItemEnd'
  <2>1. /\ odd' = odd /\ gotVersion' = (gotVersion \/ ItemEnds)
        /\ ended' = (ended \/ AtItem)
    BY <1>5 DEF EndMap, Ends
  <2>2. ~odd => (ItemEnds <=> AtItem)
    BY <1>5, EndRecognised
  <2>3. QED
    BY <2>1, <2>2 DEF GotVersionAtItemEnd
<1>6. QED
  BY <1>1, <1>2, <1>3, <1>4, <1>5 DEF Next

(* Whatever the document, its depth and its keys, as long as no key        *)
(* contains a bracket: got_version is set by the end of an item of the     *)
(* items array and by nothing else.                                        *)
THEOREM GotVersionCorrect == Spec => []GotVersionAtItemEnd
<1>1. Init => GotVersionAtItemEnd
  BY DEF Init, GotVersionAtItemEnd
<1>2. QED
  BY <1>1, GotVersionStep, ShapeAndPlain, PTL DEF Spec

(* Whatever the document, its depth and its keys, as long as no key        *)
(* contains a bracket: a value is stored in a field of the metadata        *)
(* exactly if the nesting puts it there and no item has ended before it.   *)
THEOREM ValueGoesWhere == Spec => []ValueGoesWhereNamed
<1>1. Shape /\ PlainKeys /\ GotVersionAtItemEnd => ValueGoesWhereNamed
  <2> SUFFICES ASSUME Shape, PlainKeys, GotVersionAtItemEnd, ~odd,
                      NEW object \in {"item", "version", "enclosure"},
                      NEW field \in ItemFields \cup VersionFields \cup EnclosureFields
               PROVE  Target = <<object, field>> <=> (Named(object, field) /\ ~ended)
    BY DEF ValueGoesWhereNamed
  <2>1. CASE gotVersion
    BY <2>1 DEF GotVersionAtItemEnd, Target
  <2>2. CASE ~gotVersion
    BY <2>2, ValueNamed DEF GotVersionAtItemEnd, Target
  <2>3. QED
    BY <2>1, <2>2
<1>2. Init => GotVersionAtItemEnd
  BY DEF Init, GotVersionAtItemEnd
<1>3. QED
  BY <1>1, <1>2, GotVersionStep, ShapeAndPlain, PTL DEF Spec

(* While a value waits for the end of its item, that item is still open.   *)
Within ==
  /\ Len(nesting) >= 3
  /\ IsMap(1, "items") /\ nesting[2].kind = "lbracket" /\ nesting[3].kind = "lbrace"

Pending == ~odd /\ unended => Within

LEMMA WithinKept ==
  ASSUME Within, Len(nesting') >= 3,
         nesting'[1] = nesting[1], nesting'[2] = nesting[2],
         nesting'[3].kind = nesting[3].kind
  PROVE  Within'
  BY DEF Within, IsMap

LEMMA PendingStep == Shape /\ PlainKeys /\ Pending /\ [Next]_vars => Pending'
<1> SUFFICES ASSUME Shape, PlainKeys, Pending PROVE [Next]_vars => Pending'
  OBVIOUS
<1> USE DEF Pending
<1>0. PICK n \in Nat : n = Len(nesting)
  BY DEF Shape, Typed
<1>1. nesting \in Seq(Containers) /\ n = level /\ Len(states) = n + 1 /\ Top = states[n + 1]
  BY <1>0 DEF Shape, Typed, Lengths, HelperFollowsNesting, Top
<1>2. UNCHANGED <<nesting, odd, unended>> => Pending'
  BY DEF Within, IsMap
<1>3. Colon \/ Comma \/ ParseError \/ UNCHANGED vars => Pending'
  BY <1>2 DEF Colon, Comma, ParseError, vars
<1>4. ASSUME Scalar PROVE Pending'
  <2>1. nesting' = nesting /\ odd' = odd /\ unended' = (unended \/ Place # <<>>)
    BY <1>4 DEF Scalar
  <2>2. ASSUME ~odd, Place # <<>> PROVE Within
    <3>1. PICK object \in {"item", "version", "enclosure"},
               field \in ItemFields \cup VersionFields \cup EnclosureFields :
                 Place = <<object, field>>
      BY <2>2 DEF Place, Among
    <3>2. Named(object, field)
      BY <2>2, <3>1, ValueNamed
    <3>3. nesting[3].kind = "lbrace" /\ Len(nesting) >= 3
      BY <3>2 DEF Named, IsMap
    <3>4. QED
      BY <3>2, <3>3 DEF Named, Within
  <2>3. Within => Within'
    BY <2>1 DEF Within, IsMap
  <2>4. QED
    BY <2>1, <2>2, <2>3
<1>5. ASSUME NEW b \in Brackets, Start(b) PROVE Pending'
  <2>1. /\ nesting' = Append(nesting, [kind |-> b, key |-> NULL])
        /\ [kind |-> b, key |-> NULL] \in Containers
        /\ odd' = odd /\ unended' = unended
    BY <1>5 DEF Start, Containers
  <2>2. ASSUME Within PROVE Within'
    <3>1. n >= 3 /\ 1 \in 1 .. n /\ 2 \in 1 .. n /\ 3 \in 1 .. n
      BY <1>0, <2>2 DEF Within
    <3>2. Len(nesting') = n + 1 /\ \A i \in 1 .. n : nesting'[i] = nesting[i]
      <4>1. nesting \in Seq(Containers) /\ n = Len(nesting)
        BY <1>0, <1>1
      <4>2. QED
        BY <2>1, <4>1, Appended
    <3>3. QED
      BY <2>2, <3>1, <3>2, WithinKept
  <2>3. QED
    BY <2>1, <2>2
<1>6. ASSUME NEW k \in Keys, MapKey(k) PROVE Pending'
  <2>1. /\ nesting' = [nesting EXCEPT ![n] = [nesting[n] EXCEPT !.key = k]]
        /\ odd' = (odd \/ ~Plain(k)) /\ unended' = unended
    BY <1>0, <1>6 DEF MapKey
  <2>2. ASSUME Within PROVE Within'
    <3>1. n >= 3 /\ 1 \in 1 .. n - 1 /\ 2 \in 1 .. n - 1 /\ 3 \in 1 .. n
      BY <1>0, <2>2 DEF Within
    <3>0. nesting \in Seq(Containers) /\ n = Len(nesting) /\ n # 0
      BY <1>0, <1>1, <3>1
    <3>2. nesting[n] \in Containers
      BY <3>0, NonEmpty
    <3>3. PICK c \in Containers : nesting' = [nesting EXCEPT ![n] = c] /\ c.kind = nesting[n].kind
      <4>1. /\ [nesting[n] EXCEPT !.key = k] \in Containers
            /\ [nesting[n] EXCEPT !.key = k].kind = nesting[n].kind
        BY <3>2 DEF Containers
      <4>2. QED
        BY <2>1, <4>1
    <3>4. nesting' = [nesting EXCEPT ![n] = c]
      BY <3>3
    <3>5. /\ Len(nesting') = n /\ nesting'[n] = c
          /\ \A i \in 1 .. n - 1 : nesting'[i] = nesting[i]
      BY <3>0, <3>4, Replaced
    <3>6. nesting'[3].kind = nesting[3].kind
      <4>1. CASE n = 3
        BY <3>3, <3>5, <4>1
      <4>2. CASE n # 3
        BY <3>1, <3>5, <4>2
      <4>3. QED
        BY <4>1, <4>2
    <3>7. QED
      BY <2>2, <3>1, <3>5, <3>6, WithinKept
  <2>3. QED
    BY <2>1, <2>2
<1>7. ASSUME EndMap \/ EndArray PROVE Pending'
  <2>1. nesting' = SubSeq(nesting, 1, n - 1) /\ odd' = odd
    BY <1>0, <1>7 DEF EndMap, EndArray, Ends, Front
  <2>2. ASSUME Within, n # 3 PROVE Within'
    <3>1. n - 1 >= 3 /\ 1 \in 1 .. n - 1 /\ 2 \in 1 .. n - 1 /\ 3 \in 1 .. n - 1
      BY <1>0, <2>2 DEF Within
    <3>2. Len(nesting') = n - 1 /\ \A i \in 1 .. n - 1 : nesting'[i] = nesting[i]
      BY <1>0, <1>1, <2>1, <3>1
    <3>3. QED
      BY <2>2, <3>1, <3>2, WithinKept
  <2>3. ASSUME ~odd, Within, n = 3, EndMap PROVE ~unended'
    <3>1. AtItem
      BY <1>0, <2>3 DEF AtItem, Within, IsMap
    <3>2. ItemEnds
      BY <2>3, <3>1, EndRecognised
    <3>3. QED
      BY <2>3, <3>2 DEF EndMap
  <2>4. ASSUME Within, n = 3, EndArray PROVE FALSE
    <3>0. nesting # <<>>
      <4>1. Len(nesting) = 3 /\ nesting \in Seq(Containers)
        BY <1>0, <1>1, <2>4
      <4>2. QED
        BY <4>1
    <3>1. Inner(n)
      BY <1>0, <3>0 DEF Shape, ParserFollowsNesting
    <3>2. Top \in {"array_start", "array_got_val"}
      BY <2>4 DEF EndArray
    <3>3. QED
      BY <1>1, <2>4, <3>1, <3>2 DEF Within, Inner, MapStates
  <2>5. unended' => unended
    BY <1>7 DEF EndMap, EndArray
  <2>6. QED
    BY <1>7, <2>1, <2>2, <2>3, <2>4, <2>5
<1>8. (StartMap \/ StartArray) => \E b \in Brackets : Start(b)
  BY DEF StartMap, StartArray, Brackets
<1>9. QED
  BY <1>3, <1>4, <1>5, <1>6, <1>7, <1>8 DEF Next

(* Whatever the document, its depth and its keys, as long as no key        *)
(* contains a bracket, and whether or not an item of an earlier document   *)
(* was read: when the document is complete, an item has ended after every  *)
(* value of a field in it.                                                 *)
THEOREM ItemEndsAfter == Spec => []ItemEndsAfterItsValues
<1>1. Init => Pending
  BY DEF Init, Pending
<1>2. Shape /\ Pending => ItemEndsAfterItsValues
  <2> SUFFICES ASSUME Shape, Pending, ~odd, Top = "complete", unended PROVE FALSE
    BY DEF ItemEndsAfterItsValues
  <2>1. PICK n \in Nat : n = Len(nesting) /\ Top = states[n + 1]
    BY DEF Shape, Typed, Lengths, Top
  <2>2. n >= 3
    BY <2>1 DEF Pending, Within
  <2>3. nesting # <<>>
    BY <2>1, <2>2
  <2>4. Inner(n)
    BY <2>1, <2>3 DEF Shape, ParserFollowsNesting
  <2>5. QED
    BY <2>1, <2>4 DEF Inner, MapStates, ArrayStates
<1>3. QED
  BY <1>1, <1>2, PendingStep, ShapeAndPlain, PTL DEF Spec
=============================================================================

-------------------------- MODULE DocumentsProofs --------------------------
(***************************************************************************)
(* The documents that Paths.tla reads are those that Metadata.tla assumes: *)
(* a history variable collects the callbacks that mean something to        *)
(* src/parse.c, as Metadata.tla's tokens, while a document is parsed.      *)
(***************************************************************************)
EXTENDS PathsProofs, Documents

VARIABLE document

docVars == <<vars, document>>


(* The value of a field; which one makes no difference to the order.       *)
Value == [k |-> "value"]

(* The text ends with the token that completes the parse.                  *)
Closed(b) == IF Top' = "complete" THEN Append(b, Close) ELSE b

DocInit == Init /\ document = <<>>

ReadScalar ==
  /\ Scalar
  /\ document' = Closed(IF Place = <<>> THEN document
                        ELSE Append(document, Value))

ReadEndMap ==
  /\ EndMap
  /\ document' = Closed(IF ItemEnds THEN Append(document, EndItem) ELSE document)

ReadEndArray ==
  /\ EndArray
  /\ document' = Closed(document)

(* Whatever else comes calls nothing of src/parse.c.                       *)
ReadOther ==
  /\ \/ StartMap \/ StartArray \/ (\E key \in Keys : MapKey(key))
     \/ Colon \/ Comma \/ ParseError
  /\ UNCHANGED document

DocNext == ReadScalar \/ ReadEndMap \/ ReadEndArray \/ ReadOther

DocSpec == DocInit /\ [][DocNext]_docVars

-----------------------------------------------------------------------------
(* Sequences of callbacks                                                  *)

Events == [k : {"value", "endItem", "close"}]

(* Some value in b has no end of an item after it.                         *)
Open(b) ==
  \E i \in Indices(b) :
    b[i].k = "value" /\ \A e \in Indices(b) : i < e => b[e].k # "endItem"

Unclosed(b) == \A i \in Indices(b) : b[i].k # "close"

LEMMA EventsAre == Value \in Events /\ EndItem \in Events /\ Close \in Events
BY DEF Value, EndItem, Close, Events

LEMMA AppendedTo ==
  ASSUME NEW b \in Seq(Events), NEW t \in Events
  PROVE  /\ Append(b, t) \in Seq(Events)
         /\ Indices(Append(b, t)) = Indices(b) \cup {Len(b) + 1}
         /\ \A i \in Indices(b) : Append(b, t)[i] = b[i] /\ i < Len(b) + 1
         /\ Append(b, t)[Len(b) + 1] = t
BY DEF Indices

(* What one more callback does to the values that are open.                *)
LEMMA OpenAppended ==
  ASSUME NEW b \in Seq(Events)
  PROVE  /\ Open(Append(b, Close)) => Open(b)
         /\ ~Open(Append(b, EndItem))
         /\ Unclosed(b) => Unclosed(Append(b, Value)) /\ Unclosed(Append(b, EndItem))
<1>1. ASSUME Open(Append(b, Close)) PROVE Open(b)
  <2> DEFINE c == Append(b, Close)
  <2>1. Close \in Events /\ Close.k # "value"
    BY EventsAre DEF Close
  <2>2. /\ Indices(c) = Indices(b) \cup {Len(b) + 1} /\ c[Len(b) + 1] = Close
        /\ \A e \in Indices(b) : c[e] = b[e]
    BY <2>1, AppendedTo
  <2>3. PICK i \in Indices(c) :
          c[i].k = "value" /\ \A e \in Indices(c) : i < e => c[e].k # "endItem"
    BY <1>1 DEF Open
  <2> HIDE DEF c
  <2>4. i \in Indices(b)
    BY <2>1, <2>2, <2>3
  <2>5. QED BY <2>2, <2>3, <2>4 DEF Open
<1>2. ASSUME Open(Append(b, EndItem)) PROVE FALSE
  <2> DEFINE c == Append(b, EndItem)
             n == Len(b) + 1
  <2>1. EndItem \in Events /\ EndItem.k = "endItem"
    BY EventsAre DEF EndItem
  <2>2. PICK i \in Indices(c) :
          c[i].k = "value" /\ \A e \in Indices(c) : i < e => c[e].k # "endItem"
    BY <1>2 DEF Open
  <2>3. n \in Indices(c) /\ c[n] = EndItem /\ (i = n \/ i < n)
    BY <2>1, <2>2, AppendedTo
  <2>4. QED BY <2>1, <2>2, <2>3
<1>3. ASSUME NEW t \in Events, t.k # "close", Unclosed(b) PROVE Unclosed(Append(b, t))
  <2> DEFINE c == Append(b, t)
  <2>1. SUFFICES ASSUME NEW i \in Indices(c) PROVE c[i].k # "close"
    BY DEF Unclosed
  <2>2. /\ Indices(c) = Indices(b) \cup {Len(b) + 1} /\ c[Len(b) + 1] = t
        /\ \A e \in Indices(b) : c[e] = b[e]
    BY <1>3, AppendedTo
  <2> HIDE DEF c
  <2>3. \A e \in Indices(b) : b[e].k # "close"
    BY <1>3 DEF Unclosed
  <2>4. QED BY <1>3, <2>1, <2>2, <2>3
<1>4. Value.k # "close" /\ EndItem.k # "close"
  BY DEF Value, EndItem
<1>5. QED BY <1>1, <1>2, <1>3, <1>4, EventsAre

LEMMA ClosingIsWellFormed ==
  ASSUME NEW b \in Seq(Events), Unclosed(b), ~Open(b)
  PROVE  WellFormed(Append(b, Close))
<1>1. Close \in Events /\ Close.k = "close"
  BY EventsAre DEF Close
<1> DEFINE c == Append(b, Close)
<1>2. SUFFICES ASSUME NEW i \in Indices(c), NEW j \in Indices(c),
                      c[i].k = "value", c[j].k = "close"
               PROVE  \E e \in Indices(c) : i < e /\ e < j /\ c[e].k = "endItem"
  BY DEF WellFormed
<1>3. j = Len(b) + 1 /\ i \in Indices(b)
  <2>1. ASSUME j \in Indices(b) PROVE FALSE
    <3>1. c[j] = b[j]
      BY <1>1, <2>1, AppendedTo
    <3>2. QED BY <1>2, <2>1, <3>1 DEF Unclosed
  <2>2. i # Len(b) + 1
    BY <1>1, <1>2, AppendedTo
  <2>3. Indices(c) = Indices(b) \cup {Len(b) + 1}
    BY <1>1, AppendedTo
  <2>4. QED BY <1>2, <2>1, <2>2, <2>3
<1>4. b[i].k = "value"
  BY <1>1, <1>2, <1>3, AppendedTo
<1>5. PICK e \in Indices(b) : i < e /\ b[e].k = "endItem"
  BY <1>3, <1>4 DEF Open
<1>6. e \in Indices(c) /\ c[e] = b[e] /\ e < j
  BY <1>1, <1>3, <1>5, AppendedTo
<1>7. QED BY <1>5, <1>6

-----------------------------------------------------------------------------
(* The document of a parse                                                 *)

(* A value waits for the end of its item exactly as Paths.tla says, and    *)
(* nothing comes after the end.                                            *)
DocInv ==
  /\ document \in Seq(Events)
  /\ Open(document) => unended
  /\ ~Unclosed(document) => Top \in {"complete", "error"}
  /\ ~odd => WellFormed(document)

LEMMA DocStepIsStep == DocNext => Next
BY DEF DocNext, ReadScalar, ReadEndMap, ReadEndArray, ReadOther, Next

LEMMA ReadKeepsDocInv ==
  ASSUME NEW b \in Seq(Events), Unclosed(b), Open(b) => unended',
         document' = Closed(b), ItemEndsAfterItsValues'
  PROVE  DocInv'
<1>1. CASE Top' = "complete"
  <2>1. document' = Append(b, Close)
    BY <1>1 DEF Closed
  <2>2. document' \in Seq(Events)
    BY <2>1, EventsAre, AppendedTo
  <2>3. Open(document') => unended'
    BY <2>1, OpenAppended
  <2>4. ~odd' => WellFormed(document')
    BY <1>1, <2>1, ClosingIsWellFormed DEF ItemEndsAfterItsValues
  <2>5. QED BY <1>1, <2>2, <2>3, <2>4 DEF DocInv
<1>2. CASE Top' # "complete"
  <2>1. document' = b
    BY <1>2 DEF Closed
  <2>2. WellFormed(b)
    BY DEF WellFormed, Unclosed
  <2>3. QED BY <2>1, <2>2 DEF DocInv
<1>3. QED BY <1>1, <1>2

LEMMA DocStep ==
  TypeOK /\ DocInv /\ ItemEndsAfterItsValues' /\ [DocNext]_docVars => DocInv'
<1> SUFFICES ASSUME TypeOK, DocInv, ItemEndsAfterItsValues', [DocNext]_docVars
             PROVE  DocInv'
  OBVIOUS
<1>1. document \in Seq(Events) /\ (Open(document) => unended) /\ unended \in BOOLEAN
  BY DEF DocInv, TypeOK
<1>2. CASE ReadScalar
  <2>1. Unclosed(document)
    BY <1>2 DEF DocInv, ReadScalar, Scalar, ExpectsValue, Advanced
  <2>2. CASE Place = <<>>
    <3>1. document' = Closed(document) /\ (unended => unended')
      BY <1>2, <2>2 DEF ReadScalar, Scalar
    <3>2. QED BY <1>1, <2>1, <3>1, ReadKeepsDocInv
  <2>3. CASE Place # <<>>
    <3>1. document' = Closed(Append(document, Value)) /\ unended'
      BY <1>2, <2>3 DEF ReadScalar, Scalar
    <3>2. Append(document, Value) \in Seq(Events) /\ Unclosed(Append(document, Value))
      BY <1>1, <2>1, EventsAre, AppendedTo, OpenAppended
    <3>3. QED BY <3>1, <3>2, ReadKeepsDocInv
  <2>4. QED BY <2>2, <2>3
<1>3. CASE ReadEndMap
  <2>1. Unclosed(document)
    BY <1>3 DEF DocInv, ReadEndMap, EndMap
  <2>2. unended' = (unended /\ ~ItemEnds)
    BY <1>3 DEF ReadEndMap, EndMap
  <2>3. CASE ItemEnds
    <3>1. document' = Closed(Append(document, EndItem))
      BY <1>3, <2>3 DEF ReadEndMap
    <3>2. /\ Append(document, EndItem) \in Seq(Events)
          /\ Unclosed(Append(document, EndItem)) /\ ~Open(Append(document, EndItem))
      BY <1>1, <2>1, EventsAre, AppendedTo, OpenAppended
    <3>3. QED BY <3>1, <3>2, ReadKeepsDocInv
  <2>4. CASE ~ItemEnds
    <3>1. document' = Closed(document) /\ (unended => unended')
      BY <1>3, <2>2, <2>4 DEF ReadEndMap
    <3>2. QED BY <1>1, <2>1, <3>1, ReadKeepsDocInv
  <2>5. QED BY <2>3, <2>4
<1>4. CASE ReadEndArray
  <2>1. Unclosed(document)
    BY <1>4 DEF DocInv, ReadEndArray, EndArray
  <2>2. document' = Closed(document) /\ (unended => unended')
    BY <1>4 DEF ReadEndArray, EndArray
  <2>3. QED BY <1>1, <2>1, <2>2, ReadKeepsDocInv
<1>5. CASE ReadOther
  <2>1. document' = document
    BY <1>5 DEF ReadOther
  <2>2. unended' = unended /\ (~odd' => ~odd)
    <3>1. ASSUME NEW key \in Keys, MapKey(key) PROVE unended' = unended /\ (~odd' => ~odd)
      <4>1. unended' = unended /\ odd' = (odd \/ ~Plain(key))
        BY <3>1 DEF MapKey
      <4>2. QED BY <4>1
    <3>2. QED
      BY <1>5, <3>1 DEF ReadOther, StartMap, StartArray, Start, Colon, Comma, ParseError
  <2>3. Unclosed(document) \/ Top' \in {"complete", "error"}
    <3>1. CASE ParseError
      <4>1. states' = [states EXCEPT ![Len(states)] = "error"]
        BY <3>1 DEF ParseError, Becomes
      <4>2. /\ states \in Seq(ParserStates) /\ Len(states) \in Nat /\ Len(states) # 0
            /\ "error" \in ParserStates
        BY DEF TypeOK, ParserStates
      <4>3. QED BY <4>1, <4>2, Replaced DEF Top
    <3>2. CASE ~ParseError
      BY <1>5, <3>2 DEF ReadOther, DocInv, StartMap, StartArray, MapKey, Colon, Comma,
         ExpectsValue, Advanced
    <3>3. QED BY <3>1, <3>2
  <2>4. QED BY <2>1, <2>2, <2>3 DEF DocInv
<1>6. CASE UNCHANGED docVars
  <2>1. UNCHANGED <<states, odd, unended, document>>
    BY <1>6 DEF docVars, vars, yajlVars
  <2>2. QED BY <2>1 DEF DocInv, Top
<1>7. QED BY <1>2, <1>3, <1>4, <1>5, <1>6 DEF DocNext

(* Whatever the text, its depth and its keys, as long as no key contains a *)
(* bracket: the callbacks it leads to make a document as Metadata.tla      *)
(* assumes, an end of an item between each value and the end of the text.  *)
THEOREM DocumentsAreWellFormed == DocSpec => [](~odd => WellFormed(document))
<1>1. DocSpec => Spec
  <2>1. [DocNext]_docVars => [Next]_vars
    BY DocStepIsStep DEF docVars
  <2>2. QED BY <2>1, PTL DEF DocSpec, DocInit, Spec
<1>2. DocInit => DocInv
  <2>1. ASSUME DocInit PROVE document = <<>> /\ Indices(document) = {}
    BY <2>1 DEF DocInit, Indices
  <2>2. QED BY <2>1 DEF DocInv, Open, Unclosed, WellFormed
<1>3. DocInv => (~odd => WellFormed(document))
  BY DEF DocInv
<1>4. QED
  BY <1>1, <1>2, <1>3, DocStep, TypeCorrect, ItemEndsAfter, PTL DEF DocSpec
=============================================================================

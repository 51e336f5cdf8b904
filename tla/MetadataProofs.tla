--------------------------- MODULE MetadataProofs ---------------------------
(***************************************************************************)
(* Proofs about Metadata.tla, for any set of documents, any strings and    *)
(* any bound on the fetches.                                               *)
(***************************************************************************)
EXTENDS Metadata, LeastElement, TLAPS

USE DEF NumberFields, StringFields

(* The conversion to int yields an int.                                    *)
LEMMA AsIntType ==
  ASSUME NEW n \in Int
  PROVE  AsInt(n) \in Int /\ AsInt(n) \in -(IntMax + 1) .. IntMax
<1> DEFINE m == 2 * (IntMax + 1)
<1>1. m \in Nat /\ m > 0
  BY MetadataAssumption
<1>2. \A x \in Int : x % m \in 0 .. (m - 1)
  BY <1>1, SMT
<1>3. n + IntMax + 1 \in Int
  BY MetadataAssumption
<1> QED
  BY <1>1, <1>2, <1>3, MetadataAssumption DEF AsInt

(* A document is a sequence of tokens, and its value tokens name a field   *)
(* of the version and carry a JSON value.                                  *)
LEMMA TokenType ==
  ASSUME NEW b \in Bodies, NEW i \in Indices(b)
  PROVE  /\ b[i] \in Tokens
         /\ b[i].k = "value" => /\ b[i].field \in NumberFields \cup StringFields
                                /\ b[i].v.long \in Int
                                /\ b[i].v.text \in Strings \cup {NULL}
<1>1. b \in Seq(Tokens)
  BY MetadataAssumption
<1>2. b[i] \in Tokens
  BY <1>1 DEF Indices
<1>3. EndItem.k # "value" /\ Text.k # "value" /\ Invalid.k # "value" /\ Close.k # "value"
  BY DEF EndItem, Text, Invalid, Close
<1>4. CASE b[i].k = "value"
  <2>1. b[i] \in [k : {"value"}, field : NumberFields \cup StringFields, v : JsonValues]
    BY <1>2, <1>3, <1>4 DEF Tokens
  <2> QED
    BY <1>2, <2>1 DEF JsonValues
<1> QED
  BY <1>2, <1>4

(* Inside a fetch the document is one the server can send; the token about *)
(* to be consumed is one of it.                                            *)
FetchingABody == phase = "fetching" => body \in Bodies
LeftOnlyWhileFetching == left > 0 => phase = "fetching" /\ parserStat = "ok"

TypeInv == TypeOK /\ FetchingABody /\ LeftOnlyWhileFetching

LEMMA TypeInit == Init => TypeInv
<1> SUFFICES ASSUME Init PROVE TypeInv
  OBVIOUS
<1>1. pos + left <= Len(body)
  <2>1. Len(<< >>) = 0 /\ body = << >> /\ pos = 0 /\ left = 0
    BY DEF Init
  <2> QED
    BY <2>1
<1>2. number \in [NumberFields -> Int] /\ text \in [StringFields -> Strings \cup {NULL}]
  BY DEF Init
<1>3. /\ body \in Bodies \cup {<< >>}
      /\ phase = "idle" /\ pos = 0 /\ left = 0
      /\ parserStat = "ok" /\ scanned = FALSE /\ gotVersion = FALSE
      /\ decoded = NULL /\ outcome = "none" /\ fresh = TRUE /\ fetches = 0 /\ accepted = 0
  BY DEF Init
<1>4. TypeOK
  BY <1>1, <1>2, <1>3 DEF TypeOK
<1> QED
  BY <1>3, <1>4 DEF TypeInv, FetchingABody, LeftOnlyWhileFetching

LEMMA NextToken ==
  ASSUME TypeInv, left > 0 \/ (phase = "fetching" /\ pos < Len(body))
  PROVE  body \in Bodies /\ pos + 1 \in Indices(body)
<1>1. body \in Bodies
  BY DEF TypeInv, FetchingABody, LeftOnlyWhileFetching, TypeOK
<1>2. Len(body) \in Nat
  BY <1>1, MetadataAssumption
<1> QED
  BY <1>1, <1>2 DEF TypeInv, TypeOK, Indices

LEMMA StoreType ==
  ASSUME TypeInv, left > 0 \/ (phase = "fetching" /\ pos < Len(body)),
         Token.k = "value", Store(Token)
  PROVE  /\ number' \in [NumberFields -> Int]
         /\ text' \in [StringFields -> Strings \cup {NULL}]
<1>1. /\ Token.field \in NumberFields \cup StringFields
      /\ Token.v.long \in Int
      /\ Token.v.text \in Strings \cup {NULL}
  BY NextToken, TokenType DEF Token
<1>2. AsInt(Token.v.long) \in Int
  BY <1>1, AsIntType
<1>3. number \in [NumberFields -> Int] /\ text \in [StringFields -> Strings \cup {NULL}]
  BY DEF TypeInv, TypeOK
<1> QED
  BY <1>1, <1>2, <1>3 DEF Store

(* Every action keeps the types.                                           *)
LEMMA TypeStep == TypeInv /\ [Next]_vars => TypeInv'
<1> SUFFICES ASSUME TypeInv, [Next]_vars PROVE TypeInv'
  OBVIOUS
<1> USE DEF TypeInv, TypeOK, FetchingABody, LeftOnlyWhileFetching
<1>len. Len(body) \in Nat /\ \A b \in Bodies : Len(b) \in Nat
  BY MetadataAssumption
<1>1. ASSUME NEW b \in Bodies, ParseInit(b) PROVE TypeInv'
  BY <1>1, <1>len DEF ParseInit, NumbersForgotten
<1>2. CASE ParseInitFails
  BY <1>2 DEF ParseInitFails, NumbersForgotten
<1>3. ASSUME NEW n \in 1 .. Len(body), ChunkArrives(n) PROVE TypeInv'
  BY <1>3, <1>len DEF ChunkArrives, Waiting, handleVars
<1>4. ASSUME NEW n \in 1 .. Len(body), ChunkIgnored(n) PROVE TypeInv'
  BY <1>4, <1>len DEF ChunkIgnored, Waiting, handleVars
<1>5. CASE ProcessValue
  <2>1. /\ number' \in [NumberFields -> Int]
        /\ text' \in [StringFields -> Strings \cup {NULL}]
    BY <1>5, StoreType DEF ProcessValue, Consume
  <2> QED
    BY <1>5, <1>len, <2>1 DEF ProcessValue, Consume
<1>6. CASE EndMap
  BY <1>6, <1>len DEF EndMap, Consume
<1>7. CASE SkipText
  BY <1>7, <1>len DEF SkipText, Consume
<1>8. CASE SyntaxError
  BY <1>8, <1>len DEF SyntaxError
<1>9. CASE TransferFails \/ NothingScanned \/ ParserBroken
  BY <1>9 DEF TransferFails, NothingScanned, ParserBroken, FetchEnds, Waiting, handleVars
<1>10. CASE Incomplete
  <2>1. /\ number' \in [NumberFields -> Int]
        /\ text' \in [StringFields -> Strings \cup {NULL}]
    BY <1>10, StoreType DEF Incomplete, FetchEnds, Waiting
  <2> QED
    BY <1>10, <2>1 DEF Incomplete, FetchEnds, Waiting
<1>11. ASSUME NEW k \in BOOLEAN, ParseFinish(k) PROVE TypeInv'
  <2>1. text' \in [StringFields -> Strings \cup {NULL}]
    BY <1>11, MetadataAssumption DEF ParseFinish, ExeStripped
  <2>2. decoded' \in Strings \cup {NULL}
    BY <1>11, MetadataAssumption DEF ParseFinish, SignatureDecoded
  <2>3. outcome' \in {"none", "ok", "error"} /\ accepted' \in Nat
    BY <1>11 DEF ParseFinish, FetchEnds
  <2> QED
    BY <1>11, <2>1, <2>2, <2>3 DEF ParseFinish, FetchEnds, Waiting
<1>12. CASE UNCHANGED vars
  BY <1>12 DEF vars, handleVars, transferVars
<1> QED
  BY <1>1, <1>2, <1>3, <1>4, <1>5, <1>6, <1>7, <1>8, <1>9, <1>10, <1>11, <1>12
     DEF Next, Receive, Finish

(* The types hold in every reachable state.                                *)
THEOREM TypeCorrect == Spec => []TypeOK
<1>1. TypeInv => TypeOK
  BY DEF TypeInv
<1> QED
  BY <1>1, TypeInit, TypeStep, PTL DEF Spec

-----------------------------------------------------------------------------
(* Why a handle accepts once.  Acceptance needs version numbers, and a     *)
(* fetch starts by forgetting them; they can come back only from values    *)
(* consumed in this fetch before got_version is set; and in a complete     *)
(* document the end of the item stands between its values and the end.     *)

NoItemEnded ==
  phase = "fetching" /\ parserStat = "ok" /\ ~gotVersion =>
    \A i \in 1 .. pos : body[i] # EndItem

NumbersWereRead ==
  phase = "fetching" /\ parserStat = "ok" /\ number # NumbersForgotten =>
    \E i \in 1 .. pos : body[i].k = "value"

(* A fetch that finds got_version set reads no number.                     *)
StaleFetchIsEmpty ==
  phase = "fetching" /\ ~fresh => gotVersion /\ number = NumbersForgotten

AcceptedIsStale ==
  accepted > 0 => gotVersion /\ (phase = "fetching" => ~fresh)

AcceptedInv ==
  /\ TypeInv
  /\ NoItemEnded
  /\ NumbersWereRead
  /\ StaleFetchIsEmpty
  /\ AcceptedIsStale
  /\ AcceptedOnce
  /\ DecodedIsAccepted

LEMMA AcceptedInit == Init => AcceptedInv
  BY TypeInit DEF Init, AcceptedInv, NoItemEnded, NumbersWereRead,
     StaleFetchIsEmpty, AcceptedIsStale, AcceptedOnce, DecodedIsAccepted

(* The heart of the argument.                                              *)
LEMMA FieldsOkOnlyWhenFresh ==
  ASSUME AcceptedInv, phase = "fetching", parserStat = "ok", Complete, FieldsOk
  PROVE  gotVersion /\ fresh /\ accepted = 0
<1>1. number # NumbersForgotten
  BY DEF FieldsOk, NumbersForgotten
<1>2. fresh /\ accepted = 0
  BY <1>1 DEF AcceptedInv, StaleFetchIsEmpty, AcceptedIsStale, TypeInv, TypeOK
<1>3. PICK i \in 1 .. pos : body[i].k = "value"
  BY <1>1 DEF AcceptedInv, NumbersWereRead
<1>4. PICK j \in 1 .. pos : body[j] = Close
  BY DEF Complete
<1>5. body \in Bodies /\ Len(body) \in Nat /\ pos \in Nat /\ pos <= Len(body)
  BY MetadataAssumption DEF AcceptedInv, TypeInv, TypeOK, FetchingABody
<1>6. i \in Indices(body) /\ j \in Indices(body) /\ body[j].k = "close"
  BY <1>3, <1>4, <1>5 DEF Indices, Close
<1>7. PICK e \in Indices(body) : i < e /\ e < j /\ body[e].k = "endItem"
  BY <1>3, <1>5, <1>6, MetadataAssumption DEF WellFormed
<1>8. e \in 1 .. pos
  BY <1>4, <1>5, <1>7 DEF Indices
<1>9. body[e] = EndItem
  <2>1. body[e] \in Tokens
    BY <1>5, <1>7, TokenType
  <2> QED
    BY <1>7, <2>1 DEF Tokens, EndItem, Text, Invalid, Close
<1> QED
  BY <1>2, <1>8, <1>9 DEF AcceptedInv, NoItemEnded

LEMMA AcceptedStep == AcceptedInv /\ [Next]_vars => AcceptedInv'
<1> SUFFICES ASSUME AcceptedInv, [Next]_vars PROVE AcceptedInv'
  OBVIOUS
<1>type. TypeInv /\ TypeInv'
  BY TypeStep DEF AcceptedInv
<1>nat. /\ accepted \in Nat /\ pos \in Nat /\ left \in Nat
        /\ pos + left <= Len(body) /\ Len(body) \in Nat /\ gotVersion \in BOOLEAN
  BY <1>type, MetadataAssumption DEF TypeInv, TypeOK
<1> SUFFICES /\ NoItemEnded' /\ NumbersWereRead' /\ StaleFetchIsEmpty' /\ AcceptedIsStale'
             /\ AcceptedOnce' /\ DecodedIsAccepted'
  BY <1>type DEF AcceptedInv
<1> USE DEF AcceptedInv, NoItemEnded, NumbersWereRead, StaleFetchIsEmpty, AcceptedIsStale,
            AcceptedOnce, DecodedIsAccepted, NumbersForgotten
<1> DEFINE Rest == /\ NoItemEnded' /\ NumbersWereRead' /\ StaleFetchIsEmpty' /\ AcceptedIsStale'
                   /\ AcceptedOnce' /\ DecodedIsAccepted'
<1>1. ASSUME NEW b \in Bodies, ParseInit(b) PROVE Rest
  <2>1. /\ phase = "idle" /\ pos' = 0 /\ number' = NumbersForgotten
        /\ accepted' = accepted /\ gotVersion' = gotVersion
        /\ decoded' = decoded /\ text' = text
    BY <1>1 DEF ParseInit
  <2>2. fresh' = ~gotVersion
    BY <1>1 DEF ParseInit
  <2>3. StaleFetchIsEmpty' /\ AcceptedIsStale'
    BY <2>1, <2>2, <1>nat
  <2> QED
    BY <2>1, <2>3, <1>nat
<1>2. CASE ParseInitFails
  BY <1>2, <1>nat DEF ParseInitFails
<1>3. ASSUME NEW n \in 1 .. Len(body), ChunkArrives(n) PROVE Rest
  BY <1>3, <1>nat DEF ChunkArrives, handleVars
<1>4. ASSUME NEW n \in 1 .. Len(body), ChunkIgnored(n) PROVE Rest
  BY <1>4, <1>nat DEF ChunkIgnored, handleVars
<1>5. CASE ProcessValue
  <2>1. /\ pos' = pos + 1 /\ pos + 1 \in 1 .. pos' /\ body' = body
        /\ accepted' = accepted /\ decoded' = decoded /\ phase' = phase
        /\ parserStat' = parserStat /\ gotVersion' = gotVersion /\ fresh' = fresh
    BY <1>5, <1>nat DEF ProcessValue, Consume
  <2>2. body[pos + 1].k = "value"
    BY <1>5 DEF ProcessValue, Token
  <2>3. NoItemEnded'
    BY <2>1, <2>2, <1>nat DEF EndItem
  <2>4. NumbersWereRead'
    BY <2>1, <2>2
  <2>5. gotVersion => number' = number /\ text' = text
    BY <1>5 DEF ProcessValue
  <2> QED
    BY <2>1, <2>3, <2>4, <2>5, <1>nat
<1>6. CASE EndMap
  BY <1>6, <1>nat DEF EndMap, Consume
<1>7. CASE SkipText
  <2>1. body[pos + 1] # EndItem
    BY <1>7 DEF SkipText, Token, Text, Close, EndItem
  <2> QED
    BY <1>7, <2>1, <1>nat DEF SkipText, Consume
<1>8. CASE SyntaxError
  BY <1>8, <1>nat DEF SyntaxError
<1>9. CASE TransferFails \/ NothingScanned \/ ParserBroken
  BY <1>9, <1>nat DEF TransferFails, NothingScanned, ParserBroken, FetchEnds, handleVars
<1>10. CASE Incomplete
  <2>1. gotVersion => number' = number /\ text' = text
    BY <1>10 DEF Incomplete
  <2> QED
    BY <1>10, <2>1, <1>nat DEF Incomplete, FetchEnds
<1>11. ASSUME NEW k \in BOOLEAN, ParseFinish(k) PROVE Rest
  <2>1. FieldsOk => gotVersion /\ fresh /\ accepted = 0
    BY <1>11, FieldsOkOnlyWhenFresh DEF ParseFinish, FetchEnds, Waiting
  <2>2. phase' = "idle" /\ gotVersion' = gotVersion
    BY <1>11 DEF ParseFinish, FetchEnds
  <2>3. accepted' = IF FieldsOk /\ SignatureOk(k) THEN accepted + 1 ELSE accepted
    BY <1>11 DEF ParseFinish, FetchEnds
  <2>4. text'["signature"] = text["signature"]
    BY <1>11, <1>type DEF ParseFinish, ExeStripped, TypeInv, TypeOK
  <2>5. DecodedIsAccepted'
    BY <1>11, <2>1, <2>3, <2>4, <1>nat DEF ParseFinish, SignatureDecoded, SignatureOk
  <2> QED
    BY <2>1, <2>2, <2>3, <2>5, <1>nat
<1>12. CASE UNCHANGED vars
  BY <1>12 DEF vars, handleVars, transferVars
<1> QED
  BY <1>1, <1>2, <1>3, <1>4, <1>5, <1>6, <1>7, <1>8, <1>9, <1>10, <1>11, <1>12
     DEF Next, Receive, Finish

(* A handle accepts the metadata of at most one fetch.                     *)
THEOREM AcceptedAtMostOnce == Spec => []AcceptedOnce
<1>1. AcceptedInv => AcceptedOnce
  BY DEF AcceptedInv
<1> QED
  BY <1>1, AcceptedInit, AcceptedStep, PTL DEF Spec

(* The decoded signature is always that of the accepted version.           *)
THEOREM DecodedSignatureIsAccepted == Spec => []DecodedIsAccepted
<1>1. AcceptedInv => DecodedIsAccepted
  BY DEF AcceptedInv
<1> QED
  BY <1>1, AcceptedInit, AcceptedStep, PTL DEF Spec

-----------------------------------------------------------------------------
(* Metadata.tla implements MetadataContract.tla.                           *)

LEMMA ContractInit == Init => Contract!Init
  BY DEF Init, Contract!Init

LEMMA ContractStep ==
  AcceptedInv /\ [Next]_vars => [Contract!Next]_(Contract!contractVars)
<1> SUFFICES ASSUME AcceptedInv, [Next]_vars
             PROVE  Contract!Next \/ UNCHANGED Contract!contractVars
  OBVIOUS
<1> USE DEF Contract!contractVars
<1>type. /\ TypeInv /\ StaleFetchIsEmpty /\ AcceptedIsStale /\ DecodedIsAccepted
         /\ AcceptedOnce
  BY DEF AcceptedInv
<1>bool. /\ parserStat \in {"ok", "error"} /\ phase \in {"idle", "fetching"}
         /\ gotVersion \in BOOLEAN /\ fresh \in BOOLEAN /\ scanned \in BOOLEAN
  BY <1>type DEF TypeInv, TypeOK
<1> DEFINE Stale == phase = "fetching" /\ ~fresh => gotVersion
<1>stale. Stale
  BY <1>type DEF StaleFetchIsEmpty
<1>1. ASSUME NEW b \in Bodies, ParseInit(b) PROVE Contract!Begin
  BY <1>1, <1>bool DEF ParseInit, Contract!Begin
<1>2. ASSUME ParseInitFails PROVE Contract!Refuse
  BY <1>2, <1>bool DEF ParseInitFails, Contract!Refuse
<1>3. ASSUME NEW n \in 1 .. Len(body), ChunkArrives(n) \/ ChunkIgnored(n)
      PROVE  UNCHANGED Contract!contractVars
  BY <1>3 DEF ChunkArrives, ChunkIgnored, handleVars
<1>4. ASSUME ProcessValue \/ EndMap \/ SkipText PROVE Contract!Receive
  <2>1. Consume /\ left > 0
    BY <1>4 DEF ProcessValue, EndMap, SkipText, Consume
  <2>2. phase = "fetching"
    BY <2>1, <1>type DEF TypeInv, LeftOnlyWhileFetching
  <2>3. scanned' \in {scanned, TRUE}
    BY <2>1, <1>bool DEF Consume
  <2> QED
    BY <2>1, <2>2, <2>3 DEF Consume, Contract!Receive
<1>5. ASSUME SyntaxError PROVE Contract!Receive
  <2>1. phase = "fetching"
    BY <1>5, <1>type DEF TypeInv, LeftOnlyWhileFetching, SyntaxError
  <2> QED
    BY <1>5, <2>1 DEF SyntaxError, Contract!Receive
<1>6. ASSUME TransferFails \/ NothingScanned \/ ParserBroken PROVE Contract!Fail
  BY <1>6, <1>bool, <1>stale
     DEF TransferFails, NothingScanned, ParserBroken, FetchEnds, Waiting, handleVars,
         Contract!Fail
<1>7. ASSUME Incomplete PROVE Contract!Fail
  BY <1>7, <1>bool, <1>stale DEF Incomplete, FetchEnds, Waiting, Contract!Fail
<1>8. ASSUME NEW k \in BOOLEAN, ParseFinish(k) PROVE Contract!Next
  <2>1. /\ phase = "fetching" /\ phase' = "idle" /\ scanned /\ parserStat = "ok"
        /\ UNCHANGED <<parserStat, scanned, gotVersion>>
        /\ decoded' = SignatureDecoded(k)
        /\ outcome' = IF FieldsOk /\ SignatureOk(k) THEN "ok" ELSE "error"
    BY <1>8 DEF ParseFinish, FetchEnds, Waiting
  <2>2. FieldsOk => gotVersion /\ fresh /\ decoded = NULL
    <3>1. FieldsOk => gotVersion /\ fresh /\ accepted = 0
      BY <1>8, FieldsOkOnlyWhenFresh DEF ParseFinish, FetchEnds, Waiting
    <3> QED
      BY <3>1, <1>type DEF DecodedIsAccepted
  <2>3. NULL \notin Decodable
    BY MetadataAssumption
  <2>4. CASE FieldsOk /\ SignatureOk(k)
    <3>1. CASE k
      <4>1. decoded' = NULL
        BY <2>1, <2>2, <2>4, <3>1 DEF SignatureDecoded
      <4>2. Contract!Offer(FALSE)
        BY <1>bool, <2>1, <2>2, <2>4, <4>1 DEF Contract!Offer
      <4> QED
        BY <4>2, FALSE \in BOOLEAN DEF Contract!Next
    <3>2. CASE ~k
      <4>1. decoded' # NULL
        BY <2>1, <2>3, <2>4, <3>2 DEF SignatureDecoded, SignatureOk
      <4>2. Contract!Offer(TRUE)
        BY <1>bool, <2>1, <2>2, <2>4, <4>1 DEF Contract!Offer
      <4> QED
        BY <4>2 DEF Contract!Next
    <3> QED
      BY <3>1, <3>2
  <2>5. CASE ~(FieldsOk /\ SignatureOk(k))
    <3>1. decoded' = decoded
      BY <2>1, <2>2, <2>3, <2>5 DEF SignatureDecoded, SignatureOk
    <3>2. Contract!Fail
      BY <1>bool, <1>stale, <2>1, <2>5, <3>1 DEF Contract!Fail
    <3> QED
      BY <3>2 DEF Contract!Next
  <2> QED
    BY <2>4, <2>5
<1>9. ASSUME UNCHANGED vars PROVE UNCHANGED Contract!contractVars
  BY <1>9 DEF vars, handleVars, transferVars
<1> QED
  BY <1>1, <1>2, <1>3, <1>4, <1>5, <1>6, <1>7, <1>8, <1>9
     DEF Next, Receive, Finish, Contract!Next

(* A fetch is refused, fails or offers a version exactly as promised to    *)
(* the rest of the library; after an item has been read and the fetch is   *)
(* over, no later fetch of the handle offers anything.                     *)
THEOREM MetadataImplementsContract == Spec => ImplementsContract
<1> QED
  BY AcceptedInit, AcceptedStep, ContractInit, ContractStep, PTL
     DEF Spec, ImplementsContract, Contract!Spec

-----------------------------------------------------------------------------
(* What is accepted is what the document says                              *)

SaidSoFar(f) == {i \in Said(body, f) : i <= pos}

IsLast(S, i) == i \in S /\ \A j \in S : j <= i

(* Each field holds what has been said of it last, so far.                 *)
NumbersAsRead ==
  \A f \in NumberFields :
    \/ SaidSoFar(f) = {} /\ number[f] = -1
    \/ \E i \in SaidSoFar(f) :
         IsLast(SaidSoFar(f), i) /\ number[f] = AsInt(body[i].v.long)

TextsAsRead ==
  \A f \in StringFields :
    \/ SaidSoFar(f) = {} /\ (fetches = 1 => text[f] = NULL)
    \/ \E i \in SaidSoFar(f) : IsLast(SaidSoFar(f), i) /\ text[f] = body[i].v.text

NothingYet ==
  fetches = 0 =>
    phase = "idle" /\ parserStat = "ok" /\ ~gotVersion /\ \A f \in StringFields : text[f] = NULL

ItemEnded ==
  phase = "fetching" /\ fresh /\ parserStat = "ok" /\ gotVersion =>
    \E e \in 1 .. pos : body[e] = EndItem

FieldsAsRead ==
  phase = "fetching" /\ fresh /\ parserStat = "ok" => NumbersAsRead /\ TextsAsRead

OkIsIdle == outcome = "ok" => phase = "idle"

SaidInv ==
  AcceptedInv /\ NothingYet /\ ItemEnded /\ FieldsAsRead /\ OkIsIdle /\ AcceptedAsSaid

LEMMA SaidInit == Init => SaidInv
BY AcceptedInit DEF Init, SaidInv, NothingYet, ItemEnded, FieldsAsRead, OkIsIdle,
   AcceptedAsSaid

(* A token that says nothing of a field leaves what is said of it.         *)
LEMMA SaidStays ==
  ASSUME NEW f, pos \in Nat, pos' = pos + 1, body' = body, pos + 1 \notin Said(body, f)
  PROVE  SaidSoFar(f)' = SaidSoFar(f)
<1>1. \A i \in Said(body, f) : i \in Int
  BY DEF Said, Indices
<1>2. \A i \in Said(body, f) : i <= pos + 1 <=> i <= pos
  BY <1>1
<1>3. QED BY <1>2 DEF SaidSoFar

(* The token that says something of a field says it last.                  *)
LEMMA SaidNext ==
  ASSUME NEW f, pos \in Nat, pos' = pos + 1, body' = body, pos + 1 \in Said(body, f)
  PROVE  pos + 1 \in SaidSoFar(f)' /\ \A j \in SaidSoFar(f)' : j <= pos + 1
BY DEF SaidSoFar

(* Until the first item ends, each value in the document is one it says.   *)
LEMMA SaidByToken ==
  ASSUME AcceptedInv, phase = "fetching", parserStat = "ok", ~gotVersion, left > 0,
         Token.k = "value", NEW f
  PROVE  pos + 1 \in Said(body, f) <=>
           Token.field = f /\ (f \in NumberFields => ValidNumber(Token.v))
<1>1. pos + 1 \in Indices(body) /\ pos \in Nat
  BY NextToken DEF AcceptedInv, TypeInv, TypeOK
<1>2. \A e \in 1 .. pos : body[e] # EndItem
  BY DEF AcceptedInv, NoItemEnded
<1>3. body[pos + 1] # EndItem
  BY DEF Token, EndItem
<1>4. \A e \in 1 .. pos + 1 : body[e] # EndItem
  BY <1>1, <1>2, <1>3
<1>5. QED BY <1>1, <1>4 DEF Said, Token

(* After the end of an item nothing is said any more.                      *)
LEMMA SaidBeforeEnd ==
  ASSUME pos \in Nat, NEW e \in 1 .. pos, body[e] = EndItem, NEW f, NEW i \in Said(body, f)
  PROVE  i < e
<1>1. i \in Nat /\ i > 0 /\ \A d \in 1 .. i : body[d] # EndItem
  BY DEF Said, Indices
<1>2. ~(e \in 1 .. i)
  BY <1>1
<1>3. QED BY <1>1, <1>2

(* Consuming a token that stores nothing.                                  *)
LEMMA SkippedRead ==
  ASSUME pos \in Nat, pos' = pos + 1, NumbersAsRead, TextsAsRead,
         UNCHANGED <<number, text, body, fetches>>,
         \A f \in NumberFields \cup StringFields : pos + 1 \notin Said(body, f)
  PROVE  NumbersAsRead' /\ TextsAsRead'
<1>1. \A f \in NumberFields \cup StringFields : SaidSoFar(f)' = SaidSoFar(f)
  BY SaidStays
<1>2. NumbersAsRead'
  BY <1>1 DEF NumbersAsRead, IsLast
<1>3. TextsAsRead'
  BY <1>1 DEF TextsAsRead, IsLast
<1>4. QED BY <1>2, <1>3

(* Consuming a value of the first item.                                    *)
LEMMA StoredRead ==
  ASSUME SaidInv, ProcessValue, ~gotVersion, phase = "fetching", fresh, parserStat = "ok"
  PROVE  NumbersAsRead' /\ TextsAsRead'
<1>1. /\ pos \in Nat /\ pos' = pos + 1 /\ body' = body /\ fetches' = fetches /\ left > 0
      /\ Token.k = "value" /\ Store(Token) /\ NumbersAsRead /\ TextsAsRead
      /\ number \in [NumberFields -> Int] /\ text \in [StringFields -> Strings \cup {NULL}]
  BY DEF SaidInv, AcceptedInv, TypeInv, TypeOK, FieldsAsRead, ProcessValue, Consume
<1>2. ASSUME NEW f
      PROVE  pos + 1 \in Said(body, f) <=>
               Token.field = f /\ (f \in NumberFields => ValidNumber(Token.v))
  BY <1>1, SaidByToken DEF SaidInv
<1>3. ASSUME NEW f \in NumberFields
      PROVE  \/ SaidSoFar(f)' = {} /\ number'[f] = -1
             \/ \E i \in SaidSoFar(f)' :
                  (\A j \in SaidSoFar(f)' : j <= i) /\ number'[f] = AsInt(body[i].v.long)
  <2>1. CASE Token.field = f /\ ValidNumber(Token.v)
    <3>1. pos + 1 \in SaidSoFar(f)' /\ \A j \in SaidSoFar(f)' : j <= pos + 1
      BY <1>1, <1>2, <2>1, SaidNext
    <3>2. number'[f] = AsInt(body[pos + 1].v.long)
      BY <1>1, <2>1 DEF Store, Token
    <3>3. QED BY <3>1, <3>2
  <2>2. CASE ~(Token.field = f /\ ValidNumber(Token.v))
    <3>1. SaidSoFar(f)' = SaidSoFar(f)
      BY <1>1, <1>2, <2>2, SaidStays
    <3>2. number'[f] = number[f]
      BY <1>1, <2>2 DEF Store
    <3>3. QED BY <1>1, <3>1, <3>2 DEF NumbersAsRead, IsLast
  <2>3. QED BY <2>1, <2>2
<1>4. ASSUME NEW f \in StringFields
      PROVE  \/ SaidSoFar(f)' = {} /\ (fetches' = 1 => text'[f] = NULL)
             \/ \E i \in SaidSoFar(f)' :
                  (\A j \in SaidSoFar(f)' : j <= i) /\ text'[f] = body[i].v.text
  <2>0. f \notin NumberFields
    OBVIOUS
  <2>1. CASE Token.field = f
    <3>1. pos + 1 \in SaidSoFar(f)' /\ \A j \in SaidSoFar(f)' : j <= pos + 1
      BY <1>1, <1>2, <2>0, <2>1, SaidNext
    <3>2. text'[f] = body[pos + 1].v.text
      BY <1>1, <2>0, <2>1 DEF Store, Token
    <3>3. QED BY <3>1, <3>2
  <2>2. CASE Token.field # f
    <3>1. SaidSoFar(f)' = SaidSoFar(f)
      BY <1>1, <1>2, <2>2, SaidStays
    <3>2. text'[f] = text[f]
      BY <1>1, <2>2 DEF Store
    <3>3. QED BY <1>1, <3>1, <3>2 DEF TextsAsRead, IsLast
  <2>3. QED BY <2>1, <2>2
<1>5. NumbersAsRead'
  BY <1>1, <1>3 DEF NumbersAsRead, IsLast
<1>6. TextsAsRead'
  BY <1>1, <1>4 DEF TextsAsRead, IsLast
<1>7. QED BY <1>5, <1>6

LEMMA LastIs ==
  ASSUME NEW b, NEW f, NEW i \in Said(b, f), \A j \in Said(b, f) : j <= i
  PROVE  LastSaid(b, f) = b[i].v
<1> DEFINE last == CHOOSE m \in Said(b, f) : \A j \in Said(b, f) : j <= m
<1>1. last \in Said(b, f) /\ \A j \in Said(b, f) : j <= last
  OBVIOUS
<1>2. \A j \in Said(b, f) : j \in Int
  BY DEF Said, Indices
<1>3. LastSaid(b, f) = b[last].v
  BY DEF LastSaid
<1> HIDE DEF last
<1>4. last = i
  BY <1>1, <1>2
<1>5. QED BY <1>3, <1>4

(* What passes the checks is what the document says.                       *)
LEMMA AcceptedRead ==
  ASSUME SaidInv, phase = "fetching", parserStat = "ok", Complete, FieldsOk
  PROVE  /\ \A f \in NumberFields : number[f] = DescribedNumber(body, f)
         /\ \A f \in StringFields :
              fetches = 1 \/ Said(body, f) # {} => ExeStripped[f] = DescribedText(body, f)
<1>1. gotVersion /\ fresh
  BY FieldsOkOnlyWhenFresh DEF SaidInv
<1>2. PICK e \in 1 .. pos : body[e] = EndItem
  BY <1>1 DEF SaidInv, ItemEnded
<1>3. /\ pos \in Nat /\ text \in [StringFields -> Strings \cup {NULL}]
      /\ NumbersAsRead /\ TextsAsRead
  BY <1>1 DEF SaidInv, AcceptedInv, TypeInv, TypeOK, FieldsAsRead
<1>4. ASSUME NEW f PROVE SaidSoFar(f) = Said(body, f)
  <2>1. \A i \in Said(body, f) : i \in Int /\ i < e
    BY <1>2, <1>3, SaidBeforeEnd DEF Said, Indices
  <2>2. QED BY <1>3, <2>1 DEF SaidSoFar
<1>5. ASSUME NEW f \in NumberFields PROVE number[f] = DescribedNumber(body, f)
  <2>1. CASE Said(body, f) = {}
    BY <1>3, <1>4, <2>1 DEF NumbersAsRead, DescribedNumber
  <2>2. CASE Said(body, f) # {}
    <3>1. PICK i \in Said(body, f) :
            (\A j \in Said(body, f) : j <= i) /\ number[f] = AsInt(body[i].v.long)
      BY <1>3, <1>4, <2>2 DEF NumbersAsRead, IsLast
    <3>2. LastSaid(body, f) = body[i].v
      BY <3>1, LastIs
    <3>3. QED BY <2>2, <3>1, <3>2 DEF DescribedNumber
  <2>3. QED BY <2>1, <2>2
<1>6. ASSUME NEW f \in StringFields, fetches = 1 \/ Said(body, f) # {}
      PROVE  text[f] = IF Said(body, f) = {} THEN NULL ELSE LastSaid(body, f).text
  <2>1. CASE Said(body, f) = {}
    BY <1>3, <1>4, <1>6, <2>1 DEF TextsAsRead
  <2>2. CASE Said(body, f) # {}
    <3>1. PICK i \in Said(body, f) :
            (\A j \in Said(body, f) : j <= i) /\ text[f] = body[i].v.text
      BY <1>3, <1>4, <2>2 DEF TextsAsRead, IsLast
    <3>2. LastSaid(body, f) = body[i].v
      BY <3>1, LastIs
    <3>3. QED BY <2>2, <3>1, <3>2
  <2>3. QED BY <2>1, <2>2
<1>7. ASSUME NEW f \in StringFields
      PROVE  ExeStripped[f] = IF f = "filename" /\ text[f] # NULL THEN Stripped[text[f]]
                              ELSE text[f]
  BY <1>3 DEF ExeStripped
<1>8. ASSUME NEW f \in StringFields, fetches = 1 \/ Said(body, f) # {}
      PROVE  ExeStripped[f] = DescribedText(body, f)
  BY <1>6, <1>7, <1>8 DEF DescribedText
<1>9. QED BY <1>5, <1>8

LEMMA SaidStep == SaidInv /\ [Next]_vars => SaidInv'
<1> SUFFICES ASSUME SaidInv, [Next]_vars PROVE SaidInv'
  OBVIOUS
<1>inv. AcceptedInv' /\ AcceptedInv /\ TypeInv /\ TypeInv'
  BY AcceptedStep DEF SaidInv, AcceptedInv
<1>nat. /\ pos \in Nat /\ left \in Nat /\ fetches \in Nat /\ gotVersion \in BOOLEAN
        /\ phase \in {"idle", "fetching"} /\ fresh \in BOOLEAN
  BY <1>inv DEF TypeInv, TypeOK
<1>old. NothingYet /\ ItemEnded /\ FieldsAsRead /\ OkIsIdle /\ AcceptedAsSaid
  BY DEF SaidInv
<1> SUFFICES NothingYet' /\ ItemEnded' /\ FieldsAsRead' /\ OkIsIdle' /\ AcceptedAsSaid'
  BY <1>inv DEF SaidInv
<1> DEFINE Rest == NothingYet' /\ ItemEnded' /\ FieldsAsRead' /\ OkIsIdle' /\ AcceptedAsSaid'
<1>1. ASSUME NEW b \in Bodies, ParseInit(b) PROVE Rest
  <2>1. /\ pos' = 0 /\ phase' = "fetching" /\ fresh' = ~gotVersion /\ gotVersion' = gotVersion
        /\ outcome' = "none" /\ fetches' = fetches + 1 /\ text' = text
        /\ number' = NumbersForgotten
    BY <1>1 DEF ParseInit
  <2>2. \A f : SaidSoFar(f)' = {}
    <3>1. \A f : \A i \in Said(body', f) : i \in Nat /\ i > 0
      BY DEF Said, Indices
    <3>2. QED BY <2>1, <3>1 DEF SaidSoFar
  <2>3. NumbersAsRead'
    BY <2>1, <2>2 DEF NumbersAsRead, NumbersForgotten
  <2>4. TextsAsRead'
    <3>1. fetches' = 1 => fetches = 0
      BY <2>1, <1>nat
    <3>2. QED BY <2>1, <2>2, <3>1, <1>old DEF TextsAsRead, NothingYet
  <2>5. ItemEnded'
    <3>1. fresh' => ~gotVersion'
      BY <2>1
    <3>2. QED BY <3>1 DEF ItemEnded
  <2>6. fetches' # 0 /\ outcome' # "ok"
    BY <2>1, <1>nat
  <2>7. QED
    BY <2>3, <2>4, <2>5, <2>6 DEF NothingYet, FieldsAsRead, OkIsIdle, AcceptedAsSaid
<1>2. CASE ParseInitFails
  <2>1. /\ phase' = "idle" /\ outcome' = "error" /\ fetches' = fetches + 1
    BY <1>2 DEF ParseInitFails
  <2>2. QED
    BY <2>1, <1>nat DEF NothingYet, ItemEnded, FieldsAsRead, OkIsIdle, AcceptedAsSaid
<1>idle. ASSUME phase = "fetching" PROVE fetches # 0 /\ outcome # "ok"
  BY <1>idle, <1>old DEF NothingYet, OkIsIdle
<1>3. ASSUME NEW n \in 1 .. Len(body), ChunkArrives(n) PROVE Rest
  <2>1. UNCHANGED <<handleVars, phase, body, pos, outcome, fresh, fetches>>
    BY <1>3 DEF ChunkArrives
  <2>2. QED
    BY <2>1, <1>old DEF handleVars, NothingYet, ItemEnded, FieldsAsRead, OkIsIdle,
       AcceptedAsSaid, NumbersAsRead, TextsAsRead, SaidSoFar, IsLast
<1>4. ASSUME NEW n \in 1 .. Len(body), ChunkIgnored(n) PROVE Rest
  <2>1. /\ phase = "fetching" /\ parserStat' # "ok"
        /\ UNCHANGED <<phase, outcome, fetches>>
    BY <1>4 DEF ChunkIgnored, Waiting, handleVars
  <2>2. QED
    BY <2>1, <1>idle DEF NothingYet, ItemEnded, FieldsAsRead, OkIsIdle, AcceptedAsSaid
<1>cons. ASSUME Consume
         PROVE  /\ phase = "fetching" /\ parserStat = "ok" /\ left > 0 /\ pos' = pos + 1
                /\ UNCHANGED <<phase, parserStat, body, outcome, fresh, fetches>>
                /\ NothingYet' /\ OkIsIdle' /\ AcceptedAsSaid'
  <2>1. /\ phase = "fetching" /\ parserStat = "ok" /\ left > 0 /\ pos' = pos + 1
        /\ UNCHANGED <<phase, parserStat, body, outcome, fresh, fetches>>
    BY <1>cons, <1>inv DEF Consume, TypeInv, LeftOnlyWhileFetching
  <2>2. QED BY <2>1, <1>idle DEF NothingYet, OkIsIdle, AcceptedAsSaid
<1>end. ASSUME Consume, UNCHANGED gotVersion PROVE ItemEnded'
  <2>1. /\ phase = "fetching" /\ parserStat = "ok" /\ pos' = pos + 1
        /\ UNCHANGED <<body, fresh>>
    BY <1>end, <1>cons
  <2>2. \A e \in 1 .. pos : e \in 1 .. pos'
    BY <2>1, <1>nat
  <2>3. QED BY <2>1, <2>2, <1>end, <1>old DEF ItemEnded
<1>5. CASE ProcessValue
  <2>1. Consume /\ UNCHANGED gotVersion
    BY <1>5 DEF ProcessValue
  <2>2. ASSUME fresh PROVE NumbersAsRead' /\ TextsAsRead'
    <3>1. CASE gotVersion
      <4>1. UNCHANGED <<number, text>>
        BY <1>5, <3>1 DEF ProcessValue
      <4>2. PICK e \in 1 .. pos : body[e] = EndItem
        BY <2>1, <2>2, <3>1, <1>cons, <1>old DEF ItemEnded
      <4>3. \A f : pos + 1 \notin Said(body, f)
        BY <4>2, <1>nat, SaidBeforeEnd
      <4>4. NumbersAsRead /\ TextsAsRead
        BY <2>1, <2>2, <1>cons, <1>old DEF FieldsAsRead
      <4>5. QED BY <2>1, <4>1, <4>3, <4>4, <1>cons, <1>nat, SkippedRead
    <3>2. CASE ~gotVersion
      BY <1>5, <2>1, <2>2, <3>2, <1>cons, StoredRead
    <3>3. QED BY <3>1, <3>2
  <2>3. FieldsAsRead'
    BY <2>1, <2>2, <1>cons DEF FieldsAsRead
  <2>4. QED BY <2>1, <2>3, <1>cons, <1>end
<1>skip. ASSUME Consume, Token.k # "value", UNCHANGED <<number, text>> PROVE FieldsAsRead'
  <2>1. \A f : pos + 1 \notin Said(body, f)
    BY <1>skip DEF Said, Token
  <2>2. ASSUME fresh PROVE NumbersAsRead' /\ TextsAsRead'
    <3>1. NumbersAsRead /\ TextsAsRead
      BY <2>2, <1>skip, <1>cons, <1>old DEF FieldsAsRead
    <3>2. QED BY <2>1, <3>1, <1>skip, <1>cons, <1>nat, SkippedRead
  <2>3. QED BY <2>2, <1>skip, <1>cons DEF FieldsAsRead
<1>6. CASE EndMap
  <2>1. Consume /\ Token = EndItem /\ UNCHANGED <<number, text>>
    BY <1>6 DEF EndMap
  <2>2. Token.k # "value"
    BY <2>1 DEF EndItem
  <2>3. pos + 1 \in 1 .. pos' /\ body'[pos + 1] = EndItem
    BY <2>1, <1>cons, <1>nat DEF Token
  <2>4. ItemEnded'
    BY <2>3 DEF ItemEnded
  <2>5. QED BY <2>1, <2>2, <2>4, <1>cons, <1>skip
<1>7. CASE SkipText
  <2>1. Consume /\ Token.k # "value" /\ UNCHANGED <<gotVersion, number, text>>
    BY <1>7 DEF SkipText, Text, Close
  <2>2. QED BY <2>1, <1>cons, <1>end, <1>skip
<1>8. CASE SyntaxError
  <2>1. /\ phase = "fetching" /\ parserStat' # "ok"
        /\ UNCHANGED <<phase, outcome, fetches>>
    BY <1>8, <1>inv DEF SyntaxError, TypeInv, LeftOnlyWhileFetching
  <2>2. QED
    BY <2>1, <1>idle DEF NothingYet, ItemEnded, FieldsAsRead, OkIsIdle, AcceptedAsSaid
<1>over. ASSUME FetchEnds("error") PROVE Rest
  <2>1. phase = "fetching" /\ phase' = "idle" /\ outcome' = "error" /\ fetches' = fetches
    BY <1>over DEF FetchEnds, Waiting
  <2>2. QED
    BY <2>1, <1>idle DEF NothingYet, ItemEnded, FieldsAsRead, OkIsIdle, AcceptedAsSaid
<1>9. CASE TransferFails \/ NothingScanned \/ ParserBroken \/ Incomplete
  BY <1>9, <1>over DEF TransferFails, NothingScanned, ParserBroken, Incomplete
<1>10. ASSUME NEW k \in BOOLEAN, ParseFinish(k) PROVE Rest
  <2>1. CASE FieldsOk /\ SignatureOk(k)
    <3>1. /\ phase = "fetching" /\ parserStat = "ok" /\ Complete
          /\ phase' = "idle" /\ UNCHANGED <<body, fetches, number>> /\ text' = ExeStripped
      BY <1>10 DEF ParseFinish, FetchEnds, Waiting
    <3>2. AcceptedAsSaid'
      BY <2>1, <3>1, AcceptedRead DEF AcceptedAsSaid
    <3>3. QED
      BY <3>1, <3>2, <1>idle DEF NothingYet, ItemEnded, FieldsAsRead, OkIsIdle
  <2>2. CASE ~(FieldsOk /\ SignatureOk(k))
    BY <1>10, <2>2, <1>over DEF ParseFinish
  <2>3. QED BY <2>1, <2>2
<1>11. CASE UNCHANGED vars
  BY <1>11, <1>old DEF vars, transferVars, handleVars, NothingYet, ItemEnded, FieldsAsRead,
     OkIsIdle, AcceptedAsSaid, NumbersAsRead, TextsAsRead, SaidSoFar, IsLast
<1>12. QED
  BY <1>1, <1>2, <1>3, <1>4, <1>5, <1>6, <1>7, <1>8, <1>9, <1>10, <1>11
     DEF Next, Receive, Finish

(* However the document is cut into chunks and whatever follows its first  *)
(* item, an accepted version has the numbers its document gives it and     *)
(* each string its document mentions; in the first fetch, every string.    *)
THEOREM AcceptedIsAsSaid == Spec => []AcceptedAsSaid
<1>1. SaidInv => AcceptedAsSaid
  BY DEF SaidInv
<1>2. QED BY <1>1, SaidInit, SaidStep, PTL DEF Spec

-----------------------------------------------------------------------------
(* What the conversions and the checks leave of a document.                *)

(* A number that fits an int is converted to itself.                       *)
LEMMA AsIntIdentity ==
  ASSUME NEW n \in 0 .. IntMax
  PROVE  AsInt(n) = n
<1> DEFINE m == 2 * (IntMax + 1)
           x == n + IntMax + 1
<1>1. m \in Nat /\ m > 0 /\ x \in 0 .. m - 1
  BY MetadataAssumption
<1> HIDE DEF m, x
<1>2. x % m = x
  BY <1>1
<1>3. QED BY <1>2, MetadataAssumption DEF AsInt, m, x

LEMMA SaidTypes == SaidInv => TypeInv
BY DEF SaidInv, AcceptedInv

(* A field that a document mentions has a last value there.                *)
LEMMA LastExists ==
  ASSUME NEW b \in Bodies, NEW f, Said(b, f) # {}
  PROVE  \E i \in Said(b, f) : \A j \in Said(b, f) : j <= i
<1>1. Len(b) \in Nat
  BY MetadataAssumption
<1> DEFINE behind == {k \in Nat : k <= Len(b) /\ Len(b) - k \in Said(b, f)}
<1>2. Said(b, f) \subseteq 1 .. Len(b)
  BY DEF Said, Indices
<1>3. PICK k \in behind : \A m \in behind : k <= m
  <2>1. behind # {}
    <3>1. PICK i \in Said(b, f) : TRUE
      OBVIOUS
    <3>2. Len(b) - i \in behind
      BY <1>1, <1>2, <3>1
    <3>3. QED BY <3>2
  <2>2. behind \subseteq Nat
    OBVIOUS
  <2> HIDE DEF behind
  <2>3. QED BY <2>1, <2>2, LeastNumber
<1>4. \A j \in Said(b, f) : j <= Len(b) - k
  <2>1. TAKE j \in Said(b, f)
  <2>2. j \in 1 .. Len(b) /\ Len(b) - (Len(b) - j) = j
    BY <1>1, <1>2
  <2>3. Len(b) - j \in behind
    BY <1>1, <2>2
  <2>4. k \in Nat /\ k <= Len(b) - j
    BY <1>3, <2>3
  <2>5. QED BY <1>1, <2>2, <2>4
<1>5. QED BY <1>1, <1>3, <1>4

(* What was accepted passed the checks and came from a document.           *)
OkPassed ==
  outcome = "ok" =>
    /\ body \in Bodies /\ (\E i \in Indices(body) : body[i] = Close)
    /\ phase = "idle" /\ \A f \in NumberFields : number[f] >= 0

LEMMA OkPassedInit == Init => OkPassed
BY DEF Init, OkPassed

LEMMA OkPassedStep == TypeInv /\ OkPassed /\ [Next]_vars => OkPassed'
<1> SUFFICES ASSUME TypeInv, OkPassed, [Next]_vars, outcome' = "ok" PROVE OkPassed'
  BY DEF OkPassed
<1>1. ASSUME NEW k \in BOOLEAN, ParseFinish(k) PROVE OkPassed'
  <2>1. body \in Bodies /\ Len(body) \in Nat /\ pos \in Nat /\ pos <= Len(body)
    BY <1>1, MetadataAssumption
       DEF ParseFinish, FetchEnds, Waiting, TypeInv, TypeOK, FetchingABody
  <2>2. FieldsOk /\ Complete /\ UNCHANGED <<body, number>> /\ phase' = "idle"
    BY <1>1 DEF ParseFinish, FetchEnds
  <2>3. \E i \in Indices(body) : body[i] = Close
    BY <2>1, <2>2 DEF Complete, Indices
  <2>4. QED BY <2>1, <2>2, <2>3 DEF FieldsOk, OkPassed
<1>2. ASSUME UNCHANGED <<outcome, body, phase, number>> PROVE OkPassed'
  BY <1>2 DEF OkPassed
<1>3. ASSUME phase = "fetching" PROVE outcome # "ok"
  BY <1>3 DEF OkPassed
<1>4. ASSUME left > 0 PROVE phase = "fetching"
  BY <1>4 DEF TypeInv, LeftOnlyWhileFetching
<1>5. ~(\E b \in Bodies : ParseInit(b)) /\ ~ParseInitFails
  BY DEF ParseInit, ParseInitFails
<1>6. ~Receive
  BY <1>3, <1>4 DEF Receive, ChunkArrives, ChunkIgnored, ProcessValue, EndMap,
     SkipText, SyntaxError, Consume, Waiting, handleVars
<1>7. ~(TransferFails \/ NothingScanned \/ ParserBroken \/ Incomplete)
  BY DEF TransferFails, NothingScanned, ParserBroken, Incomplete, FetchEnds
<1>8. CASE UNCHANGED vars
  BY <1>2, <1>8 DEF vars, handleVars, transferVars
<1>9. QED BY <1>1, <1>5, <1>6, <1>7, <1>8 DEF Next, Finish

(* A value is written for a field exactly if it is one the document says.  *)
LEMMA WrittenIsSaid ==
  ASSUME body \in Bodies, NEW f \in NumberFields, NEW i \in Indices(body)
  PROVE  Written(i, f) <=> i \in Said(body, f)
<1>1. EndItem \notin {body[e] : e \in 1 .. i} <=> \A e \in 1 .. i : body[e] # EndItem
  OBVIOUS
<1>2. ASSUME body[i].k = "value"
      PROVE  body[i].v.long \in 0 .. LongMax - 1 <=> ValidNumber(body[i].v)
  <2>1. body[i].v.long \in Int /\ LongMax \in Nat
    BY <1>2, TokenType, MetadataAssumption
  <2>2. QED BY <2>1 DEF ValidNumber
<1>3. QED BY <1>1, <1>2 DEF Written, Said

(* The numbers of an accepted version fit an int, each of them was in its  *)
(* document, and those that fitted an int there have been kept.            *)
THEOREM NumbersThatFitAreKept == Spec => []NumbersAsWritten
<1>1. ASSUME SaidInv, OkPassed PROVE NumbersAsWritten
  <2>1. SUFFICES ASSUME outcome = "ok", NEW f \in NumberFields
                 PROVE  /\ number[f] \in 0 .. IntMax
                        /\ \E i \in Indices(body) :
                             /\ Written(i, f)
                             /\ \A j \in Indices(body) : Written(j, f) => j <= i
                             /\ body[i].v.long <= IntMax => number[f] = body[i].v.long
    BY DEF NumbersAsWritten
  <2>2. body \in Bodies /\ number[f] >= 0 /\ number[f] = DescribedNumber(body, f)
    BY <1>1, <2>1 DEF OkPassed, SaidInv, AcceptedAsSaid
  <2>3. Said(body, f) # {} /\ number[f] = AsInt(LastSaid(body, f).long)
    BY <2>2 DEF DescribedNumber
  <2>4. \E i \in Said(body, f) : \A j \in Said(body, f) : j <= i
    BY <1>1, <2>1, <2>2, <2>3, LastExists
  <2>5. PICK i \in Said(body, f) : \A j \in Said(body, f) : j <= i
    BY <2>4
  <2>6. LastSaid(body, f) = body[i].v
    BY <2>5, LastIs
  <2>7. i \in Indices(body) /\ body[i].k = "value" /\ ValidNumber(body[i].v)
    BY <2>5 DEF Said
  <2>8. LastSaid(body, f).long \in Nat
    BY <2>2, <2>6, <2>7, TokenType DEF ValidNumber
  <2>9. number[f] \in 0 .. IntMax
    BY <2>2, <2>3, <2>8, AsIntType
  <2>10. body[i].v.long <= IntMax => number[f] = body[i].v.long
    BY <2>3, <2>6, <2>8, AsIntIdentity
  <2>11. \A j \in Indices(body) : Written(j, f) <=> j \in Said(body, f)
    BY <2>2, WrittenIsSaid
  <2>12. Written(i, f) /\ \A j \in Indices(body) : Written(j, f) => j <= i
    BY <2>5, <2>7, <2>11
  <2>13. QED BY <2>7, <2>9, <2>10, <2>12
<1>2. QED
  BY <1>1, SaidInit, SaidStep, OkPassedInit, OkPassedStep, SaidTypes, PTL DEF Spec

(* Where every document that ends mentions every string in its first item, *)
(* if only as null, an accepted version is its document in every field:    *)
(* nothing of an earlier fetch is left in it.                              *)
THEOREM CompleteDocumentsDoNotMix ==
  ASSUME \A b \in Bodies :
           (\E i \in Indices(b) : b[i] = Close) => \A f \in StringFields : Said(b, f) # {}
  PROVE  Spec => []AcceptedIsTheDocument
<1>1. AcceptedAsSaid /\ OkPassed => AcceptedIsTheDocument
  BY DEF AcceptedAsSaid, OkPassed, AcceptedIsTheDocument
<1>2. QED
  BY <1>1, AcceptedIsAsSaid, SaidInit, SaidStep, SaidTypes, OkPassedInit,
     OkPassedStep, PTL DEF Spec

(* Nor is there any of it in what the first fetch of a handle accepts.     *)
THEOREM FirstFetchDoesNotMix == Spec => [](fetches = 1 => AcceptedIsTheDocument)
<1>1. AcceptedAsSaid => (fetches = 1 => AcceptedIsTheDocument)
  BY DEF AcceptedAsSaid, AcceptedIsTheDocument
<1>2. QED BY <1>1, AcceptedIsAsSaid, PTL
=============================================================================

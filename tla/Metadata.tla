------------------------------ MODULE Metadata ------------------------------
(***************************************************************************)
(* Fetching and parsing the update metadata: src/parse.c and the part of   *)
(* api.c that drives it (parse_chunk, after_parse, fetch_and_parse).       *)
(*                                                                         *)
(* The server answers a fetch with a document, which curl hands over in    *)
(* chunks cut at arbitrary places.  A document is the sequence of tokens   *)
(* yajl finds in it: a value inside an item, the end of an item of the     *)
(* items array, the end of the document, text that calls nothing of        *)
(* sxupdate, or a token at which the parser fails.  One action is one      *)
(* callback, or the handling of one event of the transfer.                 *)
(*                                                                         *)
(* The handle outlives a fetch: an application may execute it again after  *)
(* a failure.  What the next fetch finds in the handle is what most of the *)
(* properties below are about.                                             *)
(***************************************************************************)
EXTENDS Documents, Integers, Sequences, FiniteSets

CONSTANTS
  Bodies,      \* the documents a server may answer with
  Strings,     \* the non-empty strings found in documents
  NULL,        \* a null char *
  Stripped,    \* Stripped[s] is s without a trailing ".exe"
  UsableUrls,  \* https, file and relative urls
  Decodable,   \* strings that base64 decodes to at least one byte
  IntMax,      \* INT_MAX
  LongMax,     \* LLONG_MAX, which is INTMAX_MAX
  MaxFetches   \* bound: how often the application executes one handle

NumberFields == {"major", "minor", "patch"}
StringFields == {"prerelease", "url", "filename", "signature"}

(* A JSON value is seen only through json_value_long (as an integer) and   *)
(* json_value_to_string_dup (as text): an integer has both, any other      *)
(* type reads as the integer zero, and null and "" read as no text.        *)
JsonInt(n, digits) == [long |-> n, text |-> digits]
JsonString(s)      == [long |-> 0, text |-> s]
JsonNull           == [long |-> 0, text |-> NULL]

JsonValues == [long : Int, text : Strings \cup {NULL}]

Value(field, v) == [k |-> "value", field |-> field, v |-> v]
Text            == [k |-> "text"]
Invalid         == [k |-> "invalid"]

Tokens == [k : {"value"}, field : NumberFields \cup StringFields, v : JsonValues]
            \cup {EndItem, Text, Invalid, Close}

ASSUME MetadataAssumption ==
  /\ Bodies \subseteq Seq(Tokens)
  /\ \A b \in Bodies : WellFormed(b)
  /\ NULL \notin Strings
  /\ Stripped \in [Strings -> Strings]
  /\ UsableUrls \subseteq Strings
  /\ Decodable \subseteq Strings
  /\ IntMax \in Nat
  /\ LongMax \in Nat /\ LongMax > IntMax
  /\ MaxFetches \in Nat

VARIABLES
  parserStat,  \* handle->parser.stat: ok or not
  scanned,     \* handle->parser.scanned_bytes > 0
  gotVersion,  \* handle->got_version
  number,      \* handle->latest_version: its version numbers
  text,        \* handle->latest_version: its strings that decide something
  decoded,     \* latest_version_internal.signature: the text it came from
  phase,       \* "idle", or "fetching" while curl_easy_perform runs
  body,        \* the document of the current or last fetch
  pos,         \* how many of its tokens have been consumed
  left,        \* tokens left in the chunk being parsed
  outcome,     \* what the last fetch gave: "none" while it runs
  fresh,       \* history: got_version was clear when the fetch began
  fetches,     \* history: calls of fetch_and_parse
  accepted     \* history: fetches that ended ok

handleVars   == <<parserStat, scanned, gotVersion, number, text, decoded>>
transferVars == <<phase, body, pos, left, outcome, fresh, fetches, accepted>>
vars         == <<handleVars, transferVars>>

Init ==
  /\ parserStat = "ok" /\ scanned = FALSE /\ gotVersion = FALSE
  /\ number = [f \in NumberFields |-> 0]
  /\ text = [f \in StringFields |-> NULL]
  /\ decoded = NULL
  /\ phase = "idle" /\ body = <<>> /\ pos = 0 /\ left = 0
  /\ outcome = "none" /\ fresh = TRUE /\ fetches = 0 /\ accepted = 0

-----------------------------------------------------------------------------
(* Starting a fetch                                                        *)

\* Mutant of NumbersForgotten: the reset is missing.
NumbersKept == number

(* sxupdate_parse_init forgets the numbers of the last fetch and nothing   *)
(* else of it; parser.stat, in particular, is what that fetch left.        *)
NumbersForgotten == [f \in NumberFields |-> -1]

\* Mutant of ParseInit: got_version is cleared for the new document.
ParseInitFresh(b) ==
  /\ phase = "idle" /\ fetches < MaxFetches
  /\ parserStat = "ok"
  /\ number' = NumbersForgotten /\ gotVersion' = FALSE
  /\ phase' = "fetching" /\ body' = b /\ pos' = 0 /\ left' = 0
  /\ outcome' = "none" /\ fresh' = ~gotVersion /\ fetches' = fetches + 1
  /\ UNCHANGED <<parserStat, scanned, text, decoded, accepted>>

ParseInit(b) ==
  /\ phase = "idle" /\ fetches < MaxFetches
  /\ parserStat = "ok"
  /\ number' = NumbersForgotten
  /\ phase' = "fetching" /\ body' = b /\ pos' = 0 /\ left' = 0
  /\ outcome' = "none" /\ fresh' = ~gotVersion /\ fetches' = fetches + 1
  /\ UNCHANGED <<parserStat, scanned, gotVersion, text, decoded, accepted>>

(* After a syntax error the handle refuses: fetch_and_parse returns the    *)
(* error of parse_init and never contacts the server.                      *)
ParseInitFails ==
  /\ phase = "idle" /\ fetches < MaxFetches
  /\ parserStat # "ok"
  /\ number' = NumbersForgotten
  /\ outcome' = "error" /\ fetches' = fetches + 1
  /\ UNCHANGED <<parserStat, scanned, gotVersion, text, decoded,
                 phase, body, pos, left, fresh, accepted>>

-----------------------------------------------------------------------------
(* Receiving the document                                                  *)

Waiting == phase = "fetching" /\ left = 0

(* curl calls sxupdate_parse_chunk with the next n tokens.                 *)
ChunkArrives(n) ==
  /\ Waiting /\ parserStat = "ok"
  /\ pos + n <= Len(body)
  /\ left' = n
  /\ UNCHANGED <<handleVars, phase, body, pos, outcome, fresh, fetches, accepted>>

(* ... which throws the chunk away once the parser has failed.             *)
ChunkIgnored(n) ==
  /\ Waiting /\ parserStat # "ok"
  /\ pos + n <= Len(body)
  /\ pos' = pos + n
  /\ UNCHANGED <<handleVars, phase, body, left, outcome, fresh, fetches, accepted>>

Token == body[pos + 1]

(* yajl consumes one token; at the last one of the chunk yajl_parse        *)
(* returns ok and sxupdate_parse counts the chunk's bytes.                 *)
Consume ==
  /\ left > 0
  /\ pos' = pos + 1 /\ left' = left - 1
  /\ scanned' = (scanned \/ left = 1)
  /\ UNCHANGED <<parserStat, decoded, phase, body, outcome, fresh, fetches, accepted>>

AsInt(n) == ((n + IntMax + 1) % (2 * (IntMax + 1))) - (IntMax + 1)

\* Mutant of ValidNumber: negative numbers are not ignored.
ValidNumberAnySign(v) == v.long < LongMax

ValidNumber(v) == 0 <= v.long /\ v.long < LongMax

(* The assignment sxupdate_process_value makes for a field it knows.       *)
Store(t) ==
  \/ /\ t.field \in StringFields
     /\ text' = [text EXCEPT ![t.field] = t.v.text]
     /\ UNCHANGED number
  \/ /\ t.field \in NumberFields
     /\ number' = IF ValidNumber(t.v)
                  THEN [number EXCEPT ![t.field] = AsInt(t.v.long)] ELSE number
     /\ UNCHANGED text

\* Mutant of ProcessValue: got_version is not looked at.
ProcessEveryValue ==
  /\ Consume /\ Token.k = "value"
  /\ Store(Token)
  /\ UNCHANGED gotVersion

ProcessValue ==
  /\ Consume /\ Token.k = "value"
  /\ IF gotVersion THEN UNCHANGED <<number, text>> ELSE Store(Token)
  /\ UNCHANGED gotVersion

\* Mutant of EndMap: got_version is not set.
EndMapUnnoticed ==
  /\ Consume /\ Token = EndItem
  /\ UNCHANGED <<gotVersion, number, text>>

EndMap ==
  /\ Consume /\ Token = EndItem
  /\ gotVersion' = TRUE
  /\ UNCHANGED <<number, text>>

SkipText ==
  /\ Consume /\ Token \in {Text, Close}
  /\ UNCHANGED <<gotVersion, number, text>>

\* Mutant of SyntaxError: the failed token is stepped over inside the chunk.
SyntaxErrorSkipped ==
  /\ left > 0 /\ Token = Invalid
  /\ pos' = pos + left
  /\ UNCHANGED <<handleVars, left, phase, body, outcome, fresh, fetches, accepted>>

(* yajl_parse returns an error: the chunk is not counted, its rest is lost *)
(* and the status stays in the handle.                                     *)
SyntaxError ==
  /\ left > 0 /\ Token = Invalid
  /\ parserStat' = "error"
  /\ pos' = pos + left /\ left' = 0
  /\ UNCHANGED <<scanned, gotVersion, number, text, decoded,
                 phase, body, outcome, fresh, fetches, accepted>>

-----------------------------------------------------------------------------
(* The end of the transfer                                                 *)

FetchEnds(result) ==
  /\ Waiting
  /\ phase' = "idle" /\ outcome' = result
  /\ accepted' = IF result = "ok" THEN accepted + 1 ELSE accepted
  /\ UNCHANGED <<body, pos, left, fresh, fetches>>

(* The connection failed, the progress callback aborted it, or the answer  *)
(* has a status outside 200..299: what arrived so far has been parsed.     *)
TransferFails ==
  /\ FetchEnds("error")
  /\ UNCHANGED handleVars

(* curl is content, but no chunk was ever counted.                         *)
NothingScanned ==
  /\ FetchEnds("error") /\ ~scanned
  /\ UNCHANGED handleVars

ParserBroken ==
  /\ FetchEnds("error") /\ scanned /\ parserStat # "ok"
  /\ UNCHANGED handleVars

Complete == \E i \in 1 .. pos : body[i] = Close

(* yajl_complete_parse finds the document cut short.  It flushes the       *)
(* lexer first, which may yield one more value: a number at the very end   *)
(* (any value, here: the handle is of no use any more).                    *)
Incomplete ==
  /\ FetchEnds("error") /\ scanned /\ parserStat = "ok" /\ ~Complete
  /\ parserStat' = "error"
  /\ \/ UNCHANGED <<number, text>>
     \/ /\ pos < Len(body) /\ Token.k = "value"
        /\ ~gotVersion /\ Store(Token)
  /\ UNCHANGED <<scanned, gotVersion, decoded>>

(* sxupdate_parse_ok.                                                      *)
FieldsOk ==
  /\ text["filename"] # NULL
  /\ text["url"] \in UsableUrls
  /\ \A f \in NumberFields : number[f] >= 0

SignatureOk(noPublicKey) ==
  IF noPublicKey THEN text["signature"] = NULL
                 ELSE text["signature"] \in Decodable

(* ".exe" is cut off the name whatever the other checks say ...            *)
ExeStripped ==
  IF text["filename"] = NULL THEN text
  ELSE [text EXCEPT !["filename"] = Stripped[@]]

(* ... and the signature is decoded only when they passed.                 *)
SignatureDecoded(noPublicKey) ==
  IF FieldsOk /\ ~noPublicKey /\ text["signature"] # NULL
  THEN IF text["signature"] \in Decodable THEN text["signature"] ELSE NULL
  ELSE decoded

ParseFinish(noPublicKey) ==
  /\ FetchEnds(IF FieldsOk /\ SignatureOk(noPublicKey) THEN "ok" ELSE "error")
  /\ scanned /\ parserStat = "ok" /\ Complete
  /\ text' = ExeStripped
  /\ decoded' = SignatureDecoded(noPublicKey)
  /\ UNCHANGED <<parserStat, scanned, gotVersion, number>>

-----------------------------------------------------------------------------
Receive ==
  \/ \E n \in 1 .. Len(body) : ChunkArrives(n) \/ ChunkIgnored(n)
  \/ ProcessValue \/ EndMap \/ SkipText \/ SyntaxError

Finish ==
  \/ TransferFails \/ NothingScanned \/ ParserBroken \/ Incomplete
  \/ \E noPublicKey \in BOOLEAN : ParseFinish(noPublicKey)

Next ==
  \/ \E b \in Bodies : ParseInit(b)
  \/ ParseInitFails
  \/ Receive
  \/ Finish

Spec == Init /\ [][Next]_vars

-----------------------------------------------------------------------------
(* Properties                                                              *)

(* Every variable has its type.                                            *)
TypeOK ==
  /\ parserStat \in {"ok", "error"}
  /\ scanned \in BOOLEAN /\ gotVersion \in BOOLEAN
  /\ number \in [NumberFields -> Int]
  /\ text \in [StringFields -> Strings \cup {NULL}]
  /\ decoded \in Strings \cup {NULL}
  /\ phase \in {"idle", "fetching"}
  /\ body \in Bodies \cup {<<>>}
  /\ pos \in Nat /\ left \in Nat /\ pos + left <= Len(body)
  /\ outcome \in {"none", "ok", "error"}
  /\ fresh \in BOOLEAN /\ fetches \in Nat /\ accepted \in Nat

(* A handle accepts the metadata of at most one fetch, however often it is *)
(* executed: got_version is never cleared, and every fetch starts by       *)
(* forgetting the version numbers.                                         *)
AcceptedOnce == accepted <= 1

(* The decoded signature, against which the installer will be verified, is *)
(* that of the version that was accepted, even if the handle is executed   *)
(* again before the download.                                              *)
DecodedIsAccepted ==
  decoded # NULL => accepted = 1 /\ decoded = text["signature"]

(* What the document says: the last usable value of the field in its first *)
(* item, wherever the chunks were cut.                                     *)
Said(b, f) ==
  {i \in Indices(b) :
     /\ b[i].k = "value" /\ b[i].field = f
     /\ f \in NumberFields => ValidNumber(b[i].v)
     /\ \A e \in 1 .. i : b[e] # EndItem}

LastSaid(b, f) == b[CHOOSE i \in Said(b, f) : \A j \in Said(b, f) : j <= i].v

DescribedNumber(b, f) ==
  IF Said(b, f) = {} THEN -1 ELSE AsInt(LastSaid(b, f).long)

DescribedText(b, f) ==
  LET s == IF Said(b, f) = {} THEN NULL ELSE LastSaid(b, f).text
  IN  IF f = "filename" /\ s # NULL THEN Stripped[s] ELSE s

(* An accepted version is the one its document describes, for any way the  *)
(* document was cut into chunks and whatever follows its first item: in    *)
(* every field if the fetch is the handle's first, and later on in the     *)
(* version numbers and in each field the document mentions.                *)
AcceptedAsSaid ==
  outcome = "ok" =>
    /\ \A f \in NumberFields : number[f] = DescribedNumber(body, f)
    /\ \A f \in StringFields :
         fetches = 1 \/ Said(body, f) # {} => text[f] = DescribedText(body, f)

(* The numbers of an accepted version come from its document: each         *)
(* fits an int, and is the last number from 0 up that the first item gives *)
(* its field, if that one fits an int itself.  No negative number gets in  *)
(* by turning positive where it is cut down to an int.                     *)
Written(i, f) ==
  /\ body[i].k = "value" /\ body[i].field = f
  /\ body[i].v.long \in 0 .. LongMax - 1
  /\ EndItem \notin {body[e] : e \in 1 .. i}

NumbersAsWritten ==
  outcome = "ok" => \A f \in NumberFields :
    /\ number[f] \in 0 .. IntMax
    /\ \E i \in Indices(body) :
         /\ Written(i, f) /\ \A j \in Indices(body) : Written(j, f) => j <= i
         /\ body[i].v.long <= IntMax => number[f] = body[i].v.long

(* A fetch is refused, fails or offers a version exactly as promised: once *)
(* an item has been read in a fetch that is over, no later fetch of the    *)
(* handle is accepted - not after an offer, and not after a document was   *)
(* refused or its transfer failed past the first item.                     *)
Contract == INSTANCE MetadataContract WITH
  busy   <- phase = "fetching",
  result <- outcome,
  broken <- parserStat = "error",
  spent  <- IF phase = "fetching" THEN ~fresh ELSE gotVersion,
  signed <- decoded # NULL

ImplementsContract == Contract!Spec

(* The same for every field of every fetch: "the latest version, as        *)
(* defined by the fetched metadata" (include/api.h).  The code does not    *)
(* keep it: a field the document leaves out keeps the value that an        *)
(* earlier, interrupted fetch put there.                                   *)
AcceptedIsTheDocument ==
  outcome = "ok" =>
    /\ \A f \in NumberFields : number[f] = DescribedNumber(body, f)
    /\ \A f \in StringFields : text[f] = DescribedText(body, f)
=============================================================================

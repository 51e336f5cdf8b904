------------------------------- MODULE Paths -------------------------------
(***************************************************************************)
(* Which field of the metadata a JSON value is for: the grammar of yajl    *)
(* (yajl_parser.c), which drives the level, the parents and the map keys   *)
(* that yajl_helper.c keeps, which the two callbacks of src/parse.c match  *)
(* with the paths they know.                                               *)
(*                                                                         *)
(* A document is read token by token, and any token may come; where curl   *)
(* cuts the text makes no difference to the parser between two tokens.     *)
(* Keys and paths are sequences of words and brackets, since a key may     *)
(* contain the brackets that structure a path.                             *)
(***************************************************************************)
EXTENDS Integers, Sequences, SequencesExt

CONSTANTS
  MaxLevel,  \* max_level, 32 in sxupdate_parse_init
  Keys,      \* the map keys of documents, as C strings
  NULL,      \* a null char *
  MaxDepth   \* bound: how deep documents nest

Brackets == {"lbrace", "lbracket"}

ASSUME PathsAssumption ==
  /\ MaxLevel \in Nat /\ MaxLevel >= 4
  /\ Keys \subseteq Seq(STRING)
  /\ NULL \notin Keys
  /\ MaxDepth \in Nat

VARIABLES
  states,      \* yajl's stateStack, its last element on top
  level,       \* st->level
  stack,       \* st->stack: the parents; what is left above level stays
  keys,        \* st->map_keys
  gotVersion,  \* handle->got_version
  nesting,     \* history: the arrays and maps that are open, with their keys
  odd,         \* history: a key with a bracket in it was read
  ended,       \* history: an item ended, in this document or an earlier one
  unended      \* history: a field's value came, and no end of an item after it

yajlVars   == <<states>>
helperVars == <<level, stack, keys>>
vars       == <<yajlVars, helperVars, gotVersion, nesting, odd, ended, unended>>

Init ==
  /\ states = <<"start">>
  /\ level = 0
  /\ stack = [i \in 0 .. MaxLevel - 1 |-> "none"]
  /\ keys = [i \in 0 .. MaxLevel - 1 |-> NULL]
  /\ gotVersion \in BOOLEAN
  /\ nesting = <<>> /\ odd = FALSE /\ ended = gotVersion /\ unended = FALSE

-----------------------------------------------------------------------------
(* Matching a path                                                         *)

Mismatch == <<"mismatch">>

\* Mutant of Behind: the end of the key is not looked for.
BehindAny(rest, i) ==
  IF rest = <<>> THEN rest
  ELSE IF Head(rest) # stack[i] THEN Mismatch
  ELSE IF Head(rest) = "lbrace" /\ Len(rest) > 1 THEN SubSeq(rest, 3, Len(rest))
  ELSE Tail(rest)

(* One round of the loop of got_path_aux: what of the path is left behind  *)
(* the parent at index i.  A key is compared with as much of the path as   *)
(* the key is long, so a key with brackets passes for more than one level. *)
Behind(rest, i) ==
  IF rest = <<>> THEN rest
  ELSE IF Head(rest) # stack[i] THEN Mismatch
  ELSE IF Head(rest) = "lbrace" /\ Len(rest) > 1
  THEN IF keys[i] # NULL /\ IsPrefix(keys[i], Tail(rest))
       THEN SubSeq(rest, Len(keys[i]) + 2, Len(rest)) ELSE Mismatch
  ELSE Tail(rest)

Behind2(path) == Behind(Behind(path, 0), 1)
Behind3(path) == Behind(Behind2(path), 2)
Behind4(path) == Behind(Behind3(path), 3)

ItemsPath     == <<"lbrace", "items", "lbracket">>
ItemPath      == ItemsPath \o <<"lbrace">>
VersionPath   == ItemsPath \o <<"lbrace", "version", "lbrace">>
EnclosurePath == ItemsPath \o <<"lbrace", "enclosure", "lbrace">>

ItemFields      == {"title", "link", "description", "pubDate"}
VersionFields   == {"major", "minor", "patch", "prerelease", "meta"}
EnclosureFields == {"url", "length", "type", "signature", "filename"}

(* yajl_helper_get_map_key(yh, 0); the code looks at the stack before it   *)
(* knows that the level is on it, to no effect.                            *)
PropName ==
  IF level \in 1 .. MaxLevel /\ stack[level - 1] = "lbrace" THEN keys[level - 1] ELSE NULL

Among(fields) == PropName \in {<<f>> : f \in fields}

(* What sxupdate_process_value knows a value that arrives now to be: the   *)
(* object and the field, or nothing.                                       *)
Place ==
  IF level = 3 /\ Behind3(ItemPath) # Mismatch
  THEN IF Among(ItemFields) THEN <<"item", PropName[1]>> ELSE <<>>
  ELSE IF level = 4 /\ Behind4(VersionPath) # Mismatch
  THEN IF Among(VersionFields) THEN <<"version", PropName[1]>> ELSE <<>>
  ELSE IF level = 4 /\ Behind4(EnclosurePath) # Mismatch
  THEN IF Among(EnclosureFields) THEN <<"enclosure", PropName[1]>> ELSE <<>>
  ELSE <<>>

(* Where it puts it: nowhere once got_version is set.                      *)
Target == IF gotVersion THEN <<>> ELSE Place

-----------------------------------------------------------------------------
(* yajl_do_parse                                                           *)

Top == states[Len(states)]
Becomes(s) == states' = [states EXCEPT ![Len(states)] = s]

(* The states in which a value may come, and what they become with it.     *)
Advanced ==
  [start |-> "complete", map_need_val |-> "map_got_val",
   array_start |-> "array_got_val", array_need_val |-> "array_got_val"]

ExpectsValue == Top \in DOMAIN Advanced

(* A string, a number, true, false, null, or a number out of range (which  *)
(* is handed over as an error value): sxupdate_process_value.              *)
Scalar ==
  /\ ExpectsValue
  /\ Becomes(Advanced[Top])
  /\ unended' = (unended \/ Place # <<>>)
  /\ UNCHANGED <<helperVars, gotVersion, nesting, odd, ended>>

(* yajl_helper_start_map and yajl_helper_start_array.                      *)
Start(bracket) ==
  /\ level' = level + 1
  /\ stack' = IF level < MaxLevel THEN [stack EXCEPT ![level] = bracket] ELSE stack
  /\ nesting' = Append(nesting, [kind |-> bracket, key |-> NULL])
  /\ UNCHANGED <<keys, gotVersion, odd, ended, unended>>

StartMap ==
  /\ ExpectsValue /\ Len(nesting) < MaxDepth
  /\ states' = Append([states EXCEPT ![Len(states)] = Advanced[Top]], "map_start")
  /\ Start("lbrace")

StartArray ==
  /\ ExpectsValue /\ Len(nesting) < MaxDepth
  /\ states' = Append([states EXCEPT ![Len(states)] = Advanced[Top]], "array_start")
  /\ Start("lbracket")

Plain(k) == \A i \in 1 .. Len(k) : k[i] \notin Brackets

MapKey(k) ==
  /\ Top \in {"map_start", "map_need_key"}
  /\ Becomes("map_sep")
  /\ keys' = IF level <= MaxLevel THEN [keys EXCEPT ![level - 1] = k] ELSE keys
  /\ nesting' = [nesting EXCEPT ![Len(nesting)].key = k]
  /\ odd' = (odd \/ ~Plain(k))
  /\ UNCHANGED <<level, stack, gotVersion, ended, unended>>

Colon ==
  /\ Top = "map_sep" /\ Becomes("map_need_val")
  /\ UNCHANGED <<helperVars, gotVersion, nesting, odd, ended, unended>>

Comma ==
  /\ \/ Top = "map_got_val" /\ Becomes("map_need_key")
     \/ Top = "array_got_val" /\ Becomes("array_need_val")
  /\ UNCHANGED <<helperVars, gotVersion, nesting, odd, ended, unended>>

(* The innermost array or map ends: yajl pops its state.                   *)
Ends ==
  /\ states' = Front(states)
  /\ nesting' = Front(nesting)
  /\ UNCHANGED <<stack, odd>>

(* What is about to end is an item of the items array.                     *)
AtItem ==
  /\ Len(nesting) = 3
  /\ nesting[1].kind = "lbrace" /\ nesting[1].key = <<"items">>
  /\ nesting[2].kind = "lbracket" /\ nesting[3].kind = "lbrace"

\* Mutant of ItemEnds: every map at that level is an item.
ItemEndsAnywhere == level - 1 = 2

\* Mutant of ItemEnds: the path is matched before the level has gone down.
ItemEndsLate == level = 2 /\ Behind2(ItemsPath) # Mismatch

(* sxupdate_end_map is called after the level has gone down.               *)
ItemEnds == level - 1 = 2 /\ Behind2(ItemsPath) # Mismatch

\* Mutant of EndMap: the key is left behind.
EndMapKeepsKey ==
  /\ Top \in {"map_start", "map_got_val"}
  /\ Ends
  /\ level' = level - 1 /\ keys' = keys
  /\ gotVersion' = (gotVersion \/ ItemEnds)
  /\ ended' = (ended \/ AtItem) /\ unended' = (unended /\ ~ItemEnds)

EndMap ==
  /\ Top \in {"map_start", "map_got_val"}
  /\ Ends
  /\ level' = level - 1
  /\ keys' = IF level - 1 < MaxLevel THEN [keys EXCEPT ![level - 1] = NULL] ELSE keys
  /\ gotVersion' = (gotVersion \/ ItemEnds)
  /\ ended' = (ended \/ AtItem) /\ unended' = (unended /\ ~ItemEnds)

\* Mutant of EndArray: the level stays.
EndArrayStays ==
  /\ Top \in {"array_start", "array_got_val"}
  /\ Ends
  /\ UNCHANGED <<level, keys, gotVersion, ended, unended>>

EndArray ==
  /\ Top \in {"array_start", "array_got_val"}
  /\ Ends
  /\ level' = level - 1
  /\ UNCHANGED <<keys, gotVersion, ended, unended>>

(* A token that the state does not allow, one that is none, or the end of  *)
(* the text before that of the document (yajl_do_finish).                  *)
ParseError ==
  /\ Top # "error" /\ Becomes("error")
  /\ UNCHANGED <<helperVars, gotVersion, nesting, odd, ended, unended>>

Next ==
  \/ Scalar \/ StartMap \/ StartArray
  \/ \E k \in Keys : MapKey(k)
  \/ Colon \/ Comma \/ EndMap \/ EndArray \/ ParseError

Spec == Init /\ [][Next]_vars

-----------------------------------------------------------------------------
(* Properties                                                              *)

Containers == [kind : Brackets, key : Keys \cup {NULL}]
ParserStates ==
  {"start", "complete", "error", "map_start", "map_sep", "map_need_val",
   "map_got_val", "map_need_key", "array_start", "array_got_val", "array_need_val"}

(* Every variable has its type.                                            *)
TypeOK ==
  /\ states \in Seq(ParserStates) /\ states # <<>>
  /\ level \in 0 .. MaxDepth
  /\ stack \in [0 .. MaxLevel - 1 -> Brackets \cup {"none"}]
  /\ keys \in [0 .. MaxLevel - 1 -> Keys \cup {NULL}]
  /\ gotVersion \in BOOLEAN
  /\ nesting \in Seq(Containers)
  /\ odd \in BOOLEAN /\ ended \in BOOLEAN /\ unended \in BOOLEAN

(* The helper's level, parents and keys are those of the arrays and maps   *)
(* that are open, down to the deepest level it keeps, and no key of a map  *)
(* that has ended is left for a later one.                                 *)
HelperFollowsNesting ==
  /\ level = Len(nesting)
  /\ \A i \in 0 .. MaxLevel - 1 :
       IF i < level THEN stack[i] = nesting[i + 1].kind /\ keys[i] = nesting[i + 1].key
                    ELSE keys[i] = NULL

(* What the nesting says a value is for.                                   *)
IsMap(i, key) == nesting[i].kind = "lbrace" /\ nesting[i].key = <<key>>

Named(object, field) ==
  /\ Len(nesting) >= 3
  /\ IsMap(1, "items") /\ nesting[2].kind = "lbracket"
  /\ \/ object = "item" /\ Len(nesting) = 3
        /\ field \in ItemFields /\ IsMap(3, field)
     \/ object = "version" /\ Len(nesting) = 4
        /\ IsMap(3, "version") /\ field \in VersionFields /\ IsMap(4, field)
     \/ object = "enclosure" /\ Len(nesting) = 4
        /\ IsMap(3, "enclosure") /\ field \in EnclosureFields /\ IsMap(4, field)

(* A value is stored in a field exactly if the document puts it there and  *)
(* no item has ended before it, at any place in any document whose keys    *)
(* contain no brackets: what is stored is the first item's.                *)
ValueGoesWhereNamed ==
  ExpectsValue /\ ~odd =>
    \A object \in {"item", "version", "enclosure"} :
      \A field \in ItemFields \cup VersionFields \cup EnclosureFields :
        Target = <<object, field>> <=> (Named(object, field) /\ ~ended)

(* got_version is set exactly when an item of the items array has ended.   *)
GotVersionAtItemEnd == ~odd => (gotVersion <=> ended)

(* By the end of the document an item has ended after every value of a     *)
(* field, the values that come too late to be taken included: what         *)
(* Metadata.tla assumes of documents (WellFormed).                         *)
ItemEndsAfterItsValues == ~odd /\ Top = "complete" => ~unended
=============================================================================

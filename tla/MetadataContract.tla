-------------------------- MODULE MetadataContract --------------------------
(***************************************************************************)
(* What fetching the metadata promises to the rest of the library, without *)
(* documents, chunks or fields.  A fetch is refused, fails, or offers a    *)
(* version.  A handle offers one version in its life: `spent` and `broken` *)
(* say that it has nothing left to offer, and neither is ever taken back.  *)
(* Metadata.tla implements this module; Sxupdate.tla builds on it.         *)
(***************************************************************************)
VARIABLES
  busy,     \* a fetch is running
  result,   \* how the last one ended, "none" while it runs
  scanned,  \* some chunk has been parsed, in this fetch or an earlier one
  broken,   \* the parser has failed: no further fetch will start
  spent,    \* before this fetch, an item was read: nothing will be offered
  signed    \* the offered version has a decoded signature

contractVars == <<busy, result, scanned, broken, spent, signed>>

Init ==
  /\ busy = FALSE /\ result = "none"
  /\ scanned = FALSE /\ broken = FALSE /\ spent = FALSE /\ signed = FALSE

Begin ==
  /\ ~busy /\ ~broken
  /\ busy' = TRUE /\ result' = "none"
  /\ UNCHANGED <<scanned, broken, spent, signed>>

Refuse ==
  /\ ~busy /\ broken
  /\ result' = "error"
  /\ UNCHANGED <<busy, scanned, broken, spent, signed>>

(* A chunk arrives: it is parsed, or it breaks the parser.                 *)
Receive ==
  /\ busy
  /\ scanned' \in {scanned, TRUE} /\ broken' \in {broken, TRUE}
  /\ UNCHANGED <<busy, result, spent, signed>>

Fail ==
  /\ busy
  /\ busy' = FALSE /\ result' = "error"
  /\ spent' \in {spent, TRUE} /\ broken' \in {broken, TRUE}
  /\ UNCHANGED <<scanned, signed>>

(* The version has a signature exactly if the application wants one.       *)
Offer(withSignature) ==
  /\ busy /\ scanned /\ ~broken /\ ~spent
  /\ busy' = FALSE /\ result' = "ok"
  /\ spent' = TRUE /\ signed' = withSignature
  /\ UNCHANGED <<scanned, broken>>

Next ==
  \/ Begin \/ Refuse \/ Receive \/ Fail
  \/ \E withSignature \in BOOLEAN : Offer(withSignature)

Spec == Init /\ [][Next]_contractVars
=============================================================================

--------------------------- MODULE UpdateContract ---------------------------
(***************************************************************************)
(* What an update handle promises to the application that owns it.  In the *)
(* life of the handle at most one version is offered; an installer starts  *)
(* only for an offered version that is newer than the running one, after   *)
(* the application agreed to it and the download was cleared; and it       *)
(* starts at most once.  Sxupdate.tla implements this module, and so does  *)
(* each update in Installer.tla.                                           *)
(***************************************************************************)
VARIABLES
  stage,  \* how far the update has come
  newer   \* the offered version is newer than the running one

contractVars == <<stage, newer>>

Init == stage = "waiting" /\ newer = FALSE

Offer   == stage = "waiting" /\ stage' = "offered" /\ newer' \in BOOLEAN
Agree   == stage = "offered" /\ newer /\ stage' = "agreed" /\ UNCHANGED newer
Clear   == stage = "agreed" /\ stage' = "cleared" /\ UNCHANGED newer
Start   == stage = "cleared" /\ stage' = "started" /\ UNCHANGED newer

(* The application declines, the offer finds nothing newer, or one of the  *)
(* steps that follow the agreement fails.                                  *)
GiveUp ==
  /\ stage \in {"offered", "agreed", "cleared"}
  /\ stage' = "over" /\ UNCHANGED newer

Next == Offer \/ Agree \/ Clear \/ Start \/ GiveUp

Spec == Init /\ [][Next]_contractVars
=============================================================================

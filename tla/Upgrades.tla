------------------------------ MODULE Upgrades ------------------------------
(***************************************************************************)
(* The versions an application goes through: the publisher replaces the    *)
(* metadata, the application executes the library, and is updated when the *)
(* library finds the published version newer and the user agrees (the end  *)
(* of sxupdate_execute in src/api.c, with the comparison of SemVer.tla).   *)
(***************************************************************************)
EXTENDS SemVer

CONSTANT Releases  \* the versions the publisher may publish

ASSUME UpgradesAssumption ==
  /\ Releases \subseteq Versions
  /\ \A v \in Releases : v.major >= 0 /\ v.minor >= 0 /\ v.patch >= 0

VARIABLES
  published,  \* the version the metadata on the server describes
  fetched,    \* handle->latest_version
  installed,  \* the version that runs, as get_current_version tells
  step,       \* handle->step, after the last execute
  enough      \* history: its comparison did not run out of memory

vars == <<published, fetched, installed, step, enough>>

(* The handle is calloc'ed.                                                *)
Unfetched == [major |-> 0, minor |-> 0, patch |-> 0, prerelease |-> NoPrerelease]

Init ==
  /\ published \in Releases /\ installed \in Releases
  /\ fetched = Unfetched
  /\ step = "none" /\ enough = TRUE

(* External: the publisher puts another document on the server.            *)
Publish(v) ==
  /\ published' = v
  /\ UNCHANGED <<fetched, installed, step, enough>>

StepOf(r) == IF r > 0 THEN "newer" ELSE "upToDate"

(* The metadata is fetched, and its version compared with the running one. *)
Check(memory) ==
  /\ fetched' = published
  /\ \E r \in VersionCmp(published, installed, memory) : step' = StepOf(r)
  /\ enough' = memory
  /\ UNCHANGED <<published, installed>>

(* The comparison ran beyond the end of a string, and the process with it: *)
(* the next one starts with a new handle.                                  *)
CheckCrashes ==
  /\ RunsOff(published, installed)
  /\ fetched' = Unfetched /\ step' = "none" /\ enough' = TRUE
  /\ UNCHANGED <<published, installed>>

\* Mutant of Update: the step is not looked at.
UpdateAnyStep ==
  /\ installed' = fetched /\ step' = "none"
  /\ UNCHANGED <<published, fetched, enough>>

(* The user agrees to a newer version and the installer replaces the       *)
(* application, which then runs as the version it was fetched as.          *)
Update ==
  /\ step = "newer"
  /\ installed' = fetched /\ step' = "none"
  /\ UNCHANGED <<published, fetched, enough>>

Next ==
  \/ \E v \in Releases : Publish(v)
  \/ \E memory \in BOOLEAN : Check(memory)
  \/ CheckCrashes
  \/ Update

Spec == Init /\ [][Next]_vars

-----------------------------------------------------------------------------
(* Properties                                                              *)

(* Every variable has its type, and a step that was reached came from a    *)
(* version that was fetched.                                               *)
TypeOK ==
  /\ published \in Releases /\ installed \in Releases
  /\ fetched \in Releases \/ (fetched = Unfetched /\ step = "none")
  /\ step \in {"none", "upToDate", "newer"}
  /\ enough \in BOOLEAN

(* Versions whose comparison ends within both of them: no identifier is    *)
(* blank, and neither pre-release continues the other.                     *)
Apart(v, w) == NoBlanks(v) /\ NoBlanks(w) /\ Unrelated(v, w)

(* An application is never replaced by a version that does not come after  *)
(* the one it runs, whatever is published and however often: it cannot be  *)
(* sent around in circles.  This holds of numbers that strtol cannot tell  *)
(* apart too, those too large for a long and those with leading zeros: the *)
(* code may overlook such a version, but never offers the lower one.       *)
NeverDowngrades ==
  [][installed' # installed /\ Apart(fetched, installed)
       => Lower(installed, installed')]_vars

(* An application is told that it is up to date only when the metadata has *)
(* nothing that comes after it, unless that has numbers too large for a    *)
(* long.                                                                   *)
UpToDateIsTrue ==
  step = "upToDate" /\ enough /\ Apart(fetched, installed) /\ Readable(fetched)
    => ~Lower(installed, fetched)

(* "newer version is available" (include/api.h, sxupdate_step) of versions *)
(* as semver.org orders them, which version.c refers to.  The code does    *)
(* not keep it for a pre-release that continues another one: it compares   *)
(* whatever follows the end of the shorter string in memory.               *)
OfferedIsNewer == step = "newer" => Lower(installed, fetched)
=============================================================================

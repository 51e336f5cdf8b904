------------------------------- MODULE SemVer -------------------------------
(***************************************************************************)
(* Comparing two semantic versions: src/version.c.  The library offers an  *)
(* update exactly when VersionCmp of the published version and the running *)
(* one is positive, so everything an application sees of progress rests on *)
(* this order.                                                             *)
(*                                                                         *)
(* A pre-release is the sequence of its dot-separated identifiers, and the *)
(* empty sequence where the pointer is null.  An identifier has a rank:    *)
(* its value if it consists of digits, else its place in the order of      *)
(* strcmp.  Build metadata is never compared and is left out.              *)
(***************************************************************************)
EXTENDS Integers, Sequences

CONSTANT LongMax  \* LONG_MAX, where strtol saturates

ASSUME SemVerAssumption == LongMax \in Nat

NoIdentifier == [kind |-> "empty", rank |-> 0, zeros |-> 0]

(* zeros counts the leading zeros of a number.                             *)
Identifiers ==
  [kind : {"numeric"}, rank : Nat, zeros : Nat]
    \cup [kind : {"alpha"}, rank : Nat, zeros : {0}]
    \cup {NoIdentifier}

NoPrerelease == <<>>

Versions == [major : Int, minor : Int, patch : Int, prerelease : Seq(Identifiers)]

-----------------------------------------------------------------------------
(* sxupdate_version_prerelease_cmp                                         *)

Strtol(n) == IF n <= LongMax THEN n ELSE LongMax

Differ(a, b) == IF a > b THEN 1 ELSE -1

\* Mutant of IdentifierCmp: of two numbers that strtol reads as the same one,
\* the first is greater.
IdentifierCmpTiesUp(a, b) ==
  IF a.kind # b.kind THEN (IF a.kind = "alpha" THEN 1 ELSE -1)
  ELSE IF a.kind = "alpha" THEN Differ(a.rank, b.rank)
  ELSE IF Strtol(a.rank) >= Strtol(b.rank) THEN 1 ELSE -1

(* Two identifiers that are not blank and not the same: a word ranks above *)
(* a number, and of two numbers that strtol reads as the same one either   *)
(* is less than the other.                                                 *)
IdentifierCmp(a, b) ==
  IF a.kind # b.kind THEN (IF a.kind = "alpha" THEN 1 ELSE -1)
  ELSE IF a.kind = "alpha" THEN Differ(a.rank, b.rank)
  ELSE Differ(Strtol(a.rank), Strtol(b.rank))

(* The loop goes on while both strings have the same identifier ...        *)
SameAt(x, y, i) ==
  /\ i \in 1 .. Len(x) /\ i \in 1 .. Len(y)
  /\ x[i] = y[i] /\ x[i] # NoIdentifier

(* ... and stops at the first place where they do not.                     *)
StopsAt(x, y, i) ==
  /\ i \in 1 .. Len(x) + 1
  /\ ~SameAt(x, y, i)
  /\ \A j \in 1 .. i - 1 : SameAt(x, y, j)

(* A blank identifier reads as the end of the string, and ranks lowest.    *)
PlaceCmp(a, b) ==
  IF b = NoIdentifier THEN (IF a = NoIdentifier THEN 0 ELSE 1)
  ELSE IF a = NoIdentifier THEN -1
  ELSE IdentifierCmp(a, b)

Outcomes == {-1, 0, 1}

(* What it returns at place i, if it returns.  Past its last identifier a  *)
(* string is read beyond its end, where any bytes may be, and a dot found  *)
(* there is overwritten: the program may go on as if nothing had happened, *)
(* with any result that the other string allows, or it may end right here  *)
(* (RunsOff).  The strings are not the same, so at most one of them has    *)
(* ended.                                                                  *)
ResultsAt(x, y, i) ==
  IF i > Len(x) THEN {r \in Outcomes : y[i] = NoIdentifier => r >= 0}
  ELSE IF i > Len(y) THEN {r \in Outcomes : x[i] = NoIdentifier => r <= 0}
  ELSE {PlaceCmp(x[i], y[i])}

PrereleaseCmp(x, y) ==
  UNION {ResultsAt(x, y, i) : i \in {j \in 1 .. Len(x) + 1 : StopsAt(x, y, j)}}

-----------------------------------------------------------------------------
(* sxupdate_version_cmp                                                    *)

NumbersCmp(v, w) ==
  IF v.major # w.major THEN Differ(v.major, w.major)
  ELSE IF v.minor # w.minor THEN Differ(v.minor, w.minor)
  ELSE IF v.patch # w.patch THEN Differ(v.patch, w.patch)
  ELSE 0

\* Mutant of VersionCmp: a pre-release ranks above its release.
VersionCmpPrereleaseHigher(v, w, memory) ==
  IF NumbersCmp(v, w) # 0 THEN {NumbersCmp(v, w)}
  ELSE IF v.prerelease = w.prerelease THEN {0}
  ELSE IF v.prerelease = NoPrerelease THEN {-1}
  ELSE IF w.prerelease = NoPrerelease THEN {1}
  ELSE IF ~memory THEN {0}
  ELSE PrereleaseCmp(v.prerelease, w.prerelease)

(* The results the comparison may return.  When there is no memory to copy *)
(* the pre-releases, it is as if the versions were equal.                  *)
VersionCmp(v, w, memory) ==
  IF NumbersCmp(v, w) # 0 THEN {NumbersCmp(v, w)}
  ELSE IF v.prerelease = w.prerelease THEN {0}
  ELSE IF v.prerelease = NoPrerelease THEN {1}
  ELSE IF w.prerelease = NoPrerelease THEN {-1}
  ELSE IF ~memory THEN {0}
  ELSE PrereleaseCmp(v.prerelease, w.prerelease)

(* The comparison reads beyond the end of one of the pre-releases.         *)
RunsOff(v, w) ==
  LET x == v.prerelease
      y == w.prerelease
  IN  /\ NumbersCmp(v, w) = 0
      /\ x # y /\ x # NoPrerelease /\ y # NoPrerelease
      /\ \E i \in 1 .. Len(x) + 1 : StopsAt(x, y, i) /\ (i > Len(x) \/ i > Len(y))

-----------------------------------------------------------------------------
(* The precedence of semver.org, section 11                                *)

LowerIdentifier(a, b) ==
  \/ a.kind = "numeric" /\ b.kind = "alpha"
  \/ a.kind = b.kind /\ a.rank < b.rank

LowerPrerelease(x, y) ==
  \/ x # NoPrerelease /\ y = NoPrerelease
  \/ /\ x # NoPrerelease
     /\ \E i \in 1 .. Len(y) :
          /\ \A j \in 1 .. i - 1 : j <= Len(x) /\ x[j] = y[j]
          /\ i > Len(x) \/ LowerIdentifier(x[i], y[i])

Lower(v, w) ==
  \/ v.major < w.major
  \/ v.major = w.major /\ v.minor < w.minor
  \/ v.major = w.major /\ v.minor = w.minor /\ v.patch < w.patch
  \/ /\ v.major = w.major /\ v.minor = w.minor /\ v.patch = w.patch
     /\ LowerPrerelease(v.prerelease, w.prerelease)

(* What semver.org and the schema ask of a pre-release: no blank           *)
(* identifiers, and no number with leading zeros.                          *)
NoBlanks(v) == \A i \in 1 .. Len(v.prerelease) : v.prerelease[i].kind # "empty"

Valid(v) ==
  NoBlanks(v) /\ \A i \in 1 .. Len(v.prerelease) : v.prerelease[i].zeros = 0

(* The numbers of a pre-release that strtol tells apart.                   *)
Readable(v) == \A i \in 1 .. Len(v.prerelease) :
  v.prerelease[i].kind = "numeric" => v.prerelease[i].rank <= LongMax

IsPrefix(x, y) ==
  Len(x) <= Len(y) /\ \A i \in 1 .. Len(x) : x[i] = y[i]

(* Neither pre-release is a longer version of the other.                   *)
Unrelated(v, w) ==
  LET x == v.prerelease
      y == w.prerelease
  IN  \/ x = y \/ x = NoPrerelease \/ y = NoPrerelease
      \/ ~IsPrefix(x, y) /\ ~IsPrefix(y, x)
=============================================================================

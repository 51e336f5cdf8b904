--------------------------- MODULE UpgradesProofs ---------------------------
(***************************************************************************)
(* Proofs about SemVer.tla and Upgrades.tla, for every LONG_MAX and every  *)
(* set of releases.                                                        *)
(***************************************************************************)
EXTENDS Upgrades, LeastElement, SequenceTheorems, TLAPS

-----------------------------------------------------------------------------
(* Where the loop stops                                                    *)

(* Two different pre-releases of which neither continues the other are     *)
(* compared at a place that both of them have, and before which they are   *)
(* the same.                                                               *)
LEMMA StopsInside ==
  ASSUME NEW x \in Seq(Identifiers), NEW y \in Seq(Identifiers),
         y # <<>>, ~IsPrefix(x, y), ~IsPrefix(y, x),
         NEW i, StopsAt(x, y, i)
  PROVE  /\ i \in 1 .. Len(x) /\ i \in 1 .. Len(y)
         /\ \A j \in 1 .. i - 1 : j <= Len(x) /\ j <= Len(y) /\ x[j] = y[j]
<1>1. Len(x) \in Nat /\ Len(y) \in Nat /\ Len(y) >= 1
  OBVIOUS
<1>2. i \in Nat /\ i >= 1 /\ i <= Len(x) + 1
  BY <1>1 DEF StopsAt
<1>3. \A j \in 1 .. i - 1 : j <= Len(x) /\ j <= Len(y) /\ x[j] = y[j]
  BY <1>1, <1>2 DEF StopsAt, SameAt
<1>4. i <= Len(x)
  <2>1. SUFFICES ASSUME i = Len(x) + 1 PROVE FALSE
    BY <1>1, <1>2
  <2>2. Len(x) <= Len(y)
    <3>1. CASE Len(x) = 0
      BY <3>1, <1>1
    <3>2. CASE Len(x) # 0
      BY <3>2, <2>1, <1>1, <1>3
    <3>3. QED BY <3>1, <3>2
  <2>3. IsPrefix(x, y)
    BY <2>1, <2>2, <1>1, <1>3 DEF IsPrefix
  <2>4. QED BY <2>3
<1>5. i <= Len(y)
  <2>1. SUFFICES ASSUME i > Len(y) PROVE FALSE
    BY <1>1, <1>2
  <2>2. \A j \in 1 .. Len(y) : j \in 1 .. i - 1
    BY <2>1, <1>1, <1>2
  <2>3. IsPrefix(y, x)
    BY <2>2, <1>1, <1>3, <1>4, <2>1, <1>2 DEF IsPrefix
  <2>4. QED BY <2>3
<1>6. QED BY <1>1, <1>2, <1>3, <1>4, <1>5

(* At that place the identifiers are different, and neither is blank.      *)
LEMMA DifferentThere ==
  ASSUME NEW x \in Seq(Identifiers), NEW y \in Seq(Identifiers),
         NEW i, StopsAt(x, y, i), i \in 1 .. Len(x), i \in 1 .. Len(y),
         x[i].kind # "empty"
  PROVE  x[i] # y[i]
BY DEF StopsAt, SameAt, NoIdentifier

-----------------------------------------------------------------------------
(* The comparison of two identifiers                                       *)

(* A greater identifier comes after the other, and one that comes after    *)
(* the other is greater if it is not too large for a long.                 *)
LEMMA IdentifierPrecedence ==
  ASSUME NEW a \in Identifiers, NEW b \in Identifiers, a # b,
         a.kind # "empty", b.kind # "empty"
  PROVE  /\ PlaceCmp(a, b) \in {-1, 1}
         /\ PlaceCmp(a, b) = 1 => LowerIdentifier(b, a)
         /\ LowerIdentifier(b, a) /\ (a.kind = "numeric" => a.rank <= LongMax)
              => PlaceCmp(a, b) = 1
<1>1. a.rank \in Nat /\ b.rank \in Nat /\ a.kind \in {"numeric", "alpha"}
      /\ b.kind \in {"numeric", "alpha"}
  BY DEF Identifiers, NoIdentifier
<1>2. PlaceCmp(a, b) = IdentifierCmp(a, b)
  BY DEF PlaceCmp, NoIdentifier
<1>3. CASE a.kind # b.kind
  BY <1>1, <1>2, <1>3 DEF IdentifierCmp, LowerIdentifier
<1>4. CASE a.kind = "alpha" /\ b.kind = "alpha"
  <2>1. a.rank # b.rank
    BY <1>1, <1>4 DEF Identifiers, NoIdentifier
  <2>2. IdentifierCmp(a, b) = Differ(a.rank, b.rank)
    BY <1>4 DEF IdentifierCmp
  <2>3. QED BY <1>1, <1>2, <1>4, <2>1, <2>2 DEF Differ, LowerIdentifier
<1>5. CASE a.kind = "numeric" /\ b.kind = "numeric"
  <2>1. IdentifierCmp(a, b) = Differ(Strtol(a.rank), Strtol(b.rank))
    BY <1>5 DEF IdentifierCmp
  <2>2. LongMax \in Nat
    BY SemVerAssumption
  <2>3. Strtol(a.rank) > Strtol(b.rank) => b.rank < a.rank
    BY <1>1, <2>2 DEF Strtol
  <2>4. b.rank < a.rank /\ a.rank <= LongMax => Strtol(a.rank) > Strtol(b.rank)
    BY <1>1, <2>2 DEF Strtol
  <2>5. QED BY <1>2, <1>5, <2>1, <2>3, <2>4 DEF Differ, LowerIdentifier
<1>6. QED BY <1>1, <1>3, <1>4, <1>5

(* No identifier is lower than itself.                                     *)
LEMMA IdentifierIrreflexive ==
  ASSUME NEW a \in Identifiers
  PROVE  ~LowerIdentifier(a, a)
BY DEF LowerIdentifier, Identifiers, NoIdentifier

-----------------------------------------------------------------------------
(* The comparison of two versions                                          *)

(* A pre-release is lower than another exactly if its identifier is lower  *)
(* at the place where the loop stops.                                      *)
LEMMA LowerWhereItStops ==
  ASSUME NEW x \in Seq(Identifiers), NEW y \in Seq(Identifiers),
         y # <<>>, x # <<>>, ~IsPrefix(x, y), ~IsPrefix(y, x),
         \A j \in 1 .. Len(x) : x[j].kind # "empty",
         NEW i, StopsAt(x, y, i)
  PROVE  LowerPrerelease(y, x) <=> LowerIdentifier(y[i], x[i])
<1>1. Len(x) \in Nat /\ Len(y) \in Nat
  OBVIOUS
<1>2. /\ i \in 1 .. Len(x) /\ i \in 1 .. Len(y)
      /\ \A j \in 1 .. i - 1 : j <= Len(x) /\ j <= Len(y) /\ x[j] = y[j]
  BY StopsInside
<1>3. x[i] # y[i]
  BY <1>2, DifferentThere
<1>4. ASSUME LowerIdentifier(y[i], x[i]) PROVE LowerPrerelease(y, x)
  BY <1>2, <1>4 DEF LowerPrerelease, NoPrerelease
<1>5. ASSUME LowerPrerelease(y, x) PROVE LowerIdentifier(y[i], x[i])
  <2>1. PICK k \in 1 .. Len(x) :
          /\ \A j \in 1 .. k - 1 : j <= Len(y) /\ y[j] = x[j]
          /\ k > Len(y) \/ LowerIdentifier(y[k], x[k])
    BY <1>5 DEF LowerPrerelease, NoPrerelease
  <2>2. k <= Len(y)
    <3>1. SUFFICES ASSUME k > Len(y) PROVE FALSE
      BY <1>1, <2>1
    <3>2. \A j \in 1 .. Len(y) : j \in 1 .. k - 1
      BY <3>1, <1>1
    <3>3. IsPrefix(y, x)
      BY <3>1, <3>2, <2>1, <1>1 DEF IsPrefix
    <3>4. QED BY <3>3
  <2>3. ~(k < i)
    <3>1. SUFFICES ASSUME k < i PROVE FALSE
      OBVIOUS
    <3>2. x[k] = y[k] /\ x[k] \in Identifiers
      BY <3>1, <1>1, <1>2, <2>1
    <3>3. QED BY <3>2, <2>1, <2>2, <1>1, IdentifierIrreflexive
  <2>4. ~(k > i)
    <3>1. SUFFICES ASSUME k > i PROVE FALSE
      OBVIOUS
    <3>2. i \in 1 .. k - 1
      BY <3>1, <1>1, <1>2
    <3>3. QED BY <3>2, <2>1, <1>3
  <2>5. k = i
    BY <2>3, <2>4, <1>1, <1>2
  <2>6. QED BY <2>1, <2>2, <2>5, <1>1
<1>6. QED BY <1>4, <1>5

(* If the comparison of two versions that are apart is positive, the first *)
(* comes after the second.  If the first comes after the second, and its   *)
(* numbers fit a long, only a want of memory can keep the comparison from  *)
(* being positive.                                                         *)
THEOREM ComparisonIsPrecedence ==
  ASSUME NEW v \in Versions, NEW w \in Versions, NEW memory \in BOOLEAN,
         Apart(v, w), NEW r \in VersionCmp(v, w, memory)
  PROVE  /\ r \in Outcomes
         /\ r > 0 => Lower(w, v)
         /\ memory /\ Readable(v) /\ Lower(w, v) => r > 0
<1> DEFINE x == v.prerelease
           y == w.prerelease
<1>1. /\ v.major \in Int /\ v.minor \in Int /\ v.patch \in Int
      /\ w.major \in Int /\ w.minor \in Int /\ w.patch \in Int
      /\ x \in Seq(Identifiers) /\ y \in Seq(Identifiers)
  BY DEF Versions
<1>2. CASE NumbersCmp(v, w) # 0
  BY <1>1, <1>2 DEF VersionCmp, NumbersCmp, Differ, Lower, Outcomes
<1>3. CASE NumbersCmp(v, w) = 0
  <2>1. v.major = w.major /\ v.minor = w.minor /\ v.patch = w.patch
    BY <1>1, <1>3 DEF NumbersCmp, Differ
  <2>2. Lower(w, v) <=> LowerPrerelease(y, x)
    BY <1>1, <2>1 DEF Lower
  <2>3. CASE x = y
    <3>1. r = 0
      BY <1>3, <2>3 DEF VersionCmp
    <3>2. ~LowerPrerelease(x, x)
      <4>1. Len(x) \in Nat
        BY <1>1
      <4>2. \A i \in 1 .. Len(x) : x[i] \in Identifiers
        BY <1>1
      <4>3. \A i \in 1 .. Len(x) : ~(i > Len(x)) /\ ~LowerIdentifier(x[i], x[i])
        BY <4>1, <4>2, IdentifierIrreflexive
      <4>4. QED BY <4>3 DEF LowerPrerelease
    <3>3. QED BY <2>2, <2>3, <3>1, <3>2 DEF Outcomes
  <2>4. CASE x # y /\ x = NoPrerelease
    BY <1>3, <2>2, <2>4 DEF VersionCmp, LowerPrerelease, Outcomes
  <2>5. CASE x # y /\ x # NoPrerelease /\ y = NoPrerelease
    <3>1. r = -1
      BY <1>3, <2>5 DEF VersionCmp
    <3>2. ~LowerPrerelease(y, x)
      BY <2>5 DEF LowerPrerelease
    <3>3. QED BY <2>2, <3>1, <3>2 DEF Outcomes
  <2>6. CASE x # y /\ x # NoPrerelease /\ y # NoPrerelease /\ ~memory
    BY <1>3, <2>6 DEF VersionCmp, Outcomes
  <2>7. CASE x # y /\ x # NoPrerelease /\ y # NoPrerelease /\ memory
    <3>1. r \in PrereleaseCmp(x, y)
      BY <1>3, <2>7 DEF VersionCmp
    <3>2. PICK i : StopsAt(x, y, i) /\ r \in ResultsAt(x, y, i)
      BY <3>1 DEF PrereleaseCmp
    <3>3. ~IsPrefix(x, y) /\ ~IsPrefix(y, x)
      BY <2>7 DEF Apart, Unrelated
    <3>4. i \in 1 .. Len(x) /\ i \in 1 .. Len(y)
      BY <1>1, <2>7, <3>2, <3>3, StopsInside DEF NoPrerelease
    <3>5. r = PlaceCmp(x[i], y[i])
      BY <1>1, <3>2, <3>4 DEF ResultsAt
    <3>6. /\ \A j \in 1 .. Len(x) : x[j].kind # "empty"
          /\ \A j \in 1 .. Len(y) : y[j].kind # "empty"
      BY DEF Apart, NoBlanks
    <3>7. x[i] # y[i]
      BY <1>1, <3>2, <3>4, <3>6, DifferentThere
    <3>8. /\ x[i] \in Identifiers /\ y[i] \in Identifiers
          /\ Readable(v) => (x[i].kind = "numeric" => x[i].rank <= LongMax)
      BY <1>1, <3>4 DEF Readable
    <3>9. /\ r \in {-1, 1}
          /\ r = 1 => LowerIdentifier(y[i], x[i])
          /\ Readable(v) /\ LowerIdentifier(y[i], x[i]) => r = 1
      BY <3>4, <3>5, <3>6, <3>7, <3>8, IdentifierPrecedence
    <3>10. LowerPrerelease(y, x) <=> LowerIdentifier(y[i], x[i])
      BY <1>1, <2>7, <3>2, <3>3, <3>6, LowerWhereItStops DEF NoPrerelease
    <3>11. QED BY <2>2, <3>9, <3>10 DEF Outcomes
  <2>8. QED BY <2>3, <2>4, <2>5, <2>6, <2>7
<1>4. QED BY <1>2, <1>3

-----------------------------------------------------------------------------
(* Where the comparison leaves its strings                                 *)

(* The comparison reads beyond the end of a string exactly if the versions *)
(* differ only in their pre-releases, and one of these continues the other *)
(* and has no blank identifier before the place where the other ends.      *)
THEOREM ComparisonRunsOffExactly ==
  ASSUME NEW v \in Versions, NEW w \in Versions
  PROVE  RunsOff(v, w) <=>
           /\ v.major = w.major /\ v.minor = w.minor /\ v.patch = w.patch
           /\ v.prerelease # NoPrerelease /\ w.prerelease # NoPrerelease
           /\ v.prerelease # w.prerelease
           /\ \/ IsPrefix(v.prerelease, w.prerelease) /\ NoBlanks(v)
              \/ IsPrefix(w.prerelease, v.prerelease) /\ NoBlanks(w)
<1> DEFINE x == v.prerelease
           y == w.prerelease
<1>1. /\ v.major \in Int /\ v.minor \in Int /\ v.patch \in Int
      /\ w.major \in Int /\ w.minor \in Int /\ w.patch \in Int
      /\ x \in Seq(Identifiers) /\ y \in Seq(Identifiers)
  BY DEF Versions
<1>2. NumbersCmp(v, w) = 0 <=> v.major = w.major /\ v.minor = w.minor /\ v.patch = w.patch
  BY <1>1 DEF NumbersCmp, Differ
<1>3. Len(x) \in Nat /\ Len(y) \in Nat
  BY <1>1
<1>4. /\ \A j \in 1 .. Len(x) : x[j].kind # "empty" <=> x[j] # NoIdentifier
      /\ \A j \in 1 .. Len(y) : y[j].kind # "empty" <=> y[j] # NoIdentifier
  <2>1. \A a \in Identifiers : a.kind # "empty" <=> a # NoIdentifier
    BY DEF Identifiers, NoIdentifier
  <2>2. /\ \A j \in 1 .. Len(x) : x[j] \in Identifiers
        /\ \A j \in 1 .. Len(y) : y[j] \in Identifiers
    BY <1>1
  <2>3. QED BY <2>1, <2>2
<1>5. ASSUME x # <<>>, y # <<>>, NEW i \in 1 .. Len(x) + 1, StopsAt(x, y, i),
             i > Len(x) \/ i > Len(y)
      PROVE  (IsPrefix(x, y) /\ NoBlanks(v)) \/ (IsPrefix(y, x) /\ NoBlanks(w))
  <2>1. \A j \in 1 .. i - 1 : /\ j \in 1 .. Len(x) /\ j \in 1 .. Len(y)
                             /\ x[j] = y[j] /\ x[j] # NoIdentifier
    BY <1>5 DEF StopsAt, SameAt
  <2>2. Len(x) >= 1 /\ Len(y) >= 1
    BY <1>1, <1>5
  <2>3. CASE i > Len(x)
    <3>1. \A j \in 1 .. Len(x) : j \in 1 .. i - 1
      BY <1>3, <2>3
    <3>2. Len(x) \in 1 .. Len(y)
      BY <1>3, <2>1, <2>2, <3>1
    <3>3. IsPrefix(x, y)
      BY <1>3, <2>1, <3>1, <3>2 DEF IsPrefix
    <3>4. NoBlanks(v)
      BY <1>4, <2>1, <3>1 DEF NoBlanks
    <3>5. QED BY <3>3, <3>4
  <2>4. CASE i > Len(y)
    <3>1. \A j \in 1 .. Len(y) : j \in 1 .. i - 1
      BY <1>3, <2>4
    <3>2. Len(y) \in 1 .. Len(x)
      BY <1>3, <2>1, <2>2, <3>1
    <3>3. IsPrefix(y, x)
      BY <1>3, <2>1, <3>1, <3>2 DEF IsPrefix
    <3>4. NoBlanks(w)
      BY <1>4, <2>1, <3>1 DEF NoBlanks
    <3>5. QED BY <3>3, <3>4
  <2>5. QED BY <1>5, <2>3, <2>4
<1>6. ASSUME IsPrefix(x, y), NoBlanks(v)
      PROVE  \E i \in 1 .. Len(x) + 1 : StopsAt(x, y, i) /\ (i > Len(x) \/ i > Len(y))
  <2>1. \A j \in 1 .. Len(x) : SameAt(x, y, j)
    BY <1>3, <1>4, <1>6 DEF SameAt, IsPrefix, NoBlanks
  <2>2. StopsAt(x, y, Len(x) + 1)
    BY <1>3, <2>1 DEF StopsAt, SameAt
  <2>3. QED BY <1>3, <2>2
<1>7. ASSUME IsPrefix(y, x), NoBlanks(w)
      PROVE  \E i \in 1 .. Len(x) + 1 : StopsAt(x, y, i) /\ (i > Len(x) \/ i > Len(y))
  <2>1. \A j \in 1 .. Len(y) : SameAt(x, y, j)
    BY <1>3, <1>4, <1>7 DEF SameAt, IsPrefix, NoBlanks
  <2>2. Len(y) + 1 \in 1 .. Len(x) + 1
    BY <1>3, <1>7 DEF IsPrefix
  <2>3. StopsAt(x, y, Len(y) + 1)
    BY <1>3, <2>1, <2>2 DEF StopsAt, SameAt
  <2>4. QED BY <1>3, <2>2, <2>3
<1>8. QED BY <1>2, <1>5, <1>6, <1>7 DEF RunsOff, NoPrerelease

-----------------------------------------------------------------------------
(* The precedence is an order                                              *)

LEMMA IdentifiersTransitive ==
  ASSUME NEW a \in Identifiers, NEW b \in Identifiers, NEW c \in Identifiers,
         LowerIdentifier(a, b), LowerIdentifier(b, c)
  PROVE  LowerIdentifier(a, c)
<1>1. a.rank \in Int /\ b.rank \in Int /\ c.rank \in Int
  BY DEF Identifiers, NoIdentifier
<1>2. QED BY <1>1 DEF LowerIdentifier

(* Of two pre-releases that do not end with it, the lower one is lower at  *)
(* some place.                                                             *)
LowerAt(x, y, i) ==
  /\ i \in 1 .. Len(y)
  /\ \A j \in 1 .. i - 1 : j <= Len(x) /\ x[j] = y[j]
  /\ i > Len(x) \/ LowerIdentifier(x[i], y[i])

LEMMA LowerSomewhere ==
  ASSUME NEW x, NEW y, x # NoPrerelease, y # NoPrerelease
  PROVE  LowerPrerelease(x, y) <=> \E i : LowerAt(x, y, i)
BY DEF LowerPrerelease, LowerAt

LEMMA PrereleasesTransitive ==
  ASSUME NEW x \in Seq(Identifiers), NEW y \in Seq(Identifiers), NEW z \in Seq(Identifiers),
         LowerPrerelease(x, y), LowerPrerelease(y, z)
  PROVE  LowerPrerelease(x, z)
<1>1. x # NoPrerelease /\ y # NoPrerelease
  BY DEF LowerPrerelease
<1>2. CASE z = NoPrerelease
  BY <1>1, <1>2 DEF LowerPrerelease
<1>3. CASE z # NoPrerelease
  <2>1. PICK i : LowerAt(x, y, i)
    BY <1>1, LowerSomewhere
  <2>2. PICK k : LowerAt(y, z, k)
    BY <1>1, <1>3, LowerSomewhere
  <2>3. Len(x) \in Nat /\ Len(y) \in Nat /\ Len(z) \in Nat
    OBVIOUS
  <2>4. i \in 1 .. Len(y) /\ k \in 1 .. Len(z)
    BY <2>1, <2>2 DEF LowerAt
  <2>5. CASE i < k
    <3>1. i \in 1 .. k - 1 /\ i \in 1 .. Len(z)
      BY <2>3, <2>4, <2>5
    <3>2. y[i] = z[i] /\ \A j \in 1 .. i - 1 : y[j] = z[j]
      BY <2>2, <2>3, <2>4, <2>5, <3>1 DEF LowerAt
    <3>3. LowerAt(x, z, i)
      BY <2>1, <3>1, <3>2 DEF LowerAt
    <3>4. QED BY <1>1, <1>3, <3>3, LowerSomewhere
  <2>6. CASE k < i
    <3>1. k \in 1 .. i - 1 /\ k \in 1 .. Len(y)
      BY <2>3, <2>4, <2>6
    <3>2. x[k] = y[k] /\ \A j \in 1 .. k - 1 : j <= Len(x) /\ x[j] = y[j]
      BY <2>1, <2>3, <2>4, <2>6, <3>1 DEF LowerAt
    <3>3. LowerIdentifier(y[k], z[k])
      BY <2>2, <2>3, <3>1 DEF LowerAt
    <3>4. \A j \in 1 .. k - 1 : y[j] = z[j]
      BY <2>2 DEF LowerAt
    <3>5. LowerAt(x, z, k)
      BY <2>4, <3>2, <3>3, <3>4 DEF LowerAt
    <3>6. QED BY <1>1, <1>3, <3>5, LowerSomewhere
  <2>7. CASE i = k
    <3>1. \A j \in 1 .. i - 1 : j <= Len(x) /\ x[j] = z[j]
      BY <2>1, <2>2, <2>7 DEF LowerAt
    <3>2. LowerIdentifier(y[i], z[i])
      BY <2>2, <2>3, <2>4, <2>7 DEF LowerAt
    <3>3. i > Len(x) \/ LowerIdentifier(x[i], z[i])
      <4>1. SUFFICES ASSUME ~(i > Len(x)) PROVE LowerIdentifier(x[i], z[i])
        OBVIOUS
      <4>2. LowerIdentifier(x[i], y[i])
        BY <2>1, <4>1 DEF LowerAt
      <4>3. x[i] \in Identifiers /\ y[i] \in Identifiers /\ z[i] \in Identifiers
        BY <2>3, <2>4, <2>7, <4>1
      <4>4. QED BY <3>2, <4>2, <4>3, IdentifiersTransitive
    <3>4. LowerAt(x, z, i)
      BY <2>4, <2>7, <3>1, <3>3 DEF LowerAt
    <3>5. QED BY <1>1, <1>3, <3>4, LowerSomewhere
  <2>8. QED BY <2>3, <2>4, <2>5, <2>6, <2>7
<1>4. QED BY <1>2, <1>3

LEMMA PrereleasesIrreflexive ==
  ASSUME NEW x \in Seq(Identifiers) PROVE ~LowerPrerelease(x, x)
<1>1. Len(x) \in Nat /\ \A i \in 1 .. Len(x) : x[i] \in Identifiers
  OBVIOUS
<1>2. \A i \in 1 .. Len(x) : ~(i > Len(x)) /\ ~LowerIdentifier(x[i], x[i])
  BY <1>1, IdentifierIrreflexive
<1>3. QED BY <1>2 DEF LowerPrerelease

(* A pre-release that semver.org allows.                                   *)
ValidIds(x) == \A i \in 1 .. Len(x) : x[i].kind # "empty" /\ x[i].zeros = 0

LEMMA IdentifiersTotal ==
  ASSUME NEW a \in Identifiers, NEW b \in Identifiers, a # b,
         a.kind # "empty", b.kind # "empty", a.zeros = 0, b.zeros = 0
  PROVE  LowerIdentifier(a, b) \/ LowerIdentifier(b, a)
<1>1. a.rank \in Nat /\ b.rank \in Nat /\ a.kind \in {"numeric", "alpha"}
      /\ b.kind \in {"numeric", "alpha"}
  BY DEF Identifiers, NoIdentifier
<1>2. a.kind = b.kind => a.rank # b.rank
  BY <1>1 DEF Identifiers, NoIdentifier
<1>3. QED BY <1>1, <1>2 DEF LowerIdentifier

LEMMA PrereleasesTotal ==
  ASSUME NEW x \in Seq(Identifiers), NEW y \in Seq(Identifiers), x # y,
         ValidIds(x), ValidIds(y)
  PROVE  LowerPrerelease(x, y) \/ LowerPrerelease(y, x)
<1>1. Len(x) \in Nat /\ Len(y) \in Nat
  OBVIOUS
<1>2. CASE x = NoPrerelease \/ y = NoPrerelease
  BY <1>2 DEF LowerPrerelease
<1>3. CASE x # NoPrerelease /\ y # NoPrerelease
  <2> DEFINE Agree(i) == i <= Len(x) /\ i <= Len(y) /\ x[i] = y[i]
             different == {i \in 1 .. Len(x) + 1 : ~Agree(i)}
  <2>1. Len(x) + 1 \in different
    BY <1>1
  <2>2. PICK i \in different : \A k \in different : i <= k
    <3>1. different \subseteq Nat /\ different # {}
      BY <1>1, <2>1
    <3> HIDE DEF different
    <3>2. QED BY <3>1, LeastNumber
  <2>3. i \in 1 .. Len(x) + 1 /\ ~Agree(i)
    OBVIOUS
  <2>4. \A j \in 1 .. i - 1 : Agree(j)
    <3>1. TAKE j \in 1 .. i - 1
    <3>2. j \in 1 .. Len(x) + 1 /\ ~(i <= j)
      BY <1>1, <2>3
    <3>3. QED BY <2>2, <3>2
  <2>5. \A j \in 1 .. i - 1 : j <= Len(x) /\ j <= Len(y) /\ x[j] = y[j]
    BY <2>4
  <2>6. CASE i > Len(x)
    <3>1. i <= Len(y)
      <4>1. SUFFICES ASSUME i > Len(y) PROVE FALSE
        BY <1>1, <2>3
      <4>2. \A j \in 1 .. Len(x) : j <= Len(y) /\ x[j] = y[j]
        BY <1>1, <2>3, <2>5, <2>6
      <4>3. \A j \in 1 .. Len(y) : j <= Len(x)
        BY <1>1, <2>3, <2>5, <4>1
      <4>4. Len(x) = Len(y)
        <5>1. Len(x) <= Len(y)
          <6>1. CASE Len(x) = 0
            BY <1>1, <6>1
          <6>2. CASE Len(x) # 0
            BY <1>1, <4>2, <6>2
          <6>3. QED BY <6>1, <6>2
        <5>2. Len(y) <= Len(x)
          <6>1. CASE Len(y) = 0
            BY <1>1, <6>1
          <6>2. CASE Len(y) # 0
            BY <1>1, <4>3, <6>2
          <6>3. QED BY <6>1, <6>2
        <5>3. QED BY <1>1, <5>1, <5>2
      <4>5. x = y
        BY <4>2, <4>4, SeqEqual
      <4>6. QED BY <4>5
    <3>2. LowerAt(x, y, i)
      BY <1>1, <2>3, <2>5, <2>6, <3>1 DEF LowerAt
    <3>3. QED BY <1>3, <3>2, LowerSomewhere
  <2>7. CASE i <= Len(x) /\ i > Len(y)
    <3>1. LowerAt(y, x, i)
      BY <1>1, <2>3, <2>5, <2>7 DEF LowerAt
    <3>2. QED BY <1>3, <3>1, LowerSomewhere
  <2>8. CASE i <= Len(x) /\ i <= Len(y)
    <3>1. i \in 1 .. Len(x) /\ i \in 1 .. Len(y) /\ x[i] # y[i]
      BY <1>1, <2>3, <2>8
    <3>2. x[i] \in Identifiers /\ y[i] \in Identifiers
      BY <3>1
    <3>3. LowerIdentifier(x[i], y[i]) \/ LowerIdentifier(y[i], x[i])
      BY <3>1, <3>2, IdentifiersTotal DEF ValidIds
    <3>4. LowerAt(x, y, i) \/ LowerAt(y, x, i)
      BY <2>5, <3>1, <3>3 DEF LowerAt
    <3>5. QED BY <1>3, <3>4, LowerSomewhere
  <2>9. QED BY <1>1, <2>3, <2>6, <2>7, <2>8
<1>4. QED BY <1>2, <1>3

(* The precedence that updates are measured by is a strict order of all    *)
(* versions, and it puts any two valid ones one after the other.           *)
LEMMA PrecedenceIsAnOrder ==
  ASSUME NEW u \in Versions, NEW v \in Versions, NEW w \in Versions
  PROVE  /\ ~Lower(v, v)
         /\ Lower(u, v) /\ Lower(v, w) => Lower(u, w)
         /\ Valid(v) /\ Valid(w) /\ v # w => Lower(v, w) \/ Lower(w, v)
<1>1. /\ u.major \in Int /\ u.minor \in Int /\ u.patch \in Int
      /\ v.major \in Int /\ v.minor \in Int /\ v.patch \in Int
      /\ w.major \in Int /\ w.minor \in Int /\ w.patch \in Int
      /\ u.prerelease \in Seq(Identifiers) /\ v.prerelease \in Seq(Identifiers)
      /\ w.prerelease \in Seq(Identifiers)
  BY DEF Versions
<1>2. ~Lower(v, v)
  BY <1>1, PrereleasesIrreflexive DEF Lower
<1>3. ASSUME Lower(u, v), Lower(v, w) PROVE Lower(u, w)
  <2>1. LowerPrerelease(u.prerelease, v.prerelease)
          /\ LowerPrerelease(v.prerelease, w.prerelease)
          => LowerPrerelease(u.prerelease, w.prerelease)
    BY <1>1, PrereleasesTransitive
  <2>2. QED BY <1>1, <1>3, <2>1 DEF Lower
<1>4. ASSUME Valid(v), Valid(w), v # w PROVE Lower(v, w) \/ Lower(w, v)
  <2>1. CASE v.major # w.major \/ v.minor # w.minor \/ v.patch # w.patch
    BY <1>1, <2>1 DEF Lower
  <2>2. CASE v.major = w.major /\ v.minor = w.minor /\ v.patch = w.patch
    <3>1. v.prerelease # w.prerelease
      BY <1>4, <2>2 DEF Versions
    <3>2. ValidIds(v.prerelease) /\ ValidIds(w.prerelease)
      BY <1>4 DEF Valid, NoBlanks, ValidIds
    <3>3. \/ LowerPrerelease(v.prerelease, w.prerelease)
          \/ LowerPrerelease(w.prerelease, v.prerelease)
      BY <1>1, <3>1, <3>2, PrereleasesTotal
    <3>4. QED BY <2>2, <3>3 DEF Lower
  <2>3. QED BY <2>1, <2>2
<1>5. QED BY <1>2, <1>3, <1>4

(* Versions a publisher may use together: valid ones of which none         *)
(* continues another, with numbers that fit a long.                        *)
Comparable(v, w) ==
  Apart(v, w) /\ Valid(v) /\ Valid(w) /\ Readable(v) /\ Readable(w)

(* Zero is for the same version.                                           *)
LEMMA ZeroMeansSame ==
  ASSUME NEW v \in Versions, NEW w \in Versions, Comparable(v, w),
         0 \in VersionCmp(v, w, TRUE)
  PROVE  v = w
<1> DEFINE x == v.prerelease
           y == w.prerelease
<1>1. /\ v.major \in Int /\ v.minor \in Int /\ v.patch \in Int
      /\ w.major \in Int /\ w.minor \in Int /\ w.patch \in Int
      /\ x \in Seq(Identifiers) /\ y \in Seq(Identifiers)
  BY DEF Versions
<1>2. NumbersCmp(v, w) = 0
  BY DEF VersionCmp
<1>3. v.major = w.major /\ v.minor = w.minor /\ v.patch = w.patch
  BY <1>1, <1>2 DEF NumbersCmp, Differ
<1>4. x = y
  <2>1. SUFFICES ASSUME x # y PROVE FALSE
    OBVIOUS
  <2>2. x # NoPrerelease /\ y # NoPrerelease /\ 0 \in PrereleaseCmp(x, y)
    BY <1>2, <2>1 DEF VersionCmp
  <2>3. PICK i : StopsAt(x, y, i) /\ 0 \in ResultsAt(x, y, i)
    BY <2>2 DEF PrereleaseCmp
  <2>4. ~IsPrefix(x, y) /\ ~IsPrefix(y, x)
    BY <2>1, <2>2 DEF Comparable, Apart, Unrelated
  <2>5. i \in 1 .. Len(x) /\ i \in 1 .. Len(y)
    BY <1>1, <2>2, <2>3, <2>4, StopsInside DEF NoPrerelease
  <2>6. PlaceCmp(x[i], y[i]) = 0
    BY <1>1, <2>3, <2>5 DEF ResultsAt
  <2>7. x[i].kind # "empty" /\ y[i].kind # "empty"
    BY <2>5 DEF Comparable, Apart, NoBlanks
  <2>8. QED BY <2>6, <2>7 DEF PlaceCmp, NoIdentifier, IdentifierCmp, Differ
<1>5. QED BY <1>3, <1>4 DEF Versions

(* With memory the comparison tells the three cases apart: its sign is the *)
(* precedence of comparable versions, and zero means the same version.     *)
THEOREM ComparisonIsThreeWay ==
  ASSUME NEW v \in Versions, NEW w \in Versions, Comparable(v, w),
         NEW r \in VersionCmp(v, w, TRUE)
  PROVE  /\ r > 0 <=> Lower(w, v)
         /\ r < 0 <=> Lower(v, w)
         /\ r = 0 <=> v = w
<1>1. r \in Outcomes /\ (r > 0 <=> Lower(w, v))
  BY ComparisonIsPrecedence DEF Comparable
<1>2. /\ ~Lower(v, v)
      /\ Lower(v, w) /\ Lower(w, v) => Lower(v, v)
      /\ v # w => Lower(v, w) \/ Lower(w, v)
  BY PrecedenceIsAnOrder DEF Comparable
<1>3. v = w => r = 0
  <2>1. SUFFICES ASSUME v = w PROVE r = 0
    OBVIOUS
  <2>2. NumbersCmp(v, v) = 0
    BY DEF NumbersCmp
  <2>3. QED BY <2>1, <2>2 DEF VersionCmp
<1>4. r < 0 => Lower(v, w)
  BY <1>1, <1>2, <1>3 DEF Outcomes
<1>5. r = 0 => v = w
  <2>1. SUFFICES ASSUME r = 0, v # w PROVE FALSE
    OBVIOUS
  <2>2. Lower(v, w) /\ ~Lower(w, v)
    BY <1>1, <1>2, <2>1
  <2>3. 0 \in VersionCmp(v, w, TRUE)
    BY <2>1
  <2>4. QED BY <2>1, <2>2, <2>3, ZeroMeansSame
<1>6. QED BY <1>1, <1>2, <1>3, <1>4, <1>5 DEF Outcomes

-----------------------------------------------------------------------------
(* The application                                                         *)

(* Every variable keeps its type.                                          *)
THEOREM TypeCorrect == Spec => []TypeOK
<1>1. Init => TypeOK
  BY DEF Init, TypeOK
<1>2. ASSUME TypeOK, [Next]_vars PROVE TypeOK'
  <2>1. CASE \E v \in Releases : Publish(v)
    BY <1>2, <2>1 DEF TypeOK, Publish
  <2>2. CASE \E memory \in BOOLEAN : Check(memory)
    BY <1>2, <2>2 DEF TypeOK, Check, StepOf
  <2>3. CASE Update
    BY <1>2, <2>3 DEF TypeOK, Update
  <2>4. CASE CheckCrashes
    BY <1>2, <2>4 DEF TypeOK, CheckCrashes
  <2>5. CASE UNCHANGED vars
    BY <1>2, <2>5 DEF TypeOK, vars
  <2>6. QED BY <1>2, <2>1, <2>2, <2>3, <2>4, <2>5 DEF Next
<1>3. QED BY <1>1, <1>2, PTL DEF Spec

(* What the handle remembers of the last check is true of the version it   *)
(* fetched and the version that runs, whatever has been published since.   *)
StepIsTrue ==
  Apart(fetched, installed) =>
    /\ step = "newer" => Lower(installed, fetched)
    /\ step = "upToDate" /\ enough /\ Readable(fetched) => ~Lower(installed, fetched)

LEMMA StepInvariant == Spec => []StepIsTrue
<1>1. Init => StepIsTrue
  BY DEF Init, StepIsTrue
<1>2. ASSUME TypeOK, StepIsTrue, [Next]_vars PROVE StepIsTrue'
  <2>1. CASE \E v \in Releases : Publish(v)
    BY <1>2, <2>1 DEF StepIsTrue, Publish
  <2>2. CASE \E memory \in BOOLEAN : Check(memory)
    <3>1. PICK memory \in BOOLEAN : Check(memory)
      BY <2>2
    <3>2. PICK r \in VersionCmp(published, installed, memory) : step' = StepOf(r)
      BY <3>1 DEF Check
    <3>3. published \in Versions /\ installed \in Versions
      BY <1>2, UpgradesAssumption DEF TypeOK
    <3>4. SUFFICES ASSUME Apart(published, installed)
                   PROVE  /\ step' = "newer" => Lower(installed, published)
                          /\ step' = "upToDate" /\ memory /\ Readable(published)
                               => ~Lower(installed, published)
      BY <3>1 DEF StepIsTrue, Check
    <3>5. /\ r \in Outcomes
          /\ r > 0 => Lower(installed, published)
          /\ memory /\ Readable(published) /\ Lower(installed, published) => r > 0
      BY <3>3, <3>4, ComparisonIsPrecedence
    <3>6. QED BY <3>2, <3>5 DEF StepOf
  <2>3. CASE Update
    BY <2>3 DEF StepIsTrue, Update
  <2>4. CASE CheckCrashes
    BY <2>4 DEF StepIsTrue, CheckCrashes
  <2>5. CASE UNCHANGED vars
    BY <1>2, <2>5 DEF StepIsTrue, vars
  <2>6. QED BY <1>2, <2>1, <2>2, <2>3, <2>4, <2>5 DEF Next
<1>3. QED BY <1>1, <1>2, TypeCorrect, PTL DEF Spec

(* An application told that it is up to date has the latest version.       *)
THEOREM UpToDateIsAlwaysTrue == Spec => []UpToDateIsTrue
<1>1. StepIsTrue => UpToDateIsTrue
  BY DEF StepIsTrue, UpToDateIsTrue
<1>2. QED BY <1>1, StepInvariant, PTL

(* The installed version only ever moves up.                               *)
THEOREM VersionsMoveUp == Spec => NeverDowngrades
<1>1. ASSUME StepIsTrue, [Next]_vars
      PROVE  [installed' # installed /\ Apart(fetched, installed)
                => Lower(installed, installed')]_vars
  <2>1. CASE Update
    BY <1>1, <2>1 DEF StepIsTrue, Update
  <2>2. CASE ~Update
    BY <1>1, <2>2 DEF Next, Publish, Check, CheckCrashes, vars
  <2>3. QED BY <2>1, <2>2
<1>2. QED BY <1>1, StepInvariant, PTL DEF Spec, NeverDowngrades

(* The application runs v, and one that comes after v.                     *)
Runs(v) == installed = v
Passed(v) == Lower(v, installed)

(* Where a publisher uses only versions that are apart, an application that *)
(* has run one of them runs it or a later one ever after, and never again  *)
(* one that it has left.                                                   *)
THEOREM NeverSentBack ==
  ASSUME \A a, b \in Releases : Apart(a, b), NEW v \in Releases
  PROVE  Spec => /\ [](Runs(v) => [](Runs(v) \/ Passed(v)))
                 /\ [](Passed(v) => []~Runs(v))
<1>1. TypeOK /\ StepIsTrue /\ [Next]_vars =>
        /\ Runs(v) => (Runs(v) \/ Passed(v))'
        /\ Passed(v) => Passed(v)'
  <2>1. SUFFICES ASSUME TypeOK, StepIsTrue, [Next]_vars
                 PROVE  /\ Runs(v) => (Runs(v) \/ Passed(v))'
                        /\ Passed(v) => Passed(v)'
    OBVIOUS
  <2>2. CASE Update
    <3>1. /\ fetched \in Versions /\ installed \in Versions /\ v \in Versions
          /\ Apart(fetched, installed)
      BY <2>1, <2>2, UpgradesAssumption DEF TypeOK, Update
    <3>2. Lower(installed, fetched)
      BY <2>1, <2>2, <3>1 DEF StepIsTrue, Update
    <3>3. Lower(v, installed) => Lower(v, fetched)
      BY <3>1, <3>2, PrecedenceIsAnOrder
    <3>4. QED BY <2>2, <3>2, <3>3 DEF Update, Runs, Passed
  <2>3. CASE ~Update
    <3>1. UNCHANGED installed
      BY <2>1, <2>3 DEF Next, Publish, Check, CheckCrashes, vars
    <3>2. QED BY <3>1 DEF Runs, Passed
  <2>4. QED BY <2>2, <2>3
<1>2. TypeOK /\ Passed(v) => ~Runs(v)
  BY PrecedenceIsAnOrder, UpgradesAssumption DEF Runs, Passed
<1>3. QED BY <1>1, <1>2, TypeCorrect, StepInvariant, PTL DEF Spec
=============================================================================

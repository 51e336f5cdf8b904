---------------------------- MODULE MC_Upgrades ----------------------------
(***************************************************************************)
(* Releases around 1.0.0.  LONG_MAX is 10, so that 11 and 12 are numbers   *)
(* that strtol cannot tell apart, and so are 9 and 09.                     *)
(***************************************************************************)
EXTENDS Upgrades

Number(n) == [kind |-> "numeric", rank |-> n, zeros |-> 0]
Padded(n) == [kind |-> "numeric", rank |-> n, zeros |-> 1]
Word(n)   == [kind |-> "alpha", rank |-> n, zeros |-> 0]
alpha == Word(1)
beta  == Word(2)

Release(major, minor, patch) ==
  [major |-> major, minor |-> minor, patch |-> patch, prerelease |-> NoPrerelease]
Pre(ids) == [Release(1, 0, 0) EXCEPT !.prerelease = ids]

MCReleases ==
  {Release(1, 0, 0), Release(1, 0, 1), Release(1, 1, 0), Release(2, 0, 0)}
    \cup {Pre(<<i>>) : i \in {alpha, beta, Number(2), Number(10)}}
    \cup {Pre(<<alpha, i>>) : i \in {beta, Number(9), Number(10), Number(11), Number(12)}}
    \cup {Pre(<<alpha, Padded(9)>>), Pre(<<beta, Number(2), alpha>>), Pre(<<NoIdentifier>>)}

\* A pre-release, and one that continues it.
MCPrefix == {Pre(<<alpha>>), Pre(<<alpha, Number(1)>>)}
=============================================================================

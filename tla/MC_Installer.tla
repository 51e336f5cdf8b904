---------------------------- MODULE MC_Installer ----------------------------
(***************************************************************************)
(* Two applications and a few names for the installer; documents with and  *)
(* without a directory of their own.                                       *)
(***************************************************************************)
EXTENDS Installer, TLC

CONSTANTS a, b

MCSegments == {"host", "dir", "appcast", "installer"}

https     == Url("https", <<"host", "dir", "appcast">>)
file      == Url("file", <<"", "dir", "dir", "appcast">>)
fileHost  == Url("file", <<"host", "dir", "appcast">>)
fileRoot  == Url("file", <<"", "appcast">>)
fileGap   == Url("file", <<"", "dir", "", "appcast">>)

beside  == Relative(FALSE, <<"installer">>)
rooted  == Relative(TRUE, <<"dir", "installer">>)

MCApps   == {a, b}
MCOneApp == {a}
Symmetric == Permutations(MCApps)

MCUrls == {https, file, fileHost, fileRoot, fileGap}
MCOneUrl == {https}
MCTwoUrls == {https, fileHost}
MCEnclosures == {beside, rooted}
MCBeside == {beside}
MCRooted == {rooted}

\* Bound: an application has another url than the usual only while the other
\* one is not updating, and then none has arguments.
UsualUrl(x) == {url[x], docUrl[x]} \subseteq {https, NULL} /\ enclosure[x] \in {beside, NULL}

OneUnusualUrl ==
  \A x \in Apps : ~UsualUrl(x) =>
    /\ \A y \in Apps \ {x} : pc[y] = "app" /\ UsualUrl(y)
    /\ \A y \in Apps : args[y] = NoArgs
=============================================================================

------------------------------ MODULE UrlMerge ------------------------------
(***************************************************************************)
(* Where the installer is downloaded from: url_merge of src/api.c and the  *)
(* choice sxupdate_download makes before it.                               *)
(*                                                                         *)
(* An absolute url is its scheme, the number of slashes after the colon,   *)
(* and what the remaining slashes separate: "file:///dir/x" is             *)
(* <<"", "dir", "x">> and "https://host/x" is <<"host", "x">>.  A relative *)
(* one is rooted if it starts with a slash; "./" before it is dropped.     *)
(***************************************************************************)
EXTENDS Integers, Sequences

CONSTANTS
  Segments,  \* host, directory and file names
  NULL       \* a null char *

ASSUME UrlMergeAssumption == "" \notin Segments

Url(scheme, segs)    == [scheme |-> scheme, slashes |-> 2, segs |-> segs]
Relative(rooted, segs) == [rooted |-> rooted, segs |-> segs]

AbsoluteUrls ==
  [scheme : {"https", "file"}, slashes : {2}, segs : Seq(Segments \cup {""})]

RelativeUrls == [rooted : BOOLEAN, segs : Seq(Segments)]

IsRelative(enclosure) == enclosure \in RelativeUrls

Upto(segs, n) == SubSeq(segs, 1, n)

(* The slash that a file url is kept up to, when the code looks for the    *)
(* first one behind its eighth character.                                  *)
FirstSlash(parent) == IF parent.segs[1] = "" THEN 2 ELSE 1

(* ... and the last one of any url.                                        *)
LastSlash(parent) == Len(parent.segs) - 1

(* The last slash of a file url is the byte right behind the first one.    *)
Adjoins(parent) ==
  LastSlash(parent) = FirstSlash(parent) + 1 /\ parent.segs[LastSlash(parent)] = ""

\* Mutant of MergeFile: the last slash is not looked for.
MergeFileFirst(parent, relative) ==
  IF LastSlash(parent) < FirstSlash(parent) THEN NULL
  ELSE [parent EXCEPT !.segs = Upto(@, FirstSlash(parent)) \o relative.segs]

(* The two prefix tests are the wrong way round.  A file url is cut after  *)
(* its first directory, as an https url should be after its host; it is    *)
(* refused if it has none.  For a relative path more of it is kept, up to  *)
(* the last slash, unless that is the very next byte.                      *)
MergeFile(parent, relative) ==
  IF LastSlash(parent) < FirstSlash(parent) THEN NULL
  ELSE [parent EXCEPT !.segs =
          Upto(@, IF relative.rooted \/ Adjoins(parent)
                  THEN FirstSlash(parent) ELSE LastSlash(parent)) \o relative.segs]

(* An https url is cut after the seven characters of "file://", which      *)
(* leaves it one slash, unless a later slash is found for a relative path. *)
MergeHttps(parent, relative) ==
  IF relative.rooted \/ LastSlash(parent) = 0
  THEN [parent EXCEPT !.slashes = 1, !.segs = relative.segs]
  ELSE [parent EXCEPT !.segs = Upto(@, LastSlash(parent)) \o relative.segs]

UrlMerge(parent, relative) ==
  IF parent.scheme = "file" THEN MergeFile(parent, relative)
                            ELSE MergeHttps(parent, relative)

(* resolved_url of sxupdate_download, NULL if the urls do not merge.       *)
ResolvedUrl(parent, enclosure) ==
  IF IsRelative(enclosure) THEN UrlMerge(parent, enclosure) ELSE enclosure

-----------------------------------------------------------------------------
(* A reference that starts with a slash replaces the path, any other one   *)
(* the last segment of it.                                                 *)
RelativeTo(parent, enclosure) ==
  IF ~IsRelative(enclosure) THEN enclosure
  ELSE [parent EXCEPT !.segs =
          Upto(@, IF enclosure.rooted \/ Len(@) = 1 THEN 1 ELSE Len(@) - 1)
            \o enclosure.segs]

(* What url_merge is right about: a url that is relative to a document in  *)
(* a directory, and that starts with a slash only beside a file url with a *)
(* host.                                                                   *)
HasDirectory(parent) ==
  LastSlash(parent) >= IF parent.scheme = "file" THEN FirstSlash(parent) ELSE 1

MergesRight(parent, enclosure) ==
  IsRelative(enclosure) =>
    /\ HasDirectory(parent)
    /\ IF enclosure.rooted THEN parent.scheme = "file" /\ parent.segs[1] # ""
                           ELSE parent.scheme = "file" => ~Adjoins(parent)
=============================================================================

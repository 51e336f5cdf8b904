----------------------------- MODULE Installer -----------------------------
(***************************************************************************)
(* Downloading and starting the installer: sxupdate_resume and             *)
(* sxupdate_download (src/api.c) with the search for a file name           *)
(* (src/file.c) and the fork (src/fork_and_exit.c), step by step, where    *)
(* several applications share one temporary directory with each other and  *)
(* with other programs.  All of them fetch the same installer, under the   *)
(* name the metadata gives it; name i is that name with " (i)" added.      *)
(***************************************************************************)
EXTENDS Integers, Sequences, FiniteSets, UrlMerge, ArgList

CONSTANTS
  Apps,        \* the applications: processes that use the library
  Tries,       \* SXUPDATE_GET_INSTALLER_PATH_MAX_TRIES
  Urls,        \* what the applications call sxupdate_set_url with
  Enclosures,  \* the installer urls of documents
  Signed,      \* whether signatures are checked
  MaxUpdates,  \* bound: updates one application attempts
  MaxArgs      \* bound: arguments one handle is given

ASSUME InstallerAssumption ==
  /\ Tries \in Nat \ {0}
  /\ Urls \subseteq AbsoluteUrls
  /\ \A u \in Urls : Len(u.segs) > 0
  /\ Enclosures \subseteq AbsoluteUrls \cup RelativeUrls
  /\ \A e \in Enclosures : Len(e.segs) > 0
  /\ NULL \notin Apps \cup Nat \cup Urls \cup Enclosures
  /\ Signed \in BOOLEAN
  /\ MaxUpdates \in Nat /\ MaxArgs \in Nat

Names == 0 .. Tries - 1

VARIABLES
  url,        \* handle->url
  docUrl,     \* history: the url the offer was fetched from
  enclosure,  \* latest_version.enclosure.url
  args,       \* handle->installer_args
  windows,    \* the platform the library was built for
  target,     \* resolved_url, NULL while nothing is downloaded
  pc,         \* where each application is
  try,        \* i, the name to try next
  path,       \* save_path
  updates,    \* history: updates attempted
  files,      \* what lies under each name
  writer,     \* who truncated the file last
  children,   \* the processes that were forked
  raced       \* history: names found unused by two applications at once

handleVars == <<url, docUrl, enclosure, args, target, windows>>
localVars  == <<pc, try, path, updates>>
diskVars   == <<files, writer, raced>>
vars       == <<handleVars, localVars, diskVars, children>>

Init ==
  /\ url = [a \in Apps |-> NULL] /\ docUrl = [a \in Apps |-> NULL]
  /\ enclosure = [a \in Apps |-> NULL]
  /\ args = [a \in Apps |-> NoArgs] /\ windows \in BOOLEAN
  /\ target = [a \in Apps |-> NULL]
  /\ pc = [a \in Apps |-> "app"] /\ try = [a \in Apps |-> 0]
  /\ path = [a \in Apps |-> NULL] /\ updates = [a \in Apps |-> 0]
  /\ files = [n \in Names |-> "none"] /\ writer = [n \in Names |-> NULL]
  /\ children = {} /\ raced = {}

-----------------------------------------------------------------------------
(* The application                                                         *)

(* No handle is made for an update beyond the bound.                       *)
MayConfigure(a) ==
  pc[a] = "offered" \/ (pc[a] = "app" /\ updates[a] < MaxUpdates)

SetUrl(a, u) ==
  /\ MayConfigure(a)
  /\ url' = [url EXCEPT ![a] = u]
  /\ UNCHANGED <<docUrl, enclosure, args, target, windows, localVars, diskVars, children>>

AddInstallerArg(a) ==
  /\ MayConfigure(a) /\ Len(args[a].next) < MaxArgs
  /\ args' = [args EXCEPT ![a] = WithArg(@)]
  /\ UNCHANGED <<url, docUrl, enclosure, target, windows, localVars, diskVars, children>>

(* The metadata is fetched and offers a newer version.                     *)
Offer(a, e) ==
  /\ pc[a] = "app" /\ updates[a] < MaxUpdates /\ url[a] # NULL
  /\ pc' = [pc EXCEPT ![a] = "offered"]
  /\ updates' = [updates EXCEPT ![a] = @ + 1]
  /\ docUrl' = [docUrl EXCEPT ![a] = url[a]]
  /\ enclosure' = [enclosure EXCEPT ![a] = e]
  /\ UNCHANGED <<url, args, target, windows, try, path, diskVars, children>>

Goes(a, from, to) == pc[a] = from /\ pc' = [pc EXCEPT ![a] = to]

(* sxupdate_resume returns: what was local to it is gone.  The handle will *)
(* offer nothing any more; the application deletes it and makes another.   *)
Returns(a, from) ==
  /\ Goes(a, from, "app")
  /\ args' = [args EXCEPT ![a] = NoArgs]
  /\ url' = [url EXCEPT ![a] = NULL] /\ enclosure' = [enclosure EXCEPT ![a] = NULL]
  /\ target' = [target EXCEPT ![a] = NULL] /\ docUrl' = [docUrl EXCEPT ![a] = NULL]
  /\ try' = [try EXCEPT ![a] = 0] /\ path' = [path EXCEPT ![a] = NULL]
  /\ UNCHANGED <<windows, updates, diskVars>>

(* The application resumes the handle: the urls are merged ...             *)
Resume(a) ==
  /\ ResolvedUrl(url[a], enclosure[a]) # NULL
  /\ Goes(a, "offered", "search")
  /\ target' = [target EXCEPT ![a] = ResolvedUrl(url[a], enclosure[a])]
  /\ UNCHANGED <<url, docUrl, enclosure, args, windows, try, path, updates, diskVars, children>>

(* ... or not, and nothing happens.                                        *)
MergeFails(a) ==
  /\ ResolvedUrl(url[a], enclosure[a]) = NULL
  /\ Returns(a, "offered") /\ UNCHANGED children

-----------------------------------------------------------------------------
(* sxupdate_get_installer_download_path                                    *)

(* There is no temporary directory, or no memory.                          *)
NoPath(a) ==
  /\ try[a] = 0
  /\ Returns(a, "search") /\ UNCHANGED children

(* A directory does not exist as a file.                                   *)
FileExists(n) == files[n] \notin {"none", "directory"}

NameTaken(a) ==
  /\ try[a] < Tries /\ FileExists(try[a])
  /\ Goes(a, "search", "search")
  /\ try' = [try EXCEPT ![a] = @ + 1]
  /\ UNCHANGED <<handleVars, path, updates, diskVars, children>>

\* Mutant of NameFree: the first name is used, whether it is taken or not.
NameFreeFirst(a) ==
  /\ try[a] < Tries
  /\ Goes(a, "search", "open")
  /\ path' = [path EXCEPT ![a] = try[a]]
  /\ UNCHANGED <<handleVars, try, updates, diskVars, children>>

\* Mutant of NameFree: the name after the one that was tried is returned.
NameFreeNext(a) ==
  /\ try[a] < Tries /\ ~FileExists(try[a])
  /\ Goes(a, "search", "open")
  /\ path' = [path EXCEPT ![a] = try[a] + 1]
  /\ UNCHANGED <<handleVars, try, updates, diskVars, children>>

(* The name may be used by the time the file is opened.                    *)
NameFree(a) ==
  /\ try[a] < Tries /\ ~FileExists(try[a])
  /\ Goes(a, "search", "open")
  /\ path' = [path EXCEPT ![a] = try[a]]
  /\ raced' = IF \E b \in Apps \ {a} : pc[b] = "open" /\ path[b] = try[a]
              THEN raced \cup {try[a]} ELSE raced
  /\ UNCHANGED <<handleVars, try, updates, files, writer, children>>

\* Mutant of SearchFails: the last name is not tried.
SearchFailsEarly(a) ==
  /\ try[a] = Tries - 1
  /\ Returns(a, "search") /\ UNCHANGED children

SearchFails(a) ==
  /\ try[a] = Tries
  /\ Returns(a, "search") /\ UNCHANGED children

-----------------------------------------------------------------------------
(* sxupdate_download                                                       *)

OpenFails(a) ==
  /\ Returns(a, "open") /\ UNCHANGED children

(* fopen creates the file, or empties the one that is there.               *)
Open(a) ==
  /\ Goes(a, "open", "transfer")
  /\ files[path[a]] # "directory"
  /\ files' = [files EXCEPT ![path[a]] = "partial"]
  /\ writer' = [writer EXCEPT ![path[a]] = a]
  /\ UNCHANGED <<handleVars, try, path, updates, children, raced>>

(* curl does not start, or the transfer fails, or the answer is not 2xx:   *)
(* the file stays behind.                                                  *)
TransferFails(a) ==
  /\ Returns(a, "transfer") /\ UNCHANGED children

(* The transfer is a success to curl and the server.  Nobody looks at what *)
(* fclose returns or at the size of the file, so what was still to be      *)
(* written, or never came, is missing.  A file that was emptied by another *)
(* application meanwhile has a hole in it.                                 *)
TransferEnds(a) ==
  /\ Goes(a, "transfer", "downloaded")
  /\ \E what \in {"whole", "short"} :
       files' = [files EXCEPT ![path[a]] = IF writer[path[a]] = a THEN what ELSE @]
  /\ target' = [target EXCEPT ![a] = NULL] /\ docUrl' = [docUrl EXCEPT ![a] = NULL]
  /\ UNCHANGED <<url, enclosure, args, windows, try, path, updates, writer, children, raced>>

-----------------------------------------------------------------------------
(* The rest of sxupdate_resume                                             *)

(* chmod fails, or the signature is not that of the file.                  *)
Rejected(a) ==
  /\ Returns(a, "downloaded") /\ UNCHANGED children

\* Mutant of Verified: the signature is not compared with the file.
VerifiedUnread(a) ==
  /\ Goes(a, "downloaded", "launch")
  /\ UNCHANGED <<handleVars, try, path, updates, diskVars, children>>

(* A signature is that of the whole file.                                  *)
Verified(a) ==
  /\ Goes(a, "downloaded", "launch")
  /\ Signed => files[path[a]] = "whole"
  /\ UNCHANGED <<handleVars, try, path, updates, diskVars, children>>

(* There is no memory for argv or the command line, the command line is    *)
(* not UTF-8, or fork or CreateProcess fails.                              *)
ForkFails(a) ==
  /\ Returns(a, "launch") /\ UNCHANGED children

(* prepare_cmd puts the name in quotes only if there are arguments.        *)
Quoted(a) == args[a].head # 0

Child(a, state, file) ==
  [parent |-> a, update |-> updates[a], path |-> path[a],
   state |-> state, runs |-> file]

\* Mutant of Fork: the signature is not waited for.
ForkUnchecked(a) ==
  /\ ~windows /\ Returns(a, "downloaded")
  /\ children' = children \cup {Child(a, "forked", NULL)}

(* fork_and_exit returns 0 to the parent at once.                          *)
Fork(a) ==
  /\ ~windows /\ Returns(a, "launch")
  /\ children' = children \cup {Child(a, "forked", NULL)}

Becomes(c, state, file) ==
  /\ c.state = "forked"
  /\ children' = (children \ {c}) \cup {[c EXCEPT !.state = state, !.runs = file]}
  /\ UNCHANGED <<handleVars, localVars, diskVars>>

(* The child becomes the installer, from what is in the file by then ...   *)
Exec(c) == Becomes(c, "installer", c.path)

(* ... or fails to, and returns to the code of the application, as a copy  *)
(* of it.  What that copy does next is not modelled.                       *)
ExecFails(c) == Becomes(c, "application", NULL)

(* External: given a command line that is not quoted, CreateProcess looks  *)
(* for the program up to each blank, with ".exe" added.  Up to its blank,  *)
(* name i is name 0.                                                       *)
Program(a) == IF ~Quoted(a) /\ path[a] # 0 /\ FileExists(0) THEN 0 ELSE path[a]

CreateProcess(a) ==
  /\ windows /\ Returns(a, "launch")
  /\ children' = children \cup {Child(a, "installer", Program(a))}

-----------------------------------------------------------------------------
(* External: other programs create files and directories, and only where   *)
(* there are none.                                                         *)
OtherProgram(n) ==
  /\ files[n] = "none"
  /\ \E what \in {"foreign", "directory"} : files' = [files EXCEPT ![n] = what]
  /\ UNCHANGED <<handleVars, localVars, writer, raced, children>>

Application(a) ==
  \/ \E u \in Urls : SetUrl(a, u)
  \/ AddInstallerArg(a)
  \/ \E e \in Enclosures : Offer(a, e)
  \/ Resume(a) \/ MergeFails(a)
  \/ NoPath(a) \/ NameTaken(a) \/ NameFree(a) \/ SearchFails(a)
  \/ OpenFails(a) \/ Open(a) \/ TransferFails(a) \/ TransferEnds(a)
  \/ Rejected(a) \/ Verified(a) \/ ForkFails(a) \/ Fork(a) \/ CreateProcess(a)

Next ==
  \/ \E a \in Apps : Application(a)
  \/ \E c \in children : Exec(c) \/ ExecFails(c)
  \/ \E n \in Names : OtherProgram(n)

Spec == Init /\ [][Next]_vars

-----------------------------------------------------------------------------
(* Properties                                                              *)

FileStates == {"none", "directory", "foreign", "partial", "short", "whole"}

ArgLists == [head : Nat, next : Seq(Nat), slot : Nat]

Children ==
  [parent : Apps, update : 1 .. MaxUpdates, path : Names,
   state : {"forked", "installer", "application"}, runs : Names \cup {NULL}]

(* Every variable has its type.                                            *)
TypeOK ==
  /\ url \in [Apps -> Urls \cup {NULL}] /\ docUrl \in [Apps -> Urls \cup {NULL}]
  /\ enclosure \in [Apps -> Enclosures \cup {NULL}]
  /\ DOMAIN target = Apps
  /\ \A a \in Apps : target[a] = NULL \/ target[a].scheme \in {"https", "file"}
  /\ args \in [Apps -> ArgLists] /\ windows \in BOOLEAN
  /\ pc \in [Apps -> {"app", "offered", "search", "open", "transfer",
                      "downloaded", "launch"}]
  /\ try \in [Apps -> 0 .. Tries]
  /\ path \in [Apps -> Names \cup {NULL}]
  /\ \A a \in Apps : pc[a] \in {"open", "transfer", "downloaded", "launch"}
                       => path[a] \in Names
  /\ updates \in [Apps -> 0 .. MaxUpdates]
  /\ \A a \in Apps : pc[a] # "app" => updates[a] # 0 /\ url[a] # NULL /\ enclosure[a] # NULL
  /\ files \in [Names -> FileStates]
  /\ writer \in [Names -> Apps \cup {NULL}]
  /\ raced \subseteq Names
  /\ children \subseteq Children

(* What an installer url that is relative to its document leads to, while  *)
(* the application keeps its url: where the schema says, in the cases of   *)
(* MergesRight and in no other.                                            *)
RelativeWhereRight ==
  \A a \in Apps : pc[a] \in {"search", "open", "transfer"} /\ url[a] = docUrl[a] =>
    (target[a] = RelativeTo(docUrl[a], enclosure[a])
       <=> MergesRight(docUrl[a], enclosure[a]))

(* Between the download and the end of the installer that was started from *)
(* it, no later update and no other application empties the file, unless   *)
(* two applications found its name unused at the same time.                *)
Started == {c.path : c \in {d \in children : d.state \in {"forked", "installer"}}}

InUse == {path[a] : a \in {b \in Apps : pc[b] \in {"downloaded", "launch"}}} \cup Started

OthersKeepOff == \A n \in InUse : files[n] \in {"whole", "short"} \/ n \in raced

(* Where signatures are checked, what is started is the whole file, and    *)
(* stays it: the signature makes up for the size nobody checks and for     *)
(* fclose, whatever other programs and later updates do meanwhile, but not *)
(* for a race.                                                             *)
Cleared == {path[a] : a \in {b \in Apps : pc[b] = "launch"}} \cup Started

SignedIsWhole == Signed => \A n \in Cleared : files[n] = "whole" \/ n \in raced

(* The search for a name gives up only when every name is that of a file.  *)
GivesUpOnlyWhenFull ==
  [][\A a \in Apps : SearchFails(a) => \A n \in Names : FileExists(n)]_vars

(* The list holds every argument that was accepted, once, in the order in  *)
(* which they were added.                                                  *)
ArgsInOrder ==
  \A a \in Apps : Walk(args[a]) = [i \in 1 .. Len(args[a].next) |-> i]

(* How far update u of application a has come, with the handle that was    *)
(* made for it.                                                            *)
Stage(a, u) ==
  IF updates[a] < u THEN "waiting"
  ELSE IF updates[a] = u /\ pc[a] = "offered" THEN "offered"
  ELSE IF updates[a] = u /\ pc[a] = "launch" THEN "cleared"
  ELSE IF updates[a] = u /\ pc[a] # "app" THEN "agreed"
  ELSE IF \E c \in children : c.parent = a /\ c.update = u THEN "started"
  ELSE "over"

Contract(a, u) == INSTANCE UpdateContract
                    WITH stage <- Stage(a, u), newer <- updates[a] >= u

(* Each update of each application is one that UpdateContract.tla allows:  *)
(* an installer starts at most once for it, after the agreement, the       *)
(* download and the check, whatever the others do meanwhile.  (TLC takes   *)
(* the quantifiers only inside of the two parts of Spec.)                  *)
ImplementsContract ==
  /\ \A a \in Apps, u \in 1 .. MaxUpdates : Contract(a, u)!Init
  /\ [][\A a \in Apps, u \in 1 .. MaxUpdates :
          UNCHANGED Contract(a, u)!contractVars \/ Contract(a, u)!Next]_vars

(* "relative to the URL where this JSON document is located" (the schema). *)
(* The code does not keep it: see UrlMerge, and SetUrl while an offer is   *)
(* pending.                                                                *)
RelativeToDocument ==
  \A a \in Apps : pc[a] = "transfer" =>
    target[a] = RelativeTo(docUrl[a], enclosure[a])

(* "Unable to find an unused filename" (file.c): the one that is found is  *)
(* unused, so the file behind a path that was saved is the download of the *)
(* application that saved it.  The code does not keep it when two          *)
(* applications update at the same time.                                   *)
DownloadedIsOwn == \A a \in Apps : pc[a] = "downloaded" => writer[path[a]] = a

(* "fork_and_exit(): return 0 on success" (fork_and_exit.c).  The code     *)
(* does not keep it: it returns 0 before the child has become anything.    *)
ZeroMeansStarted == \A c \in children : c.state # "application"

(* "@param executable_path" (fork_and_exit.c), which resume gives the path *)
(* of the file it has downloaded and checked: that is what is executed.    *)
(* The code does not keep it on Windows: it adds "surrounding double-      *)
(* quotes to executable name" only when there are arguments.               *)
StartedIsDownloaded ==
  \A c \in children : c.state = "installer" => c.runs = c.path
=============================================================================

-------------------------- MODULE InstallerProofs --------------------------
(***************************************************************************)
(* Proofs about UrlMerge.tla and Installer.tla, for any number of          *)
(* applications and names.                                                 *)
(***************************************************************************)
EXTENDS Installer, ArgListProofs

-----------------------------------------------------------------------------
(* Types                                                                   *)

Places == {"app", "offered", "search", "open", "transfer", "downloaded", "launch"}

HoldsFile == {"open", "transfer", "downloaded", "launch"}

(* The two halves of TypeOK.                                               *)
DiskTypes ==
  /\ pc \in [Apps -> Places]
  /\ try \in [Apps -> 0 .. Tries]
  /\ path \in [Apps -> Names \cup {NULL}]
  /\ \A a \in Apps : pc[a] \in HoldsFile => path[a] \in Names
  /\ updates \in [Apps -> 0 .. MaxUpdates]
  /\ \A a \in Apps : pc[a] # "app" => updates[a] # 0
  /\ files \in [Names -> FileStates]
  /\ writer \in [Names -> Apps \cup {NULL}]
  /\ raced \subseteq Names
  /\ children \subseteq Children

HandleTypes ==
  /\ pc \in [Apps -> Places]
  /\ url \in [Apps -> Urls \cup {NULL}] /\ docUrl \in [Apps -> Urls \cup {NULL}]
  /\ \A a \in Apps : pc[a] # "app" => url[a] # NULL /\ enclosure[a] # NULL
  /\ enclosure \in [Apps -> Enclosures \cup {NULL}]
  /\ DOMAIN target = Apps
  /\ \A a \in Apps : target[a] = NULL \/ target[a].scheme \in {"https", "file"}
  /\ args \in [Apps -> ArgLists] /\ windows \in BOOLEAN

LEMMA TypesSplit == TypeOK <=> DiskTypes /\ HandleTypes
BY DEF TypeOK, DiskTypes, HandleTypes, Places, HoldsFile

LEMMA DiskTypesInit == Init => DiskTypes
BY InstallerAssumption DEF Init, DiskTypes, Places, HoldsFile, Names, FileStates

LEMMA ChildType ==
  ASSUME DiskTypes, NEW a \in Apps, pc[a] \in {"downloaded", "launch"},
         NEW state \in {"forked", "installer", "application"},
         NEW file \in Names \cup {NULL}
  PROVE  /\ Child(a, state, file) \in Children
         /\ Child(a, state, file).path = path[a]
<1>1. path[a] \in Names /\ updates[a] \in 1 .. MaxUpdates
  BY InstallerAssumption DEF DiskTypes, HoldsFile
<1>2. QED BY <1>1 DEF Child, Children

LEMMA BecomesType ==
  ASSUME DiskTypes, NEW c \in children,
         NEW state \in {"forked", "installer", "application"},
         NEW file \in Names \cup {NULL}, Becomes(c, state, file)
  PROVE  \E d \in Children :
           /\ children' = (children \ {c}) \cup {d}
           /\ d.parent = c.parent /\ d.update = c.update /\ d.path = c.path
           /\ d.state = state /\ d.runs = file
<1>1. c \in Children
  BY DEF DiskTypes
<1> DEFINE d == [c EXCEPT !.state = state, !.runs = file]
<1>2. /\ d \in Children
      /\ d.parent = c.parent /\ d.update = c.update /\ d.path = c.path
      /\ d.state = state /\ d.runs = file
  BY <1>1 DEF Children
<1>3. children' = (children \ {c}) \cup {d}
  BY DEF Becomes
<1>4. QED BY <1>2, <1>3

(* A child becomes the installer from its file, or a second application.   *)
LEMMA ChildStep ==
  ASSUME DiskTypes, NEW c \in children, Exec(c) \/ ExecFails(c)
  PROVE  /\ c.state = "forked"
         /\ \E d \in Children :
              /\ children' = (children \ {c}) \cup {d}
              /\ d.parent = c.parent /\ d.update = c.update /\ d.path = c.path
              /\ d.state \in {"installer", "application"}
         /\ UNCHANGED <<handleVars, localVars, diskVars>>
<1>1. c.path \in Names
  BY DEF DiskTypes, Children
<1>2. CASE Exec(c)
  <2>1. Becomes(c, "installer", c.path)
    BY <1>2 DEF Exec
  <2>2. PICK d \in Children :
          /\ children' = (children \ {c}) \cup {d}
          /\ d.parent = c.parent /\ d.update = c.update /\ d.path = c.path
          /\ d.state = "installer"
    BY <1>1, <2>1, BecomesType
  <2>3. c.state = "forked" /\ UNCHANGED <<handleVars, localVars, diskVars>>
    BY <2>1 DEF Becomes
  <2>4. QED BY <2>2, <2>3
<1>3. CASE ExecFails(c)
  <2>1. Becomes(c, "application", NULL)
    BY <1>3 DEF ExecFails
  <2>2. PICK d \in Children :
          /\ children' = (children \ {c}) \cup {d}
          /\ d.parent = c.parent /\ d.update = c.update /\ d.path = c.path
          /\ d.state = "application"
    BY <2>1, BecomesType
  <2>3. c.state = "forked" /\ UNCHANGED <<handleVars, localVars, diskVars>>
    BY <2>1 DEF Becomes
  <2>4. QED BY <2>2, <2>3
<1>4. QED BY <1>2, <1>3

LEMMA ProgramType ==
  ASSUME DiskTypes, NEW a \in Apps, pc[a] = "launch" PROVE Program(a) \in Names
<1>1. 0 \in Names
  BY InstallerAssumption DEF Names
<1>2. path[a] \in Names
  BY DEF DiskTypes, HoldsFile
<1>3. QED BY <1>1, <1>2 DEF Program

LEMMA DiskTypesStep == DiskTypes /\ [Next]_vars => DiskTypes'
<1> SUFFICES ASSUME DiskTypes, [Next]_vars PROVE DiskTypes'
  OBVIOUS
<1> USE InstallerAssumption DEF DiskTypes, Places, HoldsFile, FileStates, Goes
<1>1. ASSUME NEW a \in Apps, NEW u \in Urls, SetUrl(a, u) PROVE DiskTypes'
  BY <1>1 DEF SetUrl, localVars, diskVars
<1>2. ASSUME NEW a \in Apps, AddInstallerArg(a) PROVE DiskTypes'
  BY <1>2 DEF AddInstallerArg, localVars, diskVars
<1>3. ASSUME NEW a \in Apps, NEW e \in Enclosures, Offer(a, e) PROVE DiskTypes'
  BY <1>3 DEF Offer, diskVars
<1>4. ASSUME NEW a \in Apps, Resume(a) PROVE DiskTypes'
  BY <1>4 DEF Resume, diskVars
<1>5. ASSUME NEW a \in Apps, NEW from, Returns(a, from), children' \subseteq Children
      PROVE DiskTypes'
  BY <1>5 DEF Returns, diskVars
<1>6. ASSUME NEW a \in Apps,
             MergeFails(a) \/ NoPath(a) \/ SearchFails(a) \/ OpenFails(a)
               \/ TransferFails(a) \/ Rejected(a) \/ ForkFails(a)
      PROVE DiskTypes'
  BY <1>5, <1>6 DEF MergeFails, NoPath, SearchFails, OpenFails, TransferFails,
     Rejected, ForkFails
<1>7. ASSUME NEW a \in Apps, NameTaken(a) PROVE DiskTypes'
  BY <1>7 DEF NameTaken, diskVars
<1>8. ASSUME NEW a \in Apps, NameFree(a) PROVE DiskTypes'
  <2>1. try[a] \in Names
    BY <1>8 DEF NameFree, Names
  <2>2. raced' \subseteq Names
    BY <1>8, <2>1 DEF NameFree
  <2>3. /\ pc' \in [Apps -> Places] /\ path' \in [Apps -> Names \cup {NULL}]
        /\ \A b \in Apps : pc'[b] \in HoldsFile => path'[b] \in Names
        /\ \A b \in Apps : pc'[b] # "app" => updates'[b] # 0
    BY <1>8, <2>1 DEF NameFree
  <2>4. QED BY <1>8, <2>2, <2>3 DEF NameFree
<1>9. ASSUME NEW a \in Apps, Open(a) PROVE DiskTypes'
  BY <1>9 DEF Open
<1>10. ASSUME NEW a \in Apps, TransferEnds(a) PROVE DiskTypes'
  BY <1>10 DEF TransferEnds
<1>11. ASSUME NEW a \in Apps, Verified(a) PROVE DiskTypes'
  BY <1>11 DEF Verified, diskVars
<1>12. ASSUME NEW a \in Apps, Fork(a) PROVE DiskTypes'
  <2>1. Returns(a, "launch") /\ children' = children \cup {Child(a, "forked", NULL)}
    BY <1>12 DEF Fork
  <2>2. Child(a, "forked", NULL) \in Children
    BY <2>1, ChildType DEF Returns
  <2>3. QED BY <1>5, <2>1, <2>2
<1>13. ASSUME NEW a \in Apps, CreateProcess(a) PROVE DiskTypes'
  <2>1. /\ Returns(a, "launch")
        /\ children' = children \cup {Child(a, "installer", Program(a))}
    BY <1>13 DEF CreateProcess
  <2>2. pc[a] = "launch"
    BY <2>1 DEF Returns
  <2>3. Child(a, "installer", Program(a)) \in Children
    BY <2>2, ChildType, ProgramType
  <2>4. QED BY <1>5, <2>1, <2>3
<1>14. ASSUME NEW c \in children, Exec(c) \/ ExecFails(c) PROVE DiskTypes'
  <2>1. children' \subseteq Children
    BY <1>14, ChildStep
  <2>2. QED BY <1>14, <2>1, ChildStep DEF localVars, diskVars
<1>15. ASSUME NEW n \in Names, OtherProgram(n) PROVE DiskTypes'
  BY <1>15 DEF OtherProgram, localVars
<1>16. CASE UNCHANGED vars
  BY <1>16 DEF vars, localVars, diskVars
<1>17. QED
  BY <1>1, <1>2, <1>3, <1>4, <1>6, <1>7, <1>8, <1>9, <1>10, <1>11, <1>12,
     <1>13, <1>14, <1>15, <1>16 DEF Next, Application

LEMMA ResolvedScheme ==
  ASSUME NEW parent \in AbsoluteUrls, NEW e \in AbsoluteUrls \cup RelativeUrls
  PROVE  \/ ResolvedUrl(parent, e) = NULL
         \/ ResolvedUrl(parent, e).scheme \in {"https", "file"}
<1>1. parent.scheme \in {"https", "file"}
  BY DEF AbsoluteUrls
<1>2. CASE ~IsRelative(e)
  BY <1>2 DEF ResolvedUrl, IsRelative, AbsoluteUrls
<1>3. CASE IsRelative(e)
  <2>1. \A s, t : /\ [parent EXCEPT !.segs = s].scheme = parent.scheme
                  /\ [parent EXCEPT !.slashes = t, !.segs = s].scheme = parent.scheme
    BY DEF AbsoluteUrls
  <2>2. QED BY <1>1, <1>3, <2>1 DEF ResolvedUrl, UrlMerge, MergeFile, MergeHttps
<1>4. QED BY <1>2, <1>3

LEMMA WithArgType == ASSUME NEW list \in ArgLists PROVE WithArg(list) \in ArgLists
<1> DEFINE node == Len(list.next) + 1
           slot == IF list.head = 0 THEN 0 ELSE list.slot
           longer == [list EXCEPT !.next = Append(list.next, 0)]
<1>1. node \in Nat /\ slot \in Nat
  BY DEF ArgLists
<1>2. longer \in ArgLists
  <2>1. Append(list.next, 0) \in Seq(Nat)
    BY DEF ArgLists
  <2>2. QED BY <2>1 DEF ArgLists
<1>3. ASSUME NEW l \in ArgLists, NEW s \in Nat, NEW n \in Nat
      PROVE  Put(l, s, n) \in ArgLists
  <2>1. [l.next EXCEPT ![s] = n] \in Seq(Nat)
    <3>1. l.next \in Seq(Nat)
      BY DEF ArgLists
    <3>2. PICK m \in Nat : l.next \in [1 .. m -> Nat]
      BY <3>1
    <3>3. [l.next EXCEPT ![s] = n] \in [1 .. m -> Nat]
      BY <3>2
    <3>4. QED BY <3>3, SeqDef
  <2>2. QED BY <2>1 DEF Put, ArgLists
<1>4. Put(longer, slot, node) \in ArgLists
  BY <1>1, <1>2, <1>3
<1>5. WithArg(list) = [Put(longer, slot, node) EXCEPT !.slot = node]
  BY DEF WithArg
<1>6. QED BY <1>1, <1>4, <1>5 DEF ArgLists

LEMMA HandleTypesInit == Init => HandleTypes
<1>1. NoArgs \in ArgLists
  BY DEF NoArgs, ArgLists
<1>2. QED BY <1>1 DEF Init, HandleTypes, Places

LEMMA HandleTypesStep == HandleTypes /\ [Next]_vars => HandleTypes'
<1> SUFFICES ASSUME HandleTypes, [Next]_vars PROVE HandleTypes'
  OBVIOUS
<1> USE InstallerAssumption DEF HandleTypes, Places, Goes
<1>1. ASSUME NEW a \in Apps, NEW u \in Urls, SetUrl(a, u) PROVE HandleTypes'
  BY <1>1 DEF SetUrl, localVars
<1>2. ASSUME NEW a \in Apps, AddInstallerArg(a) PROVE HandleTypes'
  BY <1>2, WithArgType DEF AddInstallerArg, localVars
<1>3. ASSUME NEW a \in Apps, NEW e \in Enclosures, Offer(a, e) PROVE HandleTypes'
  BY <1>3 DEF Offer
<1>4. ASSUME NEW a \in Apps, Resume(a) PROVE HandleTypes'
  <2>1. url[a] \in AbsoluteUrls /\ enclosure[a] \in AbsoluteUrls \cup RelativeUrls
    BY <1>4 DEF Resume
  <2>2. QED BY <1>4, <2>1, ResolvedScheme DEF Resume
<1>5. ASSUME NEW a \in Apps, NEW from, Returns(a, from) PROVE HandleTypes'
  <2>1. NoArgs \in ArgLists
    BY DEF NoArgs, ArgLists
  <2>2. QED BY <1>5, <2>1 DEF Returns
<1>6. ASSUME NEW a \in Apps,
             MergeFails(a) \/ NoPath(a) \/ SearchFails(a) \/ OpenFails(a)
               \/ TransferFails(a) \/ Rejected(a) \/ ForkFails(a) \/ Fork(a)
               \/ CreateProcess(a)
      PROVE HandleTypes'
  BY <1>5, <1>6 DEF MergeFails, NoPath, SearchFails, OpenFails, TransferFails,
     Rejected, ForkFails, Fork, CreateProcess
<1>7. ASSUME NEW a \in Apps, NameTaken(a) \/ NameFree(a) \/ Open(a) \/ Verified(a)
      PROVE HandleTypes'
  BY <1>7 DEF NameTaken, NameFree, Open, Verified, handleVars
<1>8. ASSUME NEW a \in Apps, TransferEnds(a) PROVE HandleTypes'
  BY <1>8 DEF TransferEnds
<1>9. ASSUME NEW c \in children, Exec(c) \/ ExecFails(c) PROVE HandleTypes'
  BY <1>9 DEF Exec, ExecFails, Becomes, handleVars, localVars
<1>10. ASSUME NEW n \in Names, OtherProgram(n) PROVE HandleTypes'
  BY <1>10 DEF OtherProgram, handleVars, localVars
<1>11. CASE UNCHANGED vars
  BY <1>11 DEF vars, handleVars, localVars
<1>12. QED
  BY <1>1, <1>2, <1>3, <1>4, <1>6, <1>7, <1>8, <1>9, <1>10, <1>11
     DEF Next, Application

(* Every variable has its type, for any applications, urls and bounds.     *)
THEOREM TypeCorrect == Spec => []TypeOK
<1>1. Init => TypeOK
  BY DiskTypesInit, HandleTypesInit, TypesSplit
<1>2. TypeOK /\ [Next]_vars => TypeOK'
  <2>1. SUFFICES ASSUME DiskTypes, HandleTypes, [Next]_vars
                 PROVE  DiskTypes' /\ HandleTypes'
    BY DEF TypeOK, DiskTypes, HandleTypes, Places, HoldsFile
  <2>2. QED BY <2>1, DiskTypesStep, HandleTypesStep
<1>3. QED BY <1>1, <1>2, PTL DEF Spec

-----------------------------------------------------------------------------
(* Files                                                                   *)

(* Two applications that are about to open the same name raced for it.     *)
OpenersRaced ==
  \A a, b \in Apps :
    a # b /\ pc[a] = "open" /\ pc[b] = "open" /\ path[a] = path[b]
      => path[a] \in raced

(* So did an application that is about to open a file somebody has opened. *)
LateOpenerRaced ==
  \A a \in Apps :
    pc[a] = "open" /\ files[path[a]] \in {"partial", "short", "whole"}
      => path[a] \in raced

(* And one whose file has been emptied or finished while it was writing.   *)
WriterRaced ==
  \A a \in Apps : pc[a] = "transfer" =>
    \/ files[path[a]] = "partial" /\ writer[path[a]] = a
    \/ path[a] \in raced

FilesInv ==
  /\ DiskTypes
  /\ OpenersRaced /\ LateOpenerRaced /\ WriterRaced
  /\ OthersKeepOff /\ SignedIsWhole

LEMMA FilesInit == Init => FilesInv
BY DiskTypesInit DEF Init, FilesInv, OpenersRaced, LateOpenerRaced, WriterRaced,
   OthersKeepOff, InUse, SignedIsWhole, Cleared, Started

(* A step in which nobody gets hold of a file and no file changes.         *)
LEMMA QuietStep ==
  ASSUME FilesInv, DiskTypes',
         UNCHANGED <<files, writer, raced>>,
         \A a \in Apps : pc'[a] \in {"open", "transfer", "downloaded"}
                           => pc'[a] = pc[a] /\ path'[a] = path[a],
         InUse' \subseteq InUse,
         \A n \in Cleared' \ Cleared : Signed => files[n] = "whole"
  PROVE  FilesInv'
<1>1. OpenersRaced'
  BY DEF FilesInv, OpenersRaced
<1>2. LateOpenerRaced'
  BY DEF FilesInv, LateOpenerRaced
<1>3. WriterRaced'
  BY DEF FilesInv, WriterRaced
<1>4. OthersKeepOff'
  BY DEF FilesInv, OthersKeepOff
<1>5. SignedIsWhole'
  BY DEF FilesInv, SignedIsWhole
<1>6. QED BY <1>1, <1>2, <1>3, <1>4, <1>5 DEF FilesInv

LEMMA NameFreeFiles == ASSUME FilesInv, DiskTypes', NEW a \in Apps, NameFree(a)
                       PROVE  FilesInv'
<1> USE DEF FilesInv, DiskTypes, Places
<1> DEFINE n == try[a]
<1>1. /\ pc' = [pc EXCEPT ![a] = "open"] /\ path' = [path EXCEPT ![a] = n]
      /\ pc[a] = "search" /\ files[n] \in {"none", "directory"}
      /\ raced \subseteq raced'
      /\ \A b \in Apps \ {a} : pc[b] = "open" /\ path[b] = n => n \in raced'
      /\ UNCHANGED <<files, writer, children>>
  BY DEF NameFree, Goes, FileExists
<1>2. OpenersRaced'
  BY <1>1 DEF OpenersRaced
<1>3. LateOpenerRaced'
  BY <1>1 DEF LateOpenerRaced
<1>4. WriterRaced'
  BY <1>1 DEF WriterRaced
<1>5. InUse' \subseteq InUse /\ Cleared' \subseteq Cleared
  BY <1>1 DEF InUse, Cleared, Started
<1>6. OthersKeepOff' /\ SignedIsWhole'
  BY <1>1, <1>5 DEF OthersKeepOff, SignedIsWhole
<1>7. QED BY <1>2, <1>3, <1>4, <1>6

LEMMA OpenFiles == ASSUME FilesInv, DiskTypes', NEW a \in Apps, Open(a)
                   PROVE  FilesInv'
<1> USE DEF FilesInv, DiskTypes, Places, HoldsFile
<1> DEFINE n == path[a]
<1>1. /\ pc' = [pc EXCEPT ![a] = "transfer"] /\ pc[a] = "open" /\ n \in Names
      /\ files' = [files EXCEPT ![n] = "partial"]
      /\ writer' = [writer EXCEPT ![n] = a]
      /\ UNCHANGED <<path, children, raced>>
  BY DEF Open, Goes
<1>2. OpenersRaced'
  BY <1>1 DEF OpenersRaced
<1>3. LateOpenerRaced'
  BY <1>1 DEF LateOpenerRaced, OpenersRaced
<1>4. WriterRaced'
  BY <1>1 DEF WriterRaced, LateOpenerRaced
<1>5. InUse' \subseteq InUse /\ Cleared' \subseteq Cleared
  BY <1>1 DEF InUse, Cleared, Started
<1>6. (n \in InUse \/ (Signed /\ n \in Cleared)) => n \in raced
  BY <1>1 DEF OthersKeepOff, SignedIsWhole, LateOpenerRaced
<1>7. \A m : m # n => files'[m] = files[m]
  BY <1>1
<1>8. OthersKeepOff'
  BY <1>1, <1>5, <1>6, <1>7 DEF OthersKeepOff
<1>9. SignedIsWhole'
  BY <1>1, <1>5, <1>6, <1>7 DEF SignedIsWhole
<1>10. QED BY <1>2, <1>3, <1>4, <1>8, <1>9

LEMMA TransferEndsFiles == ASSUME FilesInv, DiskTypes', NEW a \in Apps, TransferEnds(a)
                           PROVE  FilesInv'
<1> USE DEF FilesInv, DiskTypes, Places, HoldsFile
<1> DEFINE n == path[a]
<1>1. PICK what \in {"whole", "short"} :
        files' = [files EXCEPT ![n] = IF writer[n] = a THEN what ELSE files[n]]
  BY DEF TransferEnds
<1>2. /\ pc' = [pc EXCEPT ![a] = "downloaded"] /\ pc[a] = "transfer" /\ n \in Names
      /\ UNCHANGED <<path, children, raced, writer>>
  BY DEF TransferEnds, Goes
<1>3. (files[n] = "partial" /\ writer[n] = a) \/ n \in raced
  BY <1>2 DEF WriterRaced
<1>4. \A m : m # n => files'[m] = files[m]
  BY <1>1
<1>5. OpenersRaced'
  BY <1>2 DEF OpenersRaced
<1>6. LateOpenerRaced'
  BY <1>2, <1>3, <1>4 DEF LateOpenerRaced
<1>7. WriterRaced'
  BY <1>2, <1>3, <1>4 DEF WriterRaced
<1>8. InUse' \subseteq InUse \cup {n} /\ Cleared' \subseteq Cleared
  BY <1>2 DEF InUse, Cleared, Started
<1>9. OthersKeepOff'
  <2>1. files'[n] \in {"whole", "short"} \/ n \in raced
    BY <1>1, <1>2, <1>3
  <2>2. QED BY <1>2, <1>4, <1>8, <2>1 DEF OthersKeepOff
<1>10. SignedIsWhole'
  <2>1. Signed /\ n \in Cleared => n \in raced
    BY <1>3 DEF SignedIsWhole
  <2>2. QED BY <1>2, <1>4, <1>8, <2>1 DEF SignedIsWhole
<1>11. QED BY <1>5, <1>6, <1>7, <1>9, <1>10

LEMMA FilesStep == FilesInv /\ [Next]_vars => FilesInv'
<1> SUFFICES ASSUME FilesInv, [Next]_vars PROVE FilesInv'
  OBVIOUS
<1>1. DiskTypes /\ DiskTypes'
  BY DiskTypesStep DEF FilesInv
<1> USE <1>1 DEF DiskTypes, Places, Goes
<1>2. ASSUME NEW a \in Apps, NEW from, Returns(a, from), UNCHANGED children
      PROVE FilesInv'
  <2>1. pc' = [pc EXCEPT ![a] = "app"] /\ path' = [path EXCEPT ![a] = NULL]
        /\ UNCHANGED <<files, writer, raced>>
    BY <1>2 DEF Returns, diskVars
  <2>2. InUse' \subseteq InUse /\ Cleared' \subseteq Cleared
    BY <1>2, <2>1 DEF InUse, Cleared, Started
  <2>3. QED BY <2>1, <2>2, QuietStep
<1>3. ASSUME NEW a \in Apps,
             MergeFails(a) \/ NoPath(a) \/ SearchFails(a) \/ OpenFails(a)
               \/ TransferFails(a) \/ Rejected(a) \/ ForkFails(a)
      PROVE FilesInv'
  BY <1>2, <1>3 DEF MergeFails, NoPath, SearchFails, OpenFails, TransferFails,
     Rejected, ForkFails
<1>4. ASSUME NEW a \in Apps, NEW to \in {"offered", "search"},
             pc' = [pc EXCEPT ![a] = to], pc[a] \notin {"downloaded", "launch"},
             UNCHANGED <<path, children, diskVars>>
      PROVE FilesInv'
  <2>1. InUse' \subseteq InUse /\ Cleared' \subseteq Cleared
    BY <1>4 DEF InUse, Cleared, Started
  <2>2. QED BY <1>4, <2>1, QuietStep DEF diskVars
<1>5. ASSUME NEW a \in Apps, NEW e \in Enclosures, Offer(a, e) PROVE FilesInv'
  BY <1>4, <1>5 DEF Offer
<1>6. ASSUME NEW a \in Apps, Resume(a) PROVE FilesInv'
  BY <1>4, <1>6 DEF Resume
<1>7. ASSUME NEW a \in Apps, NameTaken(a) PROVE FilesInv'
  BY <1>4, <1>7 DEF NameTaken
<1>8. ASSUME NEW a \in Apps, (\E u \in Urls : SetUrl(a, u)) \/ AddInstallerArg(a)
      PROVE FilesInv'
  <2>1. UNCHANGED <<pc, path, files, writer, raced, children>>
    BY <1>8 DEF SetUrl, AddInstallerArg, localVars, diskVars
  <2>2. InUse' = InUse /\ Cleared' = Cleared
    BY <2>1 DEF InUse, Cleared, Started
  <2>3. QED BY <2>1, <2>2, QuietStep
<1>9. ASSUME NEW a \in Apps, Verified(a) PROVE FilesInv'
  <2>1. /\ pc' = [pc EXCEPT ![a] = "launch"] /\ pc[a] = "downloaded"
        /\ UNCHANGED <<path, children, files, writer, raced>>
        /\ Signed => files[path[a]] = "whole"
    BY <1>9 DEF Verified, diskVars
  <2>2. InUse' \subseteq InUse
    BY <2>1 DEF InUse, Started
  <2>3. Cleared' \subseteq Cleared \cup {path[a]}
    <3>1. Started' = Started
      BY <2>1 DEF Started
    <3>2. QED BY <2>1, <3>1 DEF Cleared
  <2>4. \A n \in Cleared' \ Cleared : Signed => files[n] = "whole"
    BY <2>1, <2>3
  <2>5. \A b \in Apps : pc'[b] \in {"open", "transfer", "downloaded"}
                          => pc'[b] = pc[b] /\ path'[b] = path[b]
    BY <2>1
  <2>6. QED BY <2>1, <2>2, <2>4, <2>5, QuietStep
<1>10. ASSUME NEW a \in Apps, Fork(a) \/ CreateProcess(a) PROVE FilesInv'
  <2>1. /\ pc' = [pc EXCEPT ![a] = "app"] /\ pc[a] = "launch"
        /\ path' = [path EXCEPT ![a] = NULL]
        /\ UNCHANGED <<files, writer, raced>>
    BY <1>10 DEF Fork, CreateProcess, Returns, diskVars
  <2>2. PICK c : c.path = path[a] /\ children' = children \cup {c}
    BY <1>10 DEF Fork, CreateProcess, Child
  <2>3. InUse' \subseteq InUse /\ Cleared' \subseteq Cleared
    BY <2>1, <2>2 DEF InUse, Cleared, Started
  <2>4. QED BY <2>1, <2>3, QuietStep
<1>11. ASSUME NEW c \in children, Exec(c) \/ ExecFails(c) PROVE FilesInv'
  <2>1. UNCHANGED <<pc, path, files, writer, raced>> /\ c.state = "forked"
    BY <1>11, ChildStep DEF localVars, diskVars
  <2>2. PICK d : d.path = c.path /\ children' = (children \ {c}) \cup {d}
    BY <1>11, ChildStep
  <2>3. InUse' \subseteq InUse /\ Cleared' \subseteq Cleared
    BY <2>1, <2>2 DEF InUse, Cleared, Started
  <2>4. QED BY <2>1, <2>3, QuietStep
<1>12. ASSUME NEW n \in Names, OtherProgram(n) PROVE FilesInv'
  <2>1. /\ files[n] = "none"
        /\ files'[n] \in {"foreign", "directory"}
        /\ \A m \in Names \ {n} : files'[m] = files[m]
        /\ UNCHANGED <<pc, path, writer, raced, children>>
    BY <1>12 DEF OtherProgram, localVars
  <2>2. InUse' = InUse /\ Cleared' = Cleared
    BY <2>1 DEF InUse, Cleared, Started
  <2>3. InUse \subseteq Names /\ Cleared \subseteq Names
    BY DEF InUse, Cleared, Started, HoldsFile, Children
  <2>4. OpenersRaced'
    BY <2>1 DEF FilesInv, OpenersRaced
  <2>5. LateOpenerRaced'
    BY <2>1 DEF FilesInv, LateOpenerRaced, HoldsFile
  <2>6. WriterRaced'
    BY <2>1 DEF FilesInv, WriterRaced, HoldsFile
  <2>7. OthersKeepOff' /\ SignedIsWhole'
    BY <2>1, <2>2, <2>3 DEF FilesInv, OthersKeepOff, SignedIsWhole
  <2>8. QED BY <2>4, <2>5, <2>6, <2>7 DEF FilesInv
<1>13. CASE UNCHANGED vars
  <2>1. UNCHANGED <<pc, path, files, writer, raced, children>>
    BY <1>13 DEF vars, localVars, diskVars
  <2>2. InUse' = InUse /\ Cleared' = Cleared
    BY <2>1 DEF InUse, Cleared, Started
  <2>3. QED BY <2>1, <2>2, QuietStep
<1>14. QED
  BY <1>3, <1>5, <1>6, <1>7, <1>8, <1>9, <1>10, <1>11, <1>12, <1>13,
     NameFreeFiles, OpenFiles, TransferEndsFiles DEF Next, Application

(* From its download on, no other application and no later update empties  *)
(* the file of an installer, for any number of applications, updates and   *)
(* names, unless two applications found its name unused before either had  *)
(* created the file.                                                       *)
THEOREM InstallersAreLeftAlone == Spec => []OthersKeepOff
<1>1. FilesInv => OthersKeepOff
  BY DEF FilesInv
<1>2. QED BY <1>1, FilesInit, FilesStep, PTL DEF Spec

(* What a signature was checked of is the whole file, and is so when it    *)
(* runs, however short a download may be, with the same exception.         *)
THEOREM SignedInstallersAreWhole == Spec => []SignedIsWhole
<1>1. FilesInv => SignedIsWhole
  BY DEF FilesInv
<1>2. QED BY <1>1, FilesInit, FilesStep, PTL DEF Spec

(* Only another application can take a name between the search for it and  *)
(* the file.                                                               *)
LEMMA NobodyToRace ==
  ASSUME \A a, b \in Apps : a = b
  PROVE  raced = {} /\ [Next]_vars => raced' = {}
<1> SUFFICES ASSUME raced = {}, [Next]_vars PROVE UNCHANGED raced
  OBVIOUS
<1>1. ASSUME NEW a \in Apps, NameFree(a) PROVE UNCHANGED raced
  BY <1>1 DEF NameFree
<1>2. ASSUME NEW a \in Apps, Application(a), ~NameFree(a) PROVE UNCHANGED raced
  BY <1>2 DEF Application, SetUrl, AddInstallerArg, Offer, Resume, MergeFails,
     NoPath, NameTaken, SearchFails, OpenFails, Open, TransferFails, TransferEnds,
     Rejected, Verified, ForkFails, Fork, CreateProcess, Returns, diskVars
<1>3. ASSUME NEW c \in children, Exec(c) \/ ExecFails(c) PROVE UNCHANGED raced
  BY <1>3 DEF Exec, ExecFails, Becomes, diskVars
<1>4. ASSUME NEW n \in Names, OtherProgram(n) PROVE UNCHANGED raced
  BY <1>4 DEF OtherProgram
<1>5. CASE UNCHANGED vars
  BY <1>5 DEF vars, diskVars
<1>6. QED BY <1>1, <1>2, <1>3, <1>4, <1>5 DEF Next

(* An application that is the only one to update gets no such exception:   *)
(* where signatures are checked, what it starts is the whole file.         *)
THEOREM AloneInstallersAreWhole ==
  ASSUME \A a, b \in Apps : a = b, Signed
  PROVE  Spec => [](\A n \in Cleared : files[n] = "whole")
<1> DEFINE Whole == \A n \in Cleared : files[n] = "whole"
<1>1. Init => FilesInv /\ raced = {}
  BY FilesInit DEF Init
<1>2. (FilesInv /\ raced = {}) /\ [Next]_vars => (FilesInv /\ raced = {})'
  BY FilesStep, NobodyToRace
<1>3. FilesInv /\ raced = {} => Whole
  BY DEF FilesInv, SignedIsWhole
<1>4. QED BY <1>1, <1>2, <1>3, PTL DEF Spec

-----------------------------------------------------------------------------
(* Urls                                                                    *)

LEMMA LengthIsNat == ASSUME NEW S, NEW s \in Seq(S) PROVE Len(s) \in Nat
OBVIOUS

LEMMA WiderSeq == ASSUME NEW S, NEW T, S \subseteq T, NEW s \in Seq(S) PROVE s \in Seq(T)
<1>1. Len(s) \in Nat /\ s \in [1 .. Len(s) -> S]
  OBVIOUS
<1>2. s \in [1 .. Len(s) -> T]
  BY <1>1
<1>3. QED BY <1>1, <1>2, SeqDef

LEMMA KeptLength ==
  ASSUME NEW S, NEW s \in Seq(S), NEW t \in Seq(S), NEW n \in 0 .. Len(s)
  PROVE  Len(Upto(s, n) \o t) = n + Len(t)
<1>1. n \in Nat /\ n \in Int /\ 1 \in Int /\ Len(t) \in Nat
  OBVIOUS
<1>2. \A i \in 1 .. n : s[i] \in S
  OBVIOUS
<1>3. Upto(s, n) \in Seq(S) /\ Len(Upto(s, n)) = IF 1 <= n THEN n - 1 + 1 ELSE 0
  BY <1>1, <1>2, SubSeqProperties DEF Upto
<1>4. Len(Upto(s, n)) = n
  BY <1>1, <1>3
<1>5. QED BY <1>3, <1>4, ConcatProperties

(* Where a document is cut shows in the result.                            *)
LEMMA CutsDiffer ==
  ASSUME NEW parent \in AbsoluteUrls, NEW e \in RelativeUrls,
         NEW i \in 0 .. Len(parent.segs), NEW j \in 0 .. Len(parent.segs),
         [parent EXCEPT !.segs = Upto(parent.segs, i) \o e.segs]
           = [parent EXCEPT !.segs = Upto(parent.segs, j) \o e.segs]
  PROVE  i = j
<1>1. parent.segs \in Seq(Segments \cup {""})
  BY DEF AbsoluteUrls
<1>2. e.segs \in Seq(Segments \cup {""}) /\ Len(e.segs) \in Nat
  <2>1. e.segs \in Seq(Segments)
    BY DEF RelativeUrls
  <2>2. QED BY <2>1, LengthIsNat, WiderSeq
<1>3. \A s : [parent EXCEPT !.segs = s].segs = s
  BY DEF AbsoluteUrls
<1>4. Upto(parent.segs, i) \o e.segs = Upto(parent.segs, j) \o e.segs
  <2> DEFINE left == Upto(parent.segs, i) \o e.segs
             right == Upto(parent.segs, j) \o e.segs
  <2>1. [parent EXCEPT !.segs = left] = [parent EXCEPT !.segs = right]
    OBVIOUS
  <2> HIDE DEF left, right
  <2>2. [parent EXCEPT !.segs = left].segs = left /\ [parent EXCEPT !.segs = right].segs = right
    BY <1>3
  <2>3. left = right
    BY <2>1, <2>2
  <2>4. QED BY <2>3 DEF left, right
<1>5. /\ Len(Upto(parent.segs, i) \o e.segs) = i + Len(e.segs)
      /\ Len(Upto(parent.segs, j) \o e.segs) = j + Len(e.segs)
  BY <1>1, <1>2, KeptLength
<1>6. i \in Nat /\ j \in Nat
  <2>1. Len(parent.segs) \in Nat
    BY <1>1, LengthIsNat
  <2>2. QED BY <2>1
<1>7. i + Len(e.segs) = j + Len(e.segs)
  BY <1>4, <1>5
<1>8. \A k, l, m \in Nat : k + m = l + m => k = l
  OBVIOUS
<1>9. QED BY <1>2, <1>6, <1>7, <1>8

(* url_merge is right in the cases of MergesRight, and in no other, unless *)
(* it refuses to merge.                                                    *)
LEMMA MergedExactly ==
  ASSUME NEW parent \in AbsoluteUrls, Len(parent.segs) > 0,
         NEW e \in AbsoluteUrls \cup RelativeUrls, ResolvedUrl(parent, e) # NULL
  PROVE  ResolvedUrl(parent, e) = RelativeTo(parent, e) <=> MergesRight(parent, e)
<1> DEFINE length == Len(parent.segs)
           first == FirstSlash(parent)
           kept(n) == [parent EXCEPT !.segs = Upto(parent.segs, n) \o e.segs]
<1>1. parent.scheme \in {"https", "file"} /\ parent.segs \in Seq(Segments \cup {""})
  BY DEF AbsoluteUrls
<1>2. length \in Nat /\ length > 0 /\ LastSlash(parent) = length - 1
  <2>1. length \in Nat
    BY <1>1, LengthIsNat
  <2>2. QED BY <2>1 DEF LastSlash
<1>3. first \in {1, 2}
  BY DEF FirstSlash
<1>4. parent.segs[1] # "" <=> first = 1
  <2>1. CASE parent.segs[1] = ""
    <3>1. first = 2
      BY <2>1 DEF FirstSlash
    <3> HIDE DEF first
    <3>2. first # 1
      BY <3>1
    <3>3. QED BY <2>1, <3>2
  <2>2. CASE parent.segs[1] # ""
    BY <2>2 DEF FirstSlash
  <2>3. QED BY <2>1, <2>2
<1>5. CASE ~IsRelative(e)
  BY <1>5 DEF ResolvedUrl, RelativeTo, MergesRight
<1>6. CASE IsRelative(e) /\ parent.scheme = "https" /\ (e.rooted \/ LastSlash(parent) = 0)
  <2>1. ResolvedUrl(parent, e) = [parent EXCEPT !.slashes = 1, !.segs = e.segs]
    BY <1>6 DEF ResolvedUrl, UrlMerge, MergeHttps
  <2>2. ResolvedUrl(parent, e).slashes = 1
    BY <2>1 DEF AbsoluteUrls
  <2>3. \A s : [parent EXCEPT !.segs = s].slashes = 2
    BY DEF AbsoluteUrls
  <2>4. RelativeTo(parent, e).slashes = 2
    BY <1>6, <2>3 DEF RelativeTo
  <2>5. ~MergesRight(parent, e)
    <3>1. HasDirectory(parent) => LastSlash(parent) >= 1
      BY <1>6 DEF HasDirectory
    <3>2. LastSlash(parent) = 0 => ~HasDirectory(parent)
      BY <3>1
    <3>3. QED BY <1>6, <3>2, Zenon DEF MergesRight
  <2>6. QED BY <2>2, <2>4, <2>5
<1>7. CASE IsRelative(e) /\ parent.scheme = "https" /\ ~e.rooted /\ LastSlash(parent) # 0
  <2>1. ResolvedUrl(parent, e) = kept(length - 1)
    BY <1>7 DEF ResolvedUrl, UrlMerge, MergeHttps, LastSlash
  <2>2. length # 1
    BY <1>2, <1>7
  <2>3. RelativeTo(parent, e) = kept(length - 1)
    BY <1>7, <2>2 DEF RelativeTo
  <2>4. LastSlash(parent) >= 1
    <3>1. LastSlash(parent) # 0
      BY <1>7
    <3> HIDE DEF length
    <3>2. QED BY <1>2, <3>1
  <2>5. HasDirectory(parent)
    BY <1>7, <2>4 DEF HasDirectory
  <2>6. MergesRight(parent, e)
    BY <1>7, <2>5 DEF MergesRight
  <2>7. QED BY <2>1, <2>3, <2>6
<1>8. CASE IsRelative(e) /\ parent.scheme = "file"
  <2>1. e \in RelativeUrls
    BY <1>8 DEF IsRelative
  <2>2. ~(LastSlash(parent) < first)
    BY <1>8 DEF ResolvedUrl, UrlMerge, MergeFile
  <2>3. first <= length - 1 /\ LastSlash(parent) >= first /\ length # 1
    <3> HIDE DEF length, first
    <3>1. QED BY <1>2, <1>3, <2>2
  <2>4. HasDirectory(parent)
    BY <1>8, <2>3 DEF HasDirectory
  <2>5. first \in 0 .. length /\ 1 \in 0 .. length /\ length - 1 \in 0 .. length
    <3> HIDE DEF length, first
    <3>1. QED BY <1>2, <1>3, <2>3
  <2>6. CASE e.rooted
    <3>1. ResolvedUrl(parent, e) = kept(first)
      BY <1>8, <2>2, <2>6 DEF ResolvedUrl, UrlMerge, MergeFile
    <3>2. RelativeTo(parent, e) = kept(1)
      BY <1>8, <2>6 DEF RelativeTo
    <3>3. kept(first) = kept(1) <=> first = 1
      BY <2>1, <2>5, CutsDiffer
    <3>4. MergesRight(parent, e) <=> parent.segs[1] # ""
      BY <1>8, <2>4, <2>6, Zenon DEF MergesRight
    <3>5. QED BY <1>4, <3>1, <3>2, <3>3, <3>4
  <2>7. CASE ~e.rooted /\ Adjoins(parent)
    <3>1. ResolvedUrl(parent, e) = kept(first)
      BY <1>8, <2>2, <2>7 DEF ResolvedUrl, UrlMerge, MergeFile
    <3>2. RelativeTo(parent, e) = kept(length - 1)
      BY <1>8, <2>3, <2>7 DEF RelativeTo
    <3>3. first # length - 1
      <4>1. LastSlash(parent) = first + 1
        BY <2>7 DEF Adjoins
      <4> HIDE DEF length, first
      <4>2. QED BY <1>2, <1>3, <4>1
    <3>4. kept(first) # kept(length - 1)
      BY <2>1, <2>5, <3>3, CutsDiffer
    <3>5. ~MergesRight(parent, e)
      BY <1>8, <2>7, Zenon DEF MergesRight
    <3>6. QED BY <3>1, <3>2, <3>4, <3>5
  <2>8. CASE ~e.rooted /\ ~Adjoins(parent)
    <3>1. ResolvedUrl(parent, e) = kept(length - 1)
      BY <1>8, <2>2, <2>8 DEF ResolvedUrl, UrlMerge, MergeFile, LastSlash
    <3>2. RelativeTo(parent, e) = kept(length - 1)
      BY <1>8, <2>3, <2>8 DEF RelativeTo
    <3>3. MergesRight(parent, e)
      BY <2>4, <2>8, Zenon DEF MergesRight
    <3>4. QED BY <3>1, <3>2, <3>3
  <2>9. QED BY <2>6, <2>7, <2>8
<1>9. QED BY <1>1, <1>5, <1>6, <1>7, <1>8

(* While an installer is downloaded, its url is the one that was merged.   *)
TargetInv ==
  /\ HandleTypes
  /\ \A a \in Apps : pc[a] \in {"search", "open", "transfer"}
                       => target[a] = ResolvedUrl(url[a], enclosure[a]) /\ target[a] # NULL

LEMMA TargetInit == Init => TargetInv
BY HandleTypesInit DEF Init, TargetInv

LEMMA TargetStep == TargetInv /\ [Next]_vars => TargetInv'
<1> SUFFICES ASSUME TargetInv, [Next]_vars PROVE TargetInv'
  OBVIOUS
<1>0. HandleTypes /\ HandleTypes'
  BY HandleTypesStep DEF TargetInv
<1> USE <1>0 DEF TargetInv, HandleTypes, Places, Goes
<1>1. ASSUME NEW a \in Apps, NEW from, Returns(a, from) PROVE TargetInv'
  BY <1>1 DEF Returns
<1>2. ASSUME NEW a \in Apps,
             MergeFails(a) \/ NoPath(a) \/ SearchFails(a) \/ OpenFails(a)
               \/ TransferFails(a) \/ Rejected(a) \/ ForkFails(a) \/ Fork(a)
               \/ CreateProcess(a)
      PROVE TargetInv'
  BY <1>1, <1>2 DEF MergeFails, NoPath, SearchFails, OpenFails, TransferFails,
     Rejected, ForkFails, Fork, CreateProcess
<1>3. ASSUME NEW a \in Apps, (\E u \in Urls : SetUrl(a, u)) \/ AddInstallerArg(a)
      PROVE TargetInv'
  BY <1>3 DEF SetUrl, AddInstallerArg, MayConfigure, localVars
<1>4. ASSUME NEW a \in Apps, NEW e \in Enclosures, Offer(a, e) PROVE TargetInv'
  BY <1>4 DEF Offer
<1>5. ASSUME NEW a \in Apps, Resume(a) PROVE TargetInv'
  BY <1>5 DEF Resume
<1>6. ASSUME NEW a \in Apps,
             NameTaken(a) \/ NameFree(a) \/ Open(a) \/ TransferEnds(a) \/ Verified(a)
      PROVE TargetInv'
  BY <1>6 DEF NameTaken, NameFree, Open, TransferEnds, Verified, handleVars
<1>7. ASSUME NEW c \in children, Exec(c) \/ ExecFails(c) PROVE TargetInv'
  BY <1>7 DEF Exec, ExecFails, Becomes, handleVars, localVars
<1>8. ASSUME NEW n \in Names, OtherProgram(n) PROVE TargetInv'
  BY <1>8 DEF OtherProgram, handleVars, localVars
<1>9. CASE UNCHANGED vars
  BY <1>9 DEF vars, handleVars, localVars
<1>10. QED
  BY <1>2, <1>3, <1>4, <1>5, <1>6, <1>7, <1>8, <1>9 DEF Next, Application

(* A url that means something only next to another one is downloaded as    *)
(* the schema has it ("relative to the URL where this JSON document is     *)
(* located") in the cases of MergesRight and in no other, whatever the     *)
(* urls: as long as the application keeps its url, RelativeToDocument      *)
(* fails of all the others.                                                *)
THEOREM DownloadsFromWhereMergedRight == Spec => []RelativeWhereRight
<1>1. ASSUME TargetInv PROVE RelativeWhereRight
  <2>1. SUFFICES ASSUME NEW a \in Apps,
                        pc[a] \in {"search", "open", "transfer"}, url[a] = docUrl[a]
                 PROVE  target[a] = RelativeTo(docUrl[a], enclosure[a])
                          <=> MergesRight(docUrl[a], enclosure[a])
    BY DEF RelativeWhereRight
  <2>2. docUrl[a] \in Urls /\ enclosure[a] \in Enclosures
    BY <1>1, <2>1 DEF TargetInv, HandleTypes
  <2>3. /\ docUrl[a] \in AbsoluteUrls /\ Len(docUrl[a].segs) > 0
        /\ enclosure[a] \in AbsoluteUrls \cup RelativeUrls
    BY <2>2, InstallerAssumption
  <2>4. target[a] = ResolvedUrl(docUrl[a], enclosure[a]) /\ target[a] # NULL
    BY <1>1, <2>1 DEF TargetInv
  <2>5. QED BY <2>3, <2>4, MergedExactly
<1>2. QED BY <1>1, TargetInit, TargetStep, PTL DEF Spec

-----------------------------------------------------------------------------
(* The arguments                                                           *)

(* The lists are linked as ArgListProofs.tla has it.                       *)
ArgsInv == args \in [Apps -> ArgLists] /\ \A a \in Apps : Linked(args[a])

LEMMA ArgsInit == Init => ArgsInv
BY HandleTypesInit, EmptyIsLinked DEF Init, HandleTypes, ArgsInv

LEMMA ArgsStep == HandleTypes /\ ArgsInv /\ [Next]_vars => ArgsInv'
<1> SUFFICES ASSUME HandleTypes, ArgsInv, [Next]_vars PROVE ArgsInv'
  OBVIOUS
<1>1. args' \in [Apps -> ArgLists]
  BY HandleTypesStep DEF HandleTypes
<1>2. ASSUME UNCHANGED args PROVE ArgsInv'
  BY <1>2 DEF ArgsInv
<1>3. ASSUME NEW a \in Apps, AddInstallerArg(a) PROVE ArgsInv'
  <2>1. Linked(WithArg(args[a]))
    BY WithArgLinked DEF ArgsInv, ArgLists
  <2>2. QED BY <1>1, <1>3, <2>1 DEF ArgsInv, AddInstallerArg
<1>4. ASSUME NEW a \in Apps, NEW from, Returns(a, from) PROVE ArgsInv'
  BY <1>1, <1>4, EmptyIsLinked DEF ArgsInv, Returns
<1>5. ASSUME NEW a \in Apps,
             MergeFails(a) \/ NoPath(a) \/ SearchFails(a) \/ OpenFails(a)
               \/ TransferFails(a) \/ Rejected(a) \/ ForkFails(a) \/ Fork(a)
               \/ CreateProcess(a)
      PROVE ArgsInv'
  BY <1>4, <1>5 DEF MergeFails, NoPath, SearchFails, OpenFails, TransferFails,
     Rejected, ForkFails, Fork, CreateProcess
<1>6. ASSUME NEW a \in Apps,
             (\E u \in Urls : SetUrl(a, u)) \/ (\E e \in Enclosures : Offer(a, e))
               \/ Resume(a) \/ NameTaken(a) \/ NameFree(a) \/ Open(a)
               \/ TransferEnds(a) \/ Verified(a)
      PROVE ArgsInv'
  BY <1>2, <1>6 DEF SetUrl, Offer, Resume, NameTaken, NameFree, Open,
     TransferEnds, Verified, handleVars
<1>7. ASSUME NEW c \in children, Exec(c) \/ ExecFails(c) PROVE ArgsInv'
  BY <1>2, <1>7 DEF Exec, ExecFails, Becomes, handleVars
<1>8. ASSUME NEW n \in Names, OtherProgram(n) PROVE ArgsInv'
  BY <1>2, <1>8 DEF OtherProgram, handleVars
<1>9. CASE UNCHANGED vars
  BY <1>2, <1>9 DEF vars, handleVars
<1>10. QED
  BY <1>3, <1>5, <1>6, <1>7, <1>8, <1>9 DEF Next, Application

(* However many arguments a handle is given, the installer gets each of    *)
(* them once and in the order of addition.                                 *)
THEOREM ArgumentsStayInOrder == Spec => []ArgsInOrder
<1>1. ArgsInv => ArgsInOrder
  BY WalkInOrder DEF ArgsInv, ArgsInOrder
<1>2. QED
  BY <1>1, ArgsInit, ArgsStep, HandleTypesInit, HandleTypesStep, PTL DEF Spec

-----------------------------------------------------------------------------
(* The search for a name                                                   *)

(* Names that have been passed over are taken, and stay so.                *)
Searched == \A a \in Apps, n \in Names : n < try[a] => FileExists(n)

LEMMA SearchedStep == DiskTypes /\ Searched /\ [Next]_vars => Searched'
<1> SUFFICES ASSUME DiskTypes, Searched, [Next]_vars PROVE Searched'
  OBVIOUS
<1>1. ASSUME \A n \in Names : FileExists(n) => FileExists(n)',
             \A a \in Apps : try'[a] \in {0, try[a]}
      PROVE  Searched'
  <2>1. SUFFICES ASSUME NEW a \in Apps, NEW n \in Names, n < try'[a]
                 PROVE  FileExists(n)'
    BY DEF Searched
  <2>2. n < try[a]
    BY <1>1, <2>1 DEF Names
  <2>3. QED BY <1>1, <2>2 DEF Searched
<1>2. ASSUME UNCHANGED files PROVE \A n \in Names : FileExists(n) => FileExists(n)'
  BY <1>2 DEF FileExists
<1>3. ASSUME UNCHANGED try PROVE \A a \in Apps : try'[a] \in {0, try[a]}
  BY <1>3
<1>4. ASSUME NEW a \in Apps, NEW from, Returns(a, from) PROVE Searched'
  <2>1. UNCHANGED files /\ try' = [try EXCEPT ![a] = 0]
    BY <1>4 DEF Returns, diskVars
  <2>2. \A b \in Apps : try'[b] \in {0, try[b]}
    BY <2>1 DEF DiskTypes
  <2>3. QED BY <1>1, <1>2, <2>1, <2>2
<1>5. ASSUME NEW a \in Apps,
             MergeFails(a) \/ NoPath(a) \/ SearchFails(a) \/ OpenFails(a)
               \/ TransferFails(a) \/ Rejected(a) \/ ForkFails(a) \/ Fork(a)
               \/ CreateProcess(a)
      PROVE Searched'
  BY <1>4, <1>5 DEF MergeFails, NoPath, SearchFails, OpenFails, TransferFails,
     Rejected, ForkFails, Fork, CreateProcess
<1>6. ASSUME NEW a \in Apps, NameTaken(a) PROVE Searched'
  <2>1. UNCHANGED files /\ FileExists(try[a]) /\ try' = [try EXCEPT ![a] = try[a] + 1]
    BY <1>6 DEF NameTaken, diskVars
  <2>2. SUFFICES ASSUME NEW b \in Apps, NEW n \in Names, n < try'[b]
                 PROVE  FileExists(n)
    BY <1>2, <2>1 DEF Searched
  <2>3. n < try[b] \/ (b = a /\ n = try[a])
    BY <2>1, <2>2 DEF DiskTypes, Names
  <2>4. QED BY <2>1, <2>3 DEF Searched
<1>7. ASSUME NEW a \in Apps,
             (\E u \in Urls : SetUrl(a, u)) \/ AddInstallerArg(a)
               \/ (\E e \in Enclosures : Offer(a, e)) \/ Resume(a) \/ NameFree(a)
               \/ Verified(a)
      PROVE Searched'
  <2>1. UNCHANGED <<files, try>>
    BY <1>7 DEF SetUrl, AddInstallerArg, Offer, Resume, NameFree, Verified,
       localVars, diskVars
  <2>2. QED BY <1>1, <1>2, <1>3, <2>1
<1>8. ASSUME NEW a \in Apps, Open(a) PROVE Searched'
  <2>1. path[a] \in Names
    BY <1>8 DEF Open, Goes, DiskTypes, HoldsFile
  <2>2. files' = [files EXCEPT ![path[a]] = "partial"] /\ UNCHANGED try
    BY <1>8 DEF Open
  <2>3. \A m \in Names : FileExists(m) => FileExists(m)'
    BY <2>1, <2>2 DEF FileExists, DiskTypes
  <2>4. QED BY <1>1, <1>3, <2>2, <2>3
<1>9. ASSUME NEW a \in Apps, TransferEnds(a) PROVE Searched'
  <2>1. path[a] \in Names
    BY <1>9 DEF TransferEnds, Goes, DiskTypes, HoldsFile
  <2>2. PICK what \in {"whole", "short"} :
          /\ files' = [files EXCEPT ![path[a]] =
                         IF writer[path[a]] = a THEN what ELSE files[path[a]]]
          /\ UNCHANGED try
    BY <1>9 DEF TransferEnds
  <2>3. \A m \in Names : FileExists(m) => FileExists(m)'
    BY <2>1, <2>2 DEF FileExists, DiskTypes
  <2>4. QED BY <1>1, <1>3, <2>2, <2>3
<1>10. ASSUME NEW c \in children, Exec(c) \/ ExecFails(c) PROVE Searched'
  <2>1. UNCHANGED <<files, try>>
    BY <1>10, ChildStep DEF localVars, diskVars
  <2>2. QED BY <1>1, <1>2, <1>3, <2>1
<1>11. ASSUME NEW n \in Names, OtherProgram(n) PROVE Searched'
  <2>1. /\ files[n] = "none" /\ UNCHANGED try
        /\ \A m \in Names \ {n} : files'[m] = files[m]
    BY <1>11 DEF OtherProgram, localVars, DiskTypes
  <2>2. \A m \in Names : FileExists(m) => FileExists(m)'
    BY <2>1 DEF FileExists
  <2>3. QED BY <1>1, <1>3, <2>1, <2>2
<1>12. CASE UNCHANGED vars
  <2>1. UNCHANGED <<files, try>>
    BY <1>12 DEF vars, localVars, diskVars
  <2>2. QED BY <1>1, <1>2, <1>3, <2>1
<1>13. QED
  BY <1>5, <1>6, <1>7, <1>8, <1>9, <1>10, <1>11, <1>12 DEF Next, Application

(* The search gives up only when every name is that of a file.             *)
THEOREM SearchIsExhaustive == Spec => GivesUpOnlyWhenFull
<1> DEFINE Full == \A n \in Names : FileExists(n)
<1>1. Init => Searched
  BY InstallerAssumption DEF Init, Searched, Names
<1>2. DiskTypes /\ Searched => [\A a \in Apps : SearchFails(a) => Full]_vars
  <2>1. SUFFICES ASSUME Searched, NEW a \in Apps, SearchFails(a) PROVE Full
    OBVIOUS
  <2>2. try[a] = Tries
    BY <2>1 DEF SearchFails
  <2>3. \A n \in Names : n < try[a]
    BY <2>2, InstallerAssumption DEF Names
  <2>4. QED BY <2>1, <2>3 DEF Searched
<1>3. QED
  BY <1>1, <1>2, DiskTypesInit, DiskTypesStep, SearchedStep, PTL
     DEF Spec, GivesUpOnlyWhenFull

-----------------------------------------------------------------------------
(* The contract of one update                                              *)

(* A child belongs to an update that is over for the application.          *)
ChildrenOver ==
  \A c \in children :
    \/ c.update < updates[c.parent]
    \/ c.update = updates[c.parent] /\ pc[c.parent] = "app"

StageInv == DiskTypes /\ ChildrenOver

ChildOf(a, u) == \E c \in children : c.parent = a /\ c.update = u

LEMMA StageInit ==
  ASSUME Init, NEW a \in Apps, NEW u \in 1 .. MaxUpdates
  PROVE  StageInv /\ Contract(a, u)!Init
<1>1. updates[a] = 0 /\ children = {}
  BY DEF Init
<1>2. Stage(a, u) = "waiting" /\ ~(updates[a] >= u)
  BY <1>1 DEF Stage
<1>3. StageInv
  BY <1>1, DiskTypesInit DEF StageInv, ChildrenOver
<1>4. QED BY <1>2, <1>3 DEF Contract!Init

Same(a, u) == UNCHANGED Contract(a, u)!contractVars

LEMMA SameStage ==
  ASSUME NEW a, NEW u, UNCHANGED <<Stage(a, u), updates[a] >= u>> PROVE Same(a, u)
BY DEF Same, Contract!contractVars

(* The stage of an update by the place its application is at.              *)
LEMMA StageAt ==
  ASSUME StageInv, NEW a \in Apps
  PROVE  /\ pc[a] = "offered" => Stage(a, updates[a]) = "offered"
         /\ pc[a] \in {"search", "open", "transfer", "downloaded"}
              => Stage(a, updates[a]) = "agreed"
         /\ pc[a] = "launch" => Stage(a, updates[a]) = "cleared"
         /\ pc[a] = "app" /\ ~ChildOf(a, updates[a]) => Stage(a, updates[a]) = "over"
         /\ pc[a] = "app" /\ ChildOf(a, updates[a]) => Stage(a, updates[a]) = "started"
<1>1. updates[a] \in Nat /\ pc[a] \in Places
  BY InstallerAssumption DEF StageInv, DiskTypes
<1>2. ~(updates[a] < updates[a])
  BY <1>1
<1>3. QED BY <1>1, <1>2 DEF Stage, ChildOf, Places

LEMMA NoChildYet ==
  ASSUME StageInv, NEW a \in Apps, pc[a] # "app" PROVE ~ChildOf(a, updates[a])
<1>1. updates[a] \in Nat
  BY InstallerAssumption DEF StageInv, DiskTypes
<1>2. ~(updates[a] < updates[a])
  BY <1>1
<1>3. QED BY <1>2 DEF StageInv, ChildrenOver, ChildOf

(* What does not concern an update leaves its stage alone.                 *)
LEMMA StageFrame ==
  ASSUME NEW a, NEW u, updates'[a] = updates[a], ChildOf(a, u)' <=> ChildOf(a, u),
         updates[a] = u => pc'[a] = pc[a]
  PROVE  Same(a, u)
<1>1. Stage(a, u)' = Stage(a, u)
  <2>1. CASE updates[a] = u
    BY <2>1 DEF Stage, ChildOf
  <2>2. CASE updates[a] # u
    BY <2>2 DEF Stage, ChildOf
  <2>3. QED BY <2>1, <2>2
<1>2. QED BY <1>1, SameStage

Step(a, u) == Same(a, u) \/ Contract(a, u)!Next

AllSteps == \A a \in Apps, u \in 1 .. MaxUpdates : Step(a, u)

(* An application moves on with its update, and no child is born.          *)
LEMMA MovesOn ==
  ASSUME StageInv, DiskTypes', NEW a \in Apps, NEW to \in Places,
         pc[a] # "app", to # "offered", pc' = [pc EXCEPT ![a] = to],
         pc[a] = "offered" => to \in {"search", "app"},
         pc[a] \in {"search", "open", "transfer"} => to # "launch",
         pc[a] = "launch" => to = "app",
         UNCHANGED <<updates, children>>
  PROVE  StageInv' /\ AllSteps
<1>0. PICK v \in 0 .. MaxUpdates : v = updates[a]
  BY DEF StageInv, DiskTypes
<1>1. StageInv'
  BY DEF StageInv, ChildrenOver, DiskTypes, Children
<1>2. pc'[a] = to /\ updates[a] = v /\ updates'[a] = v /\ v \in Nat
  BY <1>0, InstallerAssumption DEF StageInv, DiskTypes
<1>3. ~ChildOf(a, v) /\ ~ChildOf(a, v)'
  BY <1>2, NoChildYet DEF ChildOf
<1>4. Step(a, v)
  <2> DEFINE old == Stage(a, v)
             new == Stage(a, v)'
  <2>1. /\ to \in {"search", "open", "transfer", "downloaded"} => new = "agreed"
        /\ to = "launch" => new = "cleared"
        /\ to = "app" => new = "over"
    BY <1>2, <1>3 DEF Stage, ChildOf
  <2>2. /\ pc[a] = "offered" => old = "offered"
        /\ pc[a] \in {"search", "open", "transfer", "downloaded"} => old = "agreed"
        /\ pc[a] = "launch" => old = "cleared"
    BY <1>2, StageAt
  <2>3. updates[a] >= v /\ updates'[a] >= v
    BY <1>2
  <2>4. \/ new = old
        \/ old \in {"offered", "agreed", "cleared"} /\ new = "over"
        \/ old = "offered" /\ new = "agreed"
        \/ old = "agreed" /\ new = "cleared"
    <3>1. pc[a] \in Places
      BY DEF StageInv, DiskTypes
    <3>2. QED BY <2>1, <2>2, <3>1 DEF Places
  <2>5. CASE new = old
    BY <2>3, <2>5, SameStage DEF Step
  <2>6. CASE old \in {"offered", "agreed", "cleared"} /\ new = "over"
    BY <2>3, <2>6 DEF Step, Contract!Next, Contract!GiveUp
  <2>7. CASE old = "offered" /\ new = "agreed"
    BY <2>3, <2>7 DEF Step, Contract!Next, Contract!Agree
  <2>8. CASE old = "agreed" /\ new = "cleared"
    BY <2>3, <2>8 DEF Step, Contract!Next, Contract!Clear
  <2>9. QED BY <2>4, <2>5, <2>6, <2>7, <2>8
<1>5. ASSUME NEW b \in Apps, NEW u \in 1 .. MaxUpdates, b # a \/ u # v PROVE Step(b, u)
  <2>1. updates[b] = u => pc'[b] = pc[b]
    BY <1>2, <1>5 DEF StageInv, DiskTypes
  <2>2. ChildOf(b, u)' <=> ChildOf(b, u)
    BY DEF ChildOf
  <2>3. QED BY <2>1, <2>2, StageFrame DEF Step
<1>6. AllSteps
  <2>1. ASSUME NEW b \in Apps, NEW u \in 1 .. MaxUpdates PROVE Step(b, u)
    <3>1. CASE b = a /\ u = v
      BY <3>1, <1>4
    <3>2. CASE b # a \/ u # v
      BY <3>2, <1>5
    <3>3. QED BY <3>1, <3>2
  <2>2. QED BY <2>1 DEF AllSteps
<1>7. QED BY <1>1, <1>6

(* A new version is offered: its update begins, and those before are over. *)
LEMMA OfferStage ==
  ASSUME StageInv, DiskTypes', NEW a \in Apps, NEW e \in Enclosures, Offer(a, e)
  PROVE  StageInv' /\ AllSteps
<1>1. PICK v \in 0 .. MaxUpdates : v = updates[a]
  BY DEF StageInv, DiskTypes
<1>2. v \in Nat /\ MaxUpdates \in Nat
  BY InstallerAssumption
<1>3. /\ updates \in [Apps -> 0 .. MaxUpdates] /\ pc \in [Apps -> Places]
      /\ children \subseteq Children /\ ChildrenOver
  BY DEF StageInv, DiskTypes
<1>4. /\ updates' = [updates EXCEPT ![a] = v + 1] /\ pc' = [pc EXCEPT ![a] = "offered"]
      /\ pc[a] = "app" /\ children' = children
  BY <1>1 DEF Offer
<1>5. updates[a] = v /\ updates'[a] = v + 1 /\ pc'[a] = "offered"
  BY <1>1, <1>3, <1>4
<1>6. \A b \in Apps : b # a => updates'[b] = updates[b] /\ pc'[b] = pc[b]
  BY <1>3, <1>4
<1>7. ChildrenOver'
  <2>1. ASSUME NEW c \in children
        PROVE  c.update < updates'[c.parent]
                 \/ (c.update = updates'[c.parent] /\ pc'[c.parent] = "app")
    <3>1. c.parent \in Apps /\ c.update \in Nat
      BY <1>2, <1>3 DEF Children
    <3>2. \/ c.update < updates[c.parent]
          \/ c.update = updates[c.parent] /\ pc[c.parent] = "app"
      BY <1>3 DEF ChildrenOver
    <3>3. QED BY <1>2, <1>5, <1>6, <3>1, <3>2
  <2>2. QED BY <1>4, <2>1 DEF ChildrenOver
<1>8. ASSUME NEW u \in 1 .. MaxUpdates PROVE Step(a, u)
  <2>1. u \in Nat
    BY <1>2
  <2>2. CASE u = v + 1
    <3>1. Stage(a, u) = "waiting" /\ Stage(a, u)' = "offered" /\ (updates'[a] >= u) \in BOOLEAN
      BY <1>2, <1>5, <2>2 DEF Stage
    <3>2. QED BY <3>1 DEF Step, Contract!Next, Contract!Offer
  <2>3. CASE u # v + 1
    <3>1. (updates'[a] < u) = (updates[a] < u) /\ (updates'[a] >= u) = (updates[a] >= u)
      BY <1>2, <1>5, <2>1, <2>3
    <3>2. updates'[a] # u /\ (updates[a] = u => pc[a] = "app")
      BY <1>4, <1>5, <2>3
    <3>3. Stage(a, u)' = Stage(a, u)
      BY <1>4, <3>1, <3>2 DEF Stage
    <3>4. QED BY <3>1, <3>3, SameStage DEF Step
  <2>4. QED BY <2>2, <2>3
<1>9. ASSUME NEW b \in Apps, NEW u \in 1 .. MaxUpdates, b # a PROVE Step(b, u)
  BY <1>4, <1>6, <1>9, StageFrame DEF Step, ChildOf
<1>10. AllSteps
  BY <1>8, <1>9 DEF AllSteps
<1>11. QED BY <1>7, <1>10 DEF StageInv

(* The installer of a cleared update starts: its first child is born.      *)
LEMMA StartStage ==
  ASSUME StageInv, DiskTypes', NEW a \in Apps, NEW d \in Children,
         d.parent = a, d.update = updates[a], children' = children \cup {d},
         pc[a] = "launch", pc' = [pc EXCEPT ![a] = "app"], UNCHANGED updates
  PROVE  StageInv' /\ AllSteps
<1>1. PICK v \in 0 .. MaxUpdates : v = updates[a]
  BY DEF StageInv, DiskTypes
<1>2. v \in Nat /\ updates[a] = v /\ updates'[a] = v
  BY <1>1, InstallerAssumption
<1>3. pc \in [Apps -> Places] /\ ChildrenOver
  BY DEF StageInv, DiskTypes
<1>4. pc'[a] = "app" /\ \A b \in Apps : b # a => pc'[b] = pc[b]
  BY <1>3
<1>5. ChildrenOver'
  <2>1. ASSUME NEW c \in children
        PROVE  c.update < updates'[c.parent]
                 \/ (c.update = updates'[c.parent] /\ pc'[c.parent] = "app")
    <3>1. c.parent \in Apps
      BY DEF StageInv, DiskTypes, Children
    <3>2. QED BY <1>3, <1>4, <3>1 DEF ChildrenOver
  <2>2. QED BY <1>4, <2>1 DEF ChildrenOver
<1>6. Step(a, v)
  <2>1. Stage(a, v) = "cleared"
    BY <1>2, StageAt
  <2>2. ChildOf(a, v)'
    BY <1>2 DEF ChildOf
  <2>3. Stage(a, v)' = "started"
    BY <1>2, <1>4, <2>2 DEF Stage, ChildOf
  <2>4. updates'[a] >= v /\ updates[a] >= v
    BY <1>2
  <2>5. QED BY <2>1, <2>3, <2>4 DEF Step, Contract!Next, Contract!Start
<1>7. ASSUME NEW b \in Apps, NEW u \in 1 .. MaxUpdates, b # a \/ u # v PROVE Step(b, u)
  <2>1. updates[b] = u => pc'[b] = pc[b]
    BY <1>2, <1>4, <1>7
  <2>2. ChildOf(b, u)' <=> ChildOf(b, u)
    BY <1>2, <1>7 DEF ChildOf
  <2>3. QED BY <2>1, <2>2, StageFrame DEF Step
<1>8. AllSteps
  <2>1. ASSUME NEW b \in Apps, NEW u \in 1 .. MaxUpdates PROVE Step(b, u)
    <3>1. CASE b = a /\ u = v
      BY <3>1, <1>6
    <3>2. CASE b # a \/ u # v
      BY <3>2, <1>7
    <3>3. QED BY <3>1, <3>2
  <2>2. QED BY <2>1 DEF AllSteps
<1>9. QED BY <1>5, <1>8 DEF StageInv

(* What a child becomes does not concern the update it was forked for.     *)
LEMMA ChildStage ==
  ASSUME StageInv, DiskTypes', NEW c \in children, Exec(c) \/ ExecFails(c)
  PROVE  StageInv' /\ AllSteps
<1>1. PICK d \in Children :
        /\ children' = (children \ {c}) \cup {d}
        /\ d.parent = c.parent /\ d.update = c.update
  BY ChildStep DEF StageInv
<1>2. pc' = pc /\ updates' = updates
  BY ChildStep DEF StageInv, localVars
<1>3. ChildrenOver'
  BY <1>1, <1>2 DEF StageInv, ChildrenOver
<1>4. ASSUME NEW b \in Apps, NEW u \in 1 .. MaxUpdates PROVE Step(b, u)
  <2>1. ChildOf(b, u)' <=> ChildOf(b, u)
    BY <1>1 DEF ChildOf
  <2>2. QED BY <1>2, <2>1, StageFrame DEF Step
<1>5. QED BY <1>3, <1>4 DEF StageInv, AllSteps

LEMMA QuietStage ==
  ASSUME StageInv, DiskTypes', UNCHANGED <<pc, updates, children>>
  PROVE  StageInv' /\ AllSteps
<1>1. ChildrenOver'
  BY DEF StageInv, ChildrenOver
<1>2. ASSUME NEW b \in Apps, NEW u \in 1 .. MaxUpdates PROVE Step(b, u)
  BY StageFrame DEF Step, ChildOf
<1>3. QED BY <1>1, <1>2 DEF StageInv, AllSteps

LEMMA StageStep == StageInv /\ [Next]_vars => StageInv' /\ AllSteps
<1> SUFFICES ASSUME StageInv, [Next]_vars PROVE StageInv' /\ AllSteps
  OBVIOUS
<1>1. DiskTypes'
  BY DiskTypesStep DEF StageInv
<1>2. ASSUME NEW a \in Apps, NEW u \in Urls, SetUrl(a, u) PROVE StageInv' /\ AllSteps
  BY <1>1, <1>2, QuietStage DEF SetUrl, localVars
<1>3. ASSUME NEW a \in Apps, AddInstallerArg(a) PROVE StageInv' /\ AllSteps
  BY <1>1, <1>3, QuietStage DEF AddInstallerArg, localVars
<1>4. ASSUME NEW a \in Apps, NEW e \in Enclosures, Offer(a, e) PROVE StageInv' /\ AllSteps
  BY <1>1, <1>4, OfferStage
<1>5. ASSUME NEW a \in Apps, NEW from, from # "app", Returns(a, from), UNCHANGED children
      PROVE  StageInv' /\ AllSteps
  <2>1. /\ pc[a] = from /\ pc' = [pc EXCEPT ![a] = "app"]
        /\ UNCHANGED <<updates, children>>
    BY <1>5 DEF Returns, Goes
  <2>2. pc[a] # "app" /\ "app" \in Places
    BY <1>5, <2>1 DEF Places
  <2>3. QED BY <1>1, <2>1, <2>2, MovesOn
<1>6. ASSUME NEW a \in Apps,
             MergeFails(a) \/ NoPath(a) \/ SearchFails(a) \/ OpenFails(a)
               \/ TransferFails(a) \/ Rejected(a) \/ ForkFails(a)
      PROVE  StageInv' /\ AllSteps
  BY <1>5, <1>6 DEF MergeFails, NoPath, SearchFails, OpenFails, TransferFails,
     Rejected, ForkFails
<1>7. ASSUME NEW a \in Apps,
             Resume(a) \/ NameTaken(a) \/ NameFree(a) \/ Open(a) \/ TransferEnds(a)
               \/ Verified(a)
      PROVE  StageInv' /\ AllSteps
  <2>1. PICK to \in Places :
          /\ pc[a] # "app" /\ to # "offered" /\ pc' = [pc EXCEPT ![a] = to]
          /\ pc[a] = "offered" => to \in {"search", "app"}
          /\ pc[a] \in {"search", "open", "transfer"} => to # "launch"
          /\ pc[a] = "launch" => to = "app"
          /\ UNCHANGED <<updates, children>>
    BY <1>7 DEF Resume, NameTaken, NameFree, Open, TransferEnds, Verified, Goes,
       Places, diskVars
  <2>2. QED BY <1>1, <2>1, MovesOn
<1>8. ASSUME NEW a \in Apps, Fork(a) \/ CreateProcess(a) PROVE StageInv' /\ AllSteps
  <2>1. PICK state, file : children' = children \cup {Child(a, state, file)}
    BY <1>8 DEF Fork, CreateProcess
  <2>2. Child(a, state, file).parent = a /\ Child(a, state, file).update = updates[a]
    BY DEF Child
  <2>3. Child(a, state, file) \in Children
    BY <1>1, <2>1 DEF DiskTypes
  <2>4. /\ pc[a] = "launch" /\ pc' = [pc EXCEPT ![a] = "app"] /\ UNCHANGED updates
    BY <1>8 DEF Fork, CreateProcess, Returns, Goes
  <2>5. QED BY <1>1, <2>1, <2>2, <2>3, <2>4, StartStage
<1>9. ASSUME NEW c \in children, Exec(c) \/ ExecFails(c) PROVE StageInv' /\ AllSteps
  BY <1>1, <1>9, ChildStage
<1>10. ASSUME NEW n \in Names, OtherProgram(n) PROVE StageInv' /\ AllSteps
  BY <1>1, <1>10, QuietStage DEF OtherProgram, localVars
<1>11. CASE UNCHANGED vars
  BY <1>1, <1>11, QuietStage DEF vars, localVars
<1>12. QED
  BY <1>2, <1>3, <1>4, <1>6, <1>7, <1>8, <1>9, <1>10, <1>11 DEF Next, Application

(* Every update of every application, whatever the others do meanwhile, is *)
(* one that UpdateContract.tla allows.                                     *)
THEOREM InstallerImplementsContract == Spec => ImplementsContract
<1>1. Init => StageInv /\ \A a \in Apps, u \in 1 .. MaxUpdates : Contract(a, u)!Init
  <2>1. Init => DiskTypes /\ ChildrenOver
    BY DiskTypesInit DEF Init, ChildrenOver
  <2>2. QED BY <2>1, StageInit DEF StageInv
<1>2. AllSteps => \A a \in Apps, u \in 1 .. MaxUpdates :
                    UNCHANGED Contract(a, u)!contractVars \/ Contract(a, u)!Next
  BY DEF AllSteps, Step, Same
<1>3. QED BY <1>1, <1>2, StageStep, PTL DEF Spec, ImplementsContract
=============================================================================

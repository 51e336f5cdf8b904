--------------------------- MODULE SxupdateProofs ---------------------------
(***************************************************************************)
(* Proofs about Sxupdate.tla, for any urls, keys, response codes and       *)
(* number of calls.                                                        *)
(***************************************************************************)
EXTENDS Sxupdate, TLAPS

-----------------------------------------------------------------------------
(* The actions, by the part of the handle they change                      *)

(* Only the configuration changes.                                         *)
Configure ==
  \/ SetCallbacks \/ ClearUrl \/ AddHeader
  \/ \E u \in HttpsUrls \cup FileUrls : SetUrl(u) \/ SetUrlNoMemory(u)

(* Only the key changes.                                                   *)
SetKey == \E k \in Keys \cup {NULL} : SetPublicKey(k) \/ SetPublicKeyFromFile(k)

(* A fetch ends without an offer.                                          *)
FetchFails ==
  \/ CurlInitFails \/ NothingScanned \/ MetadataRejected
  \/ \E c \in Codes : MetadataTransferFails(c)

(* One step of sxupdate_resume, after the application has agreed.          *)
Resuming ==
  \/ DownloadImpossible \/ \E c \in Codes : DownloadFails(c)
  \/ Downloaded \/ NotExecutable \/ VerifyFails \/ VerifyPasses
  \/ ForkFails \/ Forked

LEMMA NextCases ==
  ASSUME Next
  PROVE  \/ Configure \/ SetKey
         \/ ExecuteNotReady \/ ExecuteRefused \/ ExecuteStarts \/ Connected
         \/ FetchFails \/ ReceiveMetadata \/ MetadataAccepted \/ HandlerReturns
         \/ (\E action \in Actions : Resume(action))
         \/ Resuming \/ Delete
BY DEF Next, Application, Library, Configure, SetKey, Resuming, FetchFails

LEMMA ConfigureChanges ==
  ASSUME Configure
  PROVE  InApplication /\ UNCHANGED <<keyVars, fetchVars, runVars, callVars>>
BY DEF Configure, SetCallbacks, ClearUrl, AddHeader, SetUrl, SetUrlNoMemory

LEMMA SetKeyChanges ==
  ASSUME SetKey
  PROVE  \E k \in Keys \cup {NULL} : HoldKey(k) /\ noPublicKey' \in BOOLEAN
BY DEF SetKey, SetPublicKey, SetPublicKeyFromFile

LEMMA FetchFailsChanges ==
  ASSUME FetchFails
  PROVE  /\ pc \in {"connect", "metadata"} /\ \E why \in {"memory", "error"} : ExecuteFails(why)
BY DEF FetchFails, CurlInitFails, NothingScanned, MetadataRejected, MetadataTransferFails

LEMMA ResumingChanges ==
  ASSUME Resuming
  PROVE  \/ /\ \E from \in {"download", "downloaded", "launch"} : ResumeStep(from, caller)
            /\ failed' = TRUE /\ UNCHANGED launched
         \/ ResumeStep("download", "downloaded") /\ UNCHANGED <<failed, launched>>
         \/ /\ ResumeStep("downloaded", "launch") /\ UNCHANGED <<failed, launched>>
            /\ VerifyPasses
         \/ /\ ResumeStep("launch", caller) /\ UNCHANGED failed
            /\ launched' = IF Checked THEN "checked" ELSE "unchecked"
BY DEF Resuming, ResumeFails, DownloadImpossible, DownloadFails, Downloaded,
   NotExecutable, VerifyFails, VerifyPasses, ForkFails, Forked

-----------------------------------------------------------------------------
(* The fetcher moves as its contract has it                                *)

LEMMA FeedStep == Next => Feed!Next \/ UNCHANGED fetchVars
<1> SUFFICES ASSUME Next PROVE Feed!Next \/ UNCHANGED fetchVars
  OBVIOUS
<1>1. CASE Configure
  BY <1>1, ConfigureChanges DEF fetchVars
<1>2. CASE SetKey
  BY <1>2, SetKeyChanges DEF HoldKey
<1>3. CASE ExecuteNotReady
  BY <1>3 DEF ExecuteNotReady
<1>4. CASE ExecuteRefused
  BY <1>4 DEF ExecuteRefused, Feed!Next
<1>5. CASE ExecuteStarts
  BY <1>5 DEF ExecuteStarts, Feed!Next
<1>6. CASE Connected
  BY <1>6 DEF Connected
<1>7. CASE FetchFails
  BY <1>7, FetchFailsChanges DEF ExecuteFails, Feed!Next
<1>8. CASE ReceiveMetadata
  BY <1>8 DEF ReceiveMetadata, Feed!Next
<1>9. CASE MetadataAccepted
  <2>1. (~noPublicKey) \in BOOLEAN
    OBVIOUS
  <2>2. QED BY <1>9, <2>1 DEF MetadataAccepted, Feed!Next
<1>10. CASE HandlerReturns
  BY <1>10 DEF HandlerReturns
<1>11. CASE \E action \in Actions : Resume(action)
  BY <1>11 DEF Resume
<1>12. CASE Resuming
  BY <1>12, ResumingChanges DEF ResumeStep
<1>13. CASE Delete
  BY <1>13 DEF Delete
<1>14. QED
  BY <1>1, <1>2, <1>3, <1>4, <1>5, <1>6, <1>7, <1>8, <1>9, <1>10, <1>11, <1>12,
     <1>13, NextCases

-----------------------------------------------------------------------------
(* Types                                                                   *)

ConfigTypes ==
  /\ callbacks \in BOOLEAN
  /\ url \in HttpsUrls \cup FileUrls \cup {NULL}
  /\ urlIsFile \in BOOLEAN /\ headers \in BOOLEAN

KeyMemory == [Keys -> {"fresh", "held", "freed", "twice"}]

KeyTypes ==
  /\ publicKey \in Keys \cup {NULL} /\ noPublicKey \in BOOLEAN
  /\ keyState \in KeyMemory /\ rekeyed \in BOOLEAN

RunTypes ==
  /\ step \in {"none", "upToDate", "newer"}
  /\ httpCode \in Codes /\ errMsg \in BOOLEAN
  /\ failure \in {"none", "unauthorized", "transfer", "unable", "rejected"}

PcTypes ==
  /\ pc \in {"app", "handler", "connect", "metadata", "download", "downloaded",
             "launch", "deleted"}
  /\ caller \in {"app", "handler"}

CallTypes ==
  /\ status \in {"none", "ok", "error", "memory"}
  /\ executes \in 0 .. MaxExecutes /\ handled \in BOOLEAN
  /\ owed \in Nat
  /\ launched \in {"no", "checked", "unchecked"}
  /\ failed \in BOOLEAN /\ optedOut \in BOOLEAN

Types == ConfigTypes /\ KeyTypes /\ RunTypes /\ PcTypes /\ CallTypes

LEMMA TypesInit == Init => Types
<1> SUFFICES ASSUME Init PROVE Types
  OBVIOUS
<1>1. ConfigTypes
  BY DEF Init, ConfigTypes
<1>2. KeyTypes
  BY DEF Init, KeyTypes, KeyMemory
<1>3. RunTypes
  BY SxupdateAssumption DEF Init, RunTypes
<1>4. CallTypes
  <2>1. 0 \in 0 .. MaxExecutes
    BY SxupdateAssumption
  <2>2. QED BY <2>1 DEF Init, CallTypes
<1>5. PcTypes
  BY DEF Init, PcTypes
<1>6. QED BY <1>1, <1>2, <1>3, <1>4, <1>5 DEF Types

LEMMA ConfigVarsChange == Next => Configure \/ UNCHANGED configVars
BY NextCases, SetKeyChanges, FetchFailsChanges, ResumingChanges
   DEF HoldKey, ExecuteNotReady, ExecuteRefused, ExecuteStarts, Connected,
   ExecuteFails, ReceiveMetadata, MetadataAccepted, HandlerReturns, Resume,
   ResumeStep, Delete

LEMMA ConfigTypesStep == ConfigTypes /\ Next => ConfigTypes'
<1> SUFFICES ASSUME ConfigTypes, Next PROVE ConfigTypes'
  OBVIOUS
<1>1. Configure \/ UNCHANGED configVars
  BY ConfigVarsChange
<1>2. CASE Configure
  <2>1. CASE SetCallbacks
    BY <2>1 DEF SetCallbacks, ConfigTypes
  <2>2. CASE ClearUrl
    BY <2>2 DEF ClearUrl, ConfigTypes
  <2>3. CASE AddHeader
    <3>1. headers' \in BOOLEAN
      BY <2>3 DEF AddHeader
    <3>2. callbacks' = callbacks /\ url' = url /\ urlIsFile' = urlIsFile
      BY <2>3 DEF AddHeader
    <3>3. /\ callbacks' \in BOOLEAN /\ url' \in HttpsUrls \cup FileUrls \cup {NULL}
          /\ urlIsFile' \in BOOLEAN
      BY <3>2 DEF ConfigTypes
    <3>4. QED BY <3>1, <3>3 DEF ConfigTypes
  <2>4. ASSUME NEW u \in HttpsUrls \cup FileUrls, SetUrl(u) PROVE ConfigTypes'
    BY <2>4 DEF SetUrl, ConfigTypes
  <2>5. ASSUME NEW u \in HttpsUrls \cup FileUrls, SetUrlNoMemory(u) PROVE ConfigTypes'
    BY <2>5 DEF SetUrlNoMemory, ConfigTypes
  <2>6. QED BY <1>2, <2>1, <2>2, <2>3, <2>4, <2>5 DEF Configure
<1>3. CASE UNCHANGED configVars
  BY <1>3 DEF configVars, ConfigTypes
<1>4. QED BY <1>1, <1>2, <1>3

LEMMA FreedType == KeyTypes => Freed \in KeyMemory
BY DEF KeyTypes, KeyMemory, Freed

(* What every step but these leaves alone.                                 *)
LEMMA KeyVarsChange ==
  ASSUME Next
  PROVE  SetKey \/ MetadataAccepted \/ Delete \/ UNCHANGED keyVars
BY NextCases, ConfigureChanges, FetchFailsChanges, ResumingChanges
   DEF ExecuteNotReady, ExecuteRefused, ExecuteStarts, Connected, ExecuteFails,
   ReceiveMetadata, HandlerReturns, Resume, ResumeStep

LEMMA KeyTypesStep == KeyTypes /\ Next => KeyTypes'
<1> SUFFICES ASSUME KeyTypes, Next PROVE KeyTypes'
  OBVIOUS
<1>1. CASE SetKey
  <2>1. PICK k \in Keys \cup {NULL} : HoldKey(k) /\ noPublicKey' \in BOOLEAN
    BY <1>1, SetKeyChanges
  <2>2. keyState' \in KeyMemory
    BY <2>1, FreedType DEF HoldKey, KeyMemory
  <2>3. QED BY <2>1, <2>2 DEF HoldKey, KeyTypes
<1>2. CASE MetadataAccepted
  BY <1>2 DEF MetadataAccepted, KeyTypes
<1>3. CASE Delete
  BY <1>3, FreedType DEF Delete, KeyTypes
<1>4. CASE UNCHANGED keyVars
  BY <1>4 DEF keyVars, KeyTypes
<1>5. QED BY <1>1, <1>2, <1>3, <1>4, KeyVarsChange

LEMMA AnswerIsACode == \A c \in Codes : Answer(c) \in Codes
BY SxupdateAssumption DEF Answer

LEMMA RunTypesStep == RunTypes /\ Next => RunTypes'
<1> SUFFICES ASSUME RunTypes, Next PROVE RunTypes'
  OBVIOUS
<1> USE SxupdateAssumption DEF RunTypes
<1>1. CASE Configure \/ SetKey
  BY <1>1, ConfigureChanges, SetKeyChanges DEF HoldKey, runVars
<1>2. CASE ExecuteNotReady \/ ExecuteRefused \/ ExecuteStarts \/ Connected
  BY <1>2 DEF ExecuteNotReady, ExecuteRefused, ExecuteStarts, Connected, runVars
<1>3. CASE CurlInitFails
  BY <1>3 DEF CurlInitFails, ExecuteFails
<1>4. ASSUME NEW c \in Codes, MetadataTransferFails(c) PROVE RunTypes'
  BY <1>4, AnswerIsACode DEF MetadataTransferFails, ExecuteFails
<1>5. CASE NothingScanned
  BY <1>5 DEF NothingScanned, ExecuteFails
<1>6. CASE MetadataRejected
  BY <1>6 DEF MetadataRejected, ExecuteFails
<1>7. CASE ReceiveMetadata \/ HandlerReturns \/ Delete
  BY <1>7 DEF ReceiveMetadata, HandlerReturns, Delete, runVars
<1>8. CASE MetadataAccepted
  BY <1>8 DEF MetadataAccepted
<1>9. CASE \E action \in Actions : Resume(action)
  BY <1>9 DEF Resume, runVars
<1>10. CASE Resuming
  <2>1. httpCode' \in Codes
    BY <1>10 DEF Resuming, DownloadImpossible, DownloadFails, Downloaded,
       NotExecutable, VerifyFails, VerifyPasses, ForkFails, Forked, ResumeFails
  <2>2. UNCHANGED <<step, errMsg, failure>>
    BY <1>10, ResumingChanges DEF ResumeStep
  <2>3. QED BY <2>1, <2>2
<1>11. QED
  BY <1>1, <1>2, <1>3, <1>4, <1>5, <1>6, <1>7, <1>8, <1>9, <1>10, NextCases
     DEF FetchFails

LEMMA PcTypesStep == PcTypes /\ Next => PcTypes'
<1> SUFFICES ASSUME PcTypes, Next PROVE PcTypes'
  OBVIOUS
<1> USE DEF PcTypes
<1>1. CASE Configure \/ SetKey
  BY <1>1, ConfigureChanges, SetKeyChanges DEF HoldKey, callVars
<1>2. CASE ExecuteNotReady \/ ExecuteRefused \/ ExecuteStarts
  BY <1>2 DEF ExecuteNotReady, ExecuteRefused, ExecuteStarts, Execute, InApplication
<1>3. CASE Connected \/ ReceiveMetadata
  BY <1>3 DEF Connected, ReceiveMetadata, callVars
<1>4. CASE FetchFails
  BY <1>4, FetchFailsChanges DEF ExecuteFails
<1>5. CASE MetadataAccepted \/ HandlerReturns \/ Delete
  BY <1>5 DEF MetadataAccepted, HandlerReturns, Delete
<1>6. CASE \E action \in Actions : Resume(action)
  BY <1>6 DEF Resume, InApplication
<1>7. CASE Resuming
  BY <1>7, ResumingChanges DEF ResumeStep
<1>8. QED
  BY <1>1, <1>2, <1>3, <1>4, <1>5, <1>6, <1>7, NextCases

LEMMA CallTypesStep == KeyTypes /\ CallTypes /\ Next => CallTypes'
<1> SUFFICES ASSUME KeyTypes, CallTypes, Next PROVE CallTypes'
  OBVIOUS
<1> USE DEF CallTypes
<1>1. CASE Configure \/ SetKey
  BY <1>1, ConfigureChanges, SetKeyChanges DEF HoldKey, callVars
<1>2. CASE ReceiveMetadata
  BY <1>2 DEF ReceiveMetadata, callVars
<1>3. ASSUME Execute PROVE executes' \in 0 .. MaxExecutes /\ handled' \in BOOLEAN
  <2>1. handled' \in BOOLEAN
    BY <1>3 DEF Execute
  <2>2. executes < MaxExecutes /\ executes' = executes + 1 /\ executes \in 0 .. MaxExecutes
    BY <1>3 DEF Execute
  <2>3. executes' \in 0 .. MaxExecutes
    BY <2>2, SxupdateAssumption
  <2>4. QED BY <2>1, <2>3
<1>4. CASE ExecuteNotReady
  BY <1>3, <1>4 DEF ExecuteNotReady, Reports
<1>5. CASE ExecuteRefused
  BY <1>3, <1>5 DEF ExecuteRefused, Reports
<1>6. CASE ExecuteStarts
  BY <1>3, <1>6 DEF ExecuteStarts
<1>7. CASE Connected
  BY <1>7 DEF Connected
<1>8. CASE FetchFails
  BY <1>8, FetchFailsChanges DEF ExecuteFails, Reports
<1>9. CASE MetadataAccepted
  <2>1. optedOut' \in BOOLEAN
    BY <1>9 DEF MetadataAccepted, KeyTypes
  <2>2. owed' \in Nat
    BY <1>9 DEF MetadataAccepted
  <2>3. QED BY <1>9, <2>1, <2>2 DEF MetadataAccepted
<1>10. CASE HandlerReturns \/ Delete
  BY <1>10 DEF HandlerReturns, Delete
<1>11. ASSUME NEW action \in Actions, Resume(action) PROVE CallTypes'
  <2>1. owed' \in Nat
    BY <1>11 DEF Resume
  <2>2. QED BY <1>11, <2>1 DEF Resume
<1>12. CASE Resuming
  BY <1>12, ResumingChanges DEF ResumeStep
<1>13. QED
  BY <1>1, <1>2, <1>4, <1>5, <1>6, <1>7, <1>8, <1>9, <1>10, <1>11, <1>12, NextCases

LEMMA TypesStep == Types /\ [Next]_vars => Types'
<1>1. ASSUME Types, UNCHANGED vars PROVE Types'
  BY <1>1 DEF vars, configVars, keyVars, runVars, callVars, Types, ConfigTypes,
     KeyTypes, RunTypes, PcTypes, CallTypes
<1>2. QED
  BY <1>1, ConfigTypesStep, KeyTypesStep, RunTypesStep, PcTypesStep, CallTypesStep
     DEF Types

(* Every variable keeps its type.                                          *)
THEOREM TypeCorrect == Spec => []TypeOK
<1>1. Types => TypeOK
  BY DEF Types, ConfigTypes, KeyTypes, RunTypes, PcTypes, CallTypes, KeyMemory,
     TypeOK
<1>2. QED BY <1>1, TypesInit, TypesStep, PTL DEF Spec

-----------------------------------------------------------------------------
(* The keys                                                                *)

LEMMA KeyLifetimeInit == Init => KeyLifetime
BY SxupdateAssumption DEF Init, KeyLifetime

(* The key that is given up was held, so it is freed for the first time.   *)
LEMMA FreedOnce ==
  ASSUME KeyTypes, KeyLifetime
  PROVE  \A k \in Keys : Freed[k] \notin {"held", "twice"}
                          /\ (keyState[k] = "fresh" => Freed[k] = "fresh")
<1> TAKE k \in Keys
<1>1. CASE publicKey = NULL
  BY <1>1, SxupdateAssumption DEF KeyTypes, KeyMemory, KeyLifetime, Freed
<1>2. CASE publicKey = k
  BY <1>2, SxupdateAssumption DEF KeyTypes, KeyMemory, KeyLifetime, Freed
<1>3. CASE publicKey # NULL /\ publicKey # k
  BY <1>3, SxupdateAssumption DEF KeyTypes, KeyMemory, KeyLifetime, Freed
<1>4. QED BY <1>1, <1>2, <1>3

LEMMA KeyLifetimeStep == Types /\ KeyLifetime /\ [Next]_vars => KeyLifetime'
<1> SUFFICES ASSUME Types, KeyLifetime, [Next]_vars PROVE KeyLifetime'
  OBVIOUS
<1> USE DEF Types
<1>1. CASE SetKey
  <2>1. PICK k \in Keys \cup {NULL} : HoldKey(k)
    BY <1>1, SetKeyChanges
  <2>2. pc' # "deleted"
    BY <2>1 DEF HoldKey, InApplication, callVars
  <2>3. CASE k = NULL
    BY <2>1, <2>2, <2>3, FreedOnce, SxupdateAssumption DEF HoldKey, KeyLifetime
  <2>4. CASE k # NULL
    <3>1. k \in Keys /\ keyState' = [Freed EXCEPT ![k] = "held"] /\ publicKey' = k
      BY <2>1, <2>4 DEF HoldKey
    <3>2. ASSUME NEW j \in Keys
          PROVE  keyState'[j] # "twice" /\ (keyState'[j] = "held" <=> publicKey' = j)
      BY <3>1, FreedOnce, FreedType DEF KeyMemory
    <3>3. QED BY <2>2, <3>2 DEF KeyLifetime
  <2>5. QED BY <2>3, <2>4
<1>2. CASE Delete
  BY <1>2, FreedOnce, SxupdateAssumption DEF Delete, KeyLifetime
<1>3. CASE Next /\ ~SetKey /\ ~Delete
  <2>1. UNCHANGED <<publicKey, keyState>>
    BY <1>3, KeyVarsChange DEF MetadataAccepted, keyVars
  <2>2. pc' = "deleted" => pc = "deleted"
    <3>1. CASE Configure
      BY <3>1, ConfigureChanges DEF callVars
    <3>2. CASE Resuming
      BY <3>2, ResumingChanges DEF ResumeStep, PcTypes
    <3>3. QED
      BY <1>3, <3>1, <3>2, NextCases, FetchFailsChanges
         DEF ExecuteNotReady, ExecuteRefused, ExecuteStarts, Connected, ExecuteFails,
         ReceiveMetadata, MetadataAccepted, HandlerReturns, Resume, callVars, PcTypes
  <2>3. QED BY <2>1, <2>2 DEF KeyLifetime
<1>4. CASE UNCHANGED vars
  BY <1>4 DEF vars, keyVars, callVars, KeyLifetime
<1>5. QED BY <1>1, <1>2, <1>3, <1>4

(* However often the application changes its key, whether a file can be    *)
(* read or not, and whenever it deletes the handle: no key is freed twice, *)
(* the handle's key is always alive, and none is left behind.              *)
THEOREM KeysAreFreedOnce == Spec => []KeyLifetime
<1>1. QED
  BY TypesInit, TypesStep, KeyLifetimeInit, KeyLifetimeStep, PTL DEF Spec

-----------------------------------------------------------------------------
(* The offer                                                               *)

InResume == pc \in {"download", "downloaded", "launch"}

(* An offer uses the handle up, only one answer is owed, and only for the  *)
(* newer version and after the answer does resume get to work.             *)
OfferInv ==
  /\ step # "none" => spent
  /\ owed > 0 => owed = 1 /\ step # "none" /\ launched = "no"
  /\ InResume => step = "newer" /\ owed = 0 /\ launched = "no"
  /\ launched # "no" => step # "none"

LEMMA OfferInit == Init => OfferInv
BY DEF Init, OfferInv, InResume

offerVars == <<step, owed, launched, failed>>

LEMMA OfferVarsChange ==
  ASSUME Next
  PROVE  MetadataAccepted \/ (\E action \in Actions : Resume(action)) \/ Resuming
         \/ UNCHANGED offerVars
BY NextCases, ConfigureChanges, SetKeyChanges, FetchFailsChanges
   DEF HoldKey, ExecuteNotReady, ExecuteRefused, ExecuteStarts, Connected,
   ExecuteFails, ReceiveMetadata, HandlerReturns, Delete, offerVars, runVars, callVars

(* Once spent, a handle stays spent, and then it makes no offer.           *)
LEMMA SpentForGood == Next /\ spent => spent' /\ ~MetadataAccepted
<1>1. Feed!Next /\ spent => spent'
  BY DEF Feed!Next, Feed!Begin, Feed!Refuse, Feed!Receive, Feed!Fail, Feed!Offer
<1>2. MetadataAccepted => ~spent
  BY DEF MetadataAccepted, Feed!Offer
<1>3. QED BY <1>1, <1>2, FeedStep DEF fetchVars

LEMMA StaysOutside ==
  ASSUME Types, Next, ~Resuming, ~(\E action \in Actions : Resume(action))
  PROVE  InResume' => InResume
BY NextCases, ConfigureChanges, SetKeyChanges, FetchFailsChanges
   DEF HoldKey, ExecuteNotReady, ExecuteRefused, ExecuteStarts, Connected,
   ExecuteFails, ReceiveMetadata, MetadataAccepted, HandlerReturns, Delete,
   InResume, callVars, Types, PcTypes

LEMMA OfferStep == Types /\ OfferInv /\ [Next]_vars => OfferInv'
<1> SUFFICES ASSUME Types, OfferInv, [Next]_vars PROVE OfferInv'
  OBVIOUS
<1>1. CASE MetadataAccepted
  <2>1. ~spent /\ spent' /\ pc' = "handler" /\ owed' = owed + 1
    BY <1>1 DEF MetadataAccepted, Feed!Offer
  <2>2. step' # "none" /\ launched' = launched
    BY <1>1 DEF MetadataAccepted
  <2>3. owed = 0 /\ launched = "no"
    BY <2>1 DEF OfferInv, Types, CallTypes
  <2>4. QED BY <2>1, <2>2, <2>3 DEF OfferInv, InResume
<1>2. ASSUME NEW action \in Actions, Resume(action) PROVE OfferInv'
  <2>1. owed = 1 /\ owed' = 0 /\ step # "none" /\ launched = "no"
    BY <1>2 DEF Resume, OfferInv
  <2>2. UNCHANGED <<step, launched, spent>>
    BY <1>2 DEF Resume, runVars, fetchVars
  <2>3. pc' = pc \/ step = "newer"
    BY <1>2 DEF Resume
  <2>4. ~InResume
    BY <1>2 DEF Resume, InApplication, InResume
  <2>5. QED BY <2>1, <2>2, <2>3, <2>4 DEF OfferInv, InResume
<1>3. CASE Resuming
  <2>1. step = "newer" /\ owed = 0 /\ launched = "no"
    BY <1>3, ResumingChanges DEF ResumeStep, OfferInv, InResume
  <2>2. UNCHANGED <<step, owed, spent>>
    BY <1>3, ResumingChanges DEF ResumeStep, fetchVars
  <2>3. UNCHANGED launched \/ pc' = caller
    BY <1>3, ResumingChanges DEF ResumeStep
  <2>4. QED BY <2>1, <2>2, <2>3 DEF OfferInv, InResume, Types, PcTypes
<1>4. CASE Next /\ UNCHANGED offerVars /\ ~Resuming
            /\ ~(\E action \in Actions : Resume(action))
  <2>1. spent => spent'
    BY <1>4, SpentForGood
  <2>2. InResume' => InResume
    BY <1>4, StaysOutside
  <2>3. QED BY <1>4, <2>1, <2>2 DEF OfferInv, offerVars
<1>5. CASE UNCHANGED vars
  BY <1>5 DEF vars, fetchVars, runVars, callVars, OfferInv, InResume
<1>6. QED BY <1>1, <1>2, <1>3, <1>4, <1>5, OfferVarsChange

LEMMA StageInit == Init => Contract!Init
BY DEF Init, Contract!Init, Stage

(* Outside the three kinds of steps that move it, the stage stays.         *)
LEMMA StageStays ==
  ASSUME Types, Next, UNCHANGED offerVars, ~Resuming
  PROVE  UNCHANGED <<Stage, step = "newer">>
<1>1. CASE \E action \in Actions : Resume(action)
  BY <1>1 DEF Resume, offerVars, Types, CallTypes
<1>2. CASE ~(\E action \in Actions : Resume(action))
  <2>1. ~InResume'
    BY <1>2, NextCases, ConfigureChanges, SetKeyChanges, FetchFailsChanges
       DEF HoldKey, ExecuteNotReady, ExecuteRefused, ExecuteStarts, Connected,
       ExecuteFails, ReceiveMetadata, MetadataAccepted, HandlerReturns, Delete,
       InResume, InApplication, callVars, Execute, Types, PcTypes
  <2>2. ~InResume
    BY <1>2, NextCases, ConfigureChanges, SetKeyChanges, FetchFailsChanges
       DEF HoldKey, ExecuteNotReady, ExecuteRefused, ExecuteStarts, Connected,
       ReceiveMetadata, MetadataAccepted, HandlerReturns, Delete,
       InResume, InApplication, Execute
  <2>3. QED BY <2>1, <2>2 DEF InResume, offerVars, Stage
<1>3. QED BY <1>1, <1>2

LEMMA StageStep ==
  Types /\ OfferInv /\ [Next]_vars => [Contract!Next]_(Contract!contractVars)
<1> SUFFICES ASSUME Types, OfferInv, Next
             PROVE  Contract!Next \/ UNCHANGED <<Stage, step = "newer">>
  <2>1. UNCHANGED vars => UNCHANGED <<Stage, step = "newer">>
    BY DEF vars, runVars, callVars, Stage
  <2>2. QED BY <2>1 DEF Contract!contractVars
<1> USE DEF Types, PcTypes, CallTypes, RunTypes
<1>1. CASE MetadataAccepted
  <2>1. Stage = "waiting" /\ Stage' = "offered"
    BY <1>1 DEF MetadataAccepted, Feed!Offer, OfferInv, Stage
  <2>2. (step = "newer")' \in BOOLEAN
    OBVIOUS
  <2>3. QED BY <2>1, <2>2 DEF Contract!Next, Contract!Offer
<1>2. ASSUME NEW action \in Actions, Resume(action) PROVE Contract!Next
  <2>1. Stage = "offered" /\ UNCHANGED step
    BY <1>2 DEF Resume, OfferInv, Stage, InApplication, runVars
  <2>2. owed' = 0 /\ launched' = "no" /\ step # "none"
    BY <1>2 DEF Resume, OfferInv
  <2>3. CASE action = "proceed" /\ step = "newer"
    <3>1. Stage' = "agreed"
      BY <1>2, <2>2, <2>3 DEF Resume, Stage
    <3>2. QED BY <2>1, <2>3, <3>1 DEF Contract!Next, Contract!Agree
  <2>4. CASE ~(action = "proceed" /\ step = "newer")
    <3>1. Stage' = "over"
      BY <1>2, <2>1, <2>2, <2>4 DEF Resume, Stage, InApplication
    <3>2. QED BY <2>1, <3>1 DEF Contract!Next, Contract!GiveUp
  <2>5. QED BY <2>3, <2>4
<1>3. CASE Resuming
  <2>1. InResume /\ launched = "no" /\ step = "newer" /\ owed = 0
    BY <1>3, ResumingChanges DEF ResumeStep, OfferInv, InResume
  <2>2. UNCHANGED <<step, owed>>
    BY <1>3, ResumingChanges DEF ResumeStep
  <2>3. CASE pc' = caller /\ UNCHANGED launched
    BY <2>1, <2>2, <2>3 DEF InResume, Stage, Contract!Next, Contract!GiveUp
  <2>4. CASE pc' = "downloaded" /\ UNCHANGED launched /\ pc = "download"
    BY <2>1, <2>2, <2>4 DEF Stage
  <2>5. CASE pc' = "launch" /\ UNCHANGED launched /\ pc = "downloaded"
    BY <2>1, <2>2, <2>5 DEF Stage, Contract!Next, Contract!Clear
  <2>6. CASE pc = "launch" /\ launched' # "no"
    BY <2>1, <2>2, <2>6 DEF Stage, Contract!Next, Contract!Start
  <2>7. QED BY <1>3, <2>3, <2>4, <2>5, <2>6, ResumingChanges DEF ResumeStep
<1>4. CASE UNCHANGED offerVars /\ ~Resuming
  BY <1>4, StageStays
<1>5. QED BY <1>1, <1>2, <1>3, <1>4, OfferVarsChange

(* In the life of a handle one version is offered at most, and one         *)
(* installer started at most: for a newer version, after the application   *)
(* agreed, and after the download was cleared.  This holds for every order *)
(* in which the application configures, executes, resumes and changes keys *)
(* and for every way the transfers end.                                    *)
THEOREM SxupdateImplementsContract == Spec => ImplementsContract
<1>1. Spec => [](Types /\ OfferInv)
  BY TypesInit, TypesStep, OfferInit, OfferStep, PTL DEF Spec
<1>2. QED
  BY <1>1, StageInit, StageStep, PTL DEF Spec, ImplementsContract, Contract!Spec

-----------------------------------------------------------------------------
(* What fails                                                              *)

(* A failed step ends the only resume the offer had.                       *)
FailedInv ==
  failed => step # "none" /\ owed = 0 /\ launched = "no" /\ ~InResume

LEMMA FailedStep == Types /\ OfferInv /\ FailedInv /\ [Next]_vars => FailedInv'
<1> SUFFICES ASSUME Types, OfferInv, FailedInv, [Next]_vars PROVE FailedInv'
  OBVIOUS
<1>1. CASE MetadataAccepted
  <2>1. failed' = failed /\ step = "none"
    BY <1>1 DEF MetadataAccepted, Feed!Offer, OfferInv
  <2>2. QED BY <2>1 DEF FailedInv
<1>2. ASSUME NEW action \in Actions, Resume(action) PROVE FailedInv'
  <2>1. failed' = failed /\ owed > 0
    BY <1>2 DEF Resume
  <2>2. QED BY <2>1 DEF FailedInv
<1>3. CASE Resuming
  <2>1. ~failed /\ step = "newer" /\ owed = 0 /\ launched = "no"
    BY <1>3, ResumingChanges DEF ResumeStep, OfferInv, InResume, FailedInv,
       Types, CallTypes
  <2>2. UNCHANGED <<step, owed>>
    BY <1>3, ResumingChanges DEF ResumeStep
  <2>3. failed' => pc' = caller /\ UNCHANGED launched
    BY <1>3, <2>1, ResumingChanges DEF ResumeStep
  <2>4. QED BY <2>1, <2>2, <2>3 DEF FailedInv, InResume, Types, PcTypes
<1>4. CASE Next /\ UNCHANGED offerVars /\ ~Resuming
            /\ ~(\E action \in Actions : Resume(action))
  <2>1. InResume' => InResume
    BY <1>4, StaysOutside
  <2>2. QED BY <1>4, <2>1 DEF FailedInv, offerVars
<1>5. CASE UNCHANGED vars
  BY <1>5 DEF vars, runVars, callVars, FailedInv, InResume
<1>6. QED BY <1>1, <1>2, <1>3, <1>4, <1>5, OfferVarsChange

(* Once a download, its permissions, its check or its start has failed, no *)
(* installer is started with the handle, whatever the application calls    *)
(* after that and whatever comes of it.                                    *)
THEOREM FailureIsFinal == Spec => []NothingStartsAfterFailure
<1>1. Init => FailedInv
  BY DEF Init, FailedInv
<1>2. FailedInv => NothingStartsAfterFailure
  BY DEF FailedInv, NothingStartsAfterFailure
<1>3. QED
  BY <1>1, <1>2, TypesInit, TypesStep, OfferInit, OfferStep, FailedStep, PTL DEF Spec

-----------------------------------------------------------------------------
(* The check of the signature                                              *)

HasKeyOrChoice == publicKey # NULL \/ noPublicKey

(* From the moment execute finds the handle ready, it has a key or the     *)
(* application has declined one; and after the offer only a change of the  *)
(* key, or the deletion of the handle, alters that.                        *)
ChoiceInv ==
  /\ pc \in {"connect", "metadata"} => HasKeyOrChoice
  /\ step # "none" /\ ~rekeyed /\ pc # "deleted"
       => HasKeyOrChoice /\ noPublicKey = optedOut
  /\ UncheckedOnlyByChoice

LEMMA ChoiceInit == Init => ChoiceInv
BY DEF Init, ChoiceInv, UncheckedOnlyByChoice

choiceVars == <<publicKey, noPublicKey, rekeyed, step, launched, optedOut>>

LEMMA ChoiceVarsChange ==
  ASSUME Next
  PROVE  SetKey \/ MetadataAccepted \/ Delete \/ Resuming \/ UNCHANGED choiceVars
BY NextCases, ConfigureChanges, FetchFailsChanges
   DEF ExecuteNotReady, ExecuteRefused, ExecuteStarts, Connected,
   ExecuteFails, ReceiveMetadata, HandlerReturns, Resume, choiceVars, keyVars,
   runVars, callVars

LEMMA ChoiceStep == Types /\ OfferInv /\ ChoiceInv /\ [Next]_vars => ChoiceInv'
<1> SUFFICES ASSUME Types, OfferInv, ChoiceInv, [Next]_vars PROVE ChoiceInv'
  OBVIOUS
<1>1. CASE SetKey
  <2>1. rekeyed' /\ UNCHANGED launched
    BY <1>1, SetKeyChanges DEF HoldKey, callVars
  <2>2. pc' \notin {"connect", "metadata"}
    BY <1>1, SetKeyChanges DEF HoldKey, InApplication, callVars
  <2>3. QED BY <2>1, <2>2 DEF ChoiceInv, UncheckedOnlyByChoice
<1>2. CASE MetadataAccepted
  <2>1. launched' = "no" /\ pc' = "handler"
    BY <1>2 DEF MetadataAccepted, Feed!Offer, OfferInv
  <2>2. HasKeyOrChoice' /\ noPublicKey' = optedOut'
    BY <1>2 DEF MetadataAccepted, ChoiceInv, HasKeyOrChoice
  <2>3. QED BY <2>1, <2>2 DEF ChoiceInv, UncheckedOnlyByChoice
<1>3. CASE Delete
  BY <1>3 DEF Delete, keyVars, callVars, ChoiceInv, UncheckedOnlyByChoice
<1>4. CASE Resuming
  <2>1. pc \in {"download", "downloaded", "launch"} /\ step = "newer"
    BY <1>4, ResumingChanges DEF ResumeStep, OfferInv, InResume
  <2>2. UNCHANGED <<publicKey, noPublicKey, rekeyed, step, optedOut>>
    BY <1>4, ResumingChanges DEF ResumeStep, keyVars
  <2>3. pc' \notin {"connect", "metadata"}
    BY <1>4, ResumingChanges DEF ResumeStep, Types, PcTypes
  <2>4. ~rekeyed => HasKeyOrChoice /\ noPublicKey = optedOut
    BY <2>1 DEF ChoiceInv
  <2>5. ~rekeyed => (HasKeyOrChoice /\ noPublicKey = optedOut)'
    BY <2>2, <2>4 DEF HasKeyOrChoice
  <2>6. launched' = "unchecked" => launched = "unchecked" \/ ~Checked
    BY <1>4, ResumingChanges DEF ResumeStep
  <2>7. UncheckedOnlyByChoice'
    BY <2>2, <2>4, <2>6
       DEF ChoiceInv, UncheckedOnlyByChoice, Checked, HasKeyOrChoice
  <2>8. QED BY <2>2, <2>3, <2>5, <2>7 DEF ChoiceInv
<1>5. CASE Next /\ UNCHANGED choiceVars
  <2>1. pc' \in {"connect", "metadata"} => pc \in {"connect", "metadata"} \/ Ready
    <3>1. CASE Resuming
      BY <3>1, ResumingChanges DEF ResumeStep, Types, PcTypes
    <3>2. QED
      BY <1>5, <3>1, NextCases, ConfigureChanges, SetKeyChanges, FetchFailsChanges
         DEF HoldKey, ExecuteNotReady, ExecuteRefused, ExecuteStarts, Connected,
         ExecuteFails, ReceiveMetadata, MetadataAccepted, HandlerReturns, Resume,
         Delete, Execute, callVars
  <2>2. pc' # "deleted" => pc # "deleted"
    BY <1>5, NextCases, ConfigureChanges, SetKeyChanges, FetchFailsChanges, ResumingChanges
       DEF HoldKey, ExecuteNotReady, ExecuteRefused, ExecuteStarts, Connected,
       ReceiveMetadata, MetadataAccepted, HandlerReturns, Resume, ResumeStep,
       Delete, Execute, InApplication
  <2>3. UNCHANGED <<HasKeyOrChoice, UncheckedOnlyByChoice>>
    BY <1>5 DEF choiceVars, HasKeyOrChoice, UncheckedOnlyByChoice
  <2>4. Ready => HasKeyOrChoice
    BY DEF Ready, HasKeyOrChoice
  <2>5. QED BY <1>5, <2>1, <2>2, <2>3, <2>4 DEF ChoiceInv, choiceVars
<1>6. CASE UNCHANGED vars
  BY <1>6 DEF vars, keyVars, runVars, callVars, ChoiceInv, HasKeyOrChoice,
     UncheckedOnlyByChoice
<1>7. QED BY <1>1, <1>2, <1>3, <1>4, <1>5, <1>6, ChoiceVarsChange

(* Whatever the application does between the offer and its answer, a       *)
(* download that nobody checked is started only if the application had     *)
(* opted out of signatures at the offer, or changed the key after it.      *)
THEOREM UncheckedIsAChoice == Spec => []UncheckedOnlyByChoice
<1>1. ChoiceInv => UncheckedOnlyByChoice
  BY DEF ChoiceInv
<1>2. QED
  BY <1>1, TypesInit, TypesStep, OfferInit, OfferStep, ChoiceInit, ChoiceStep, PTL
     DEF Spec

-----------------------------------------------------------------------------
(* What execute reports, and what it sends                                 *)

InFetch == pc \in {"connect", "metadata"}

ReportInv ==
  /\ InFetch /\ caller = "app" => ~handled
  /\ pc = "handler" \/ ((InFetch \/ InResume) /\ caller = "handler") => handled
  /\ pc = "app" \/ (InResume /\ caller = "app") =>
       (status # "none" => (status = "ok" <=> handled))

LEMMA ReportInit == Init => ReportInv
BY DEF Init, ReportInv, InFetch, InResume

LEMMA ReportStep == Types /\ ReportInv /\ [Next]_vars => ReportInv'
<1> SUFFICES ASSUME Types, ReportInv, [Next]_vars PROVE ReportInv'
  OBVIOUS
<1>1. ASSUME UNCHANGED callVars PROVE ReportInv'
  BY <1>1 DEF callVars, ReportInv, InFetch, InResume
<1>2. CASE Configure \/ SetKey \/ ReceiveMetadata
  <2>1. UNCHANGED callVars
    BY <1>2, ConfigureChanges, SetKeyChanges DEF HoldKey, ReceiveMetadata
  <2>2. QED BY <1>1, <2>1
<1>3. CASE ExecuteNotReady \/ ExecuteRefused
  <2>1. CASE pc = "app"
    <3>1. pc' = "app" /\ status' = "error" /\ handled' = FALSE
      BY <1>3, <2>1 DEF ExecuteNotReady, ExecuteRefused, Execute, Reports
    <3>2. QED BY <3>1 DEF ReportInv, InFetch, InResume
  <2>2. CASE pc = "handler"
    <3>1. pc' = "handler" /\ handled' = handled
      BY <1>3, <2>2 DEF ExecuteNotReady, ExecuteRefused, Execute
    <3>2. QED BY <2>2, <3>1 DEF ReportInv, InFetch, InResume
  <2>3. QED BY <1>3, <2>1, <2>2 DEF ExecuteNotReady, ExecuteRefused, Execute, InApplication
<1>4. CASE ExecuteStarts
  <2>1. /\ pc' = "connect" /\ caller' = pc /\ pc \in {"app", "handler"}
        /\ handled' = IF pc = "app" THEN FALSE ELSE handled
    BY <1>4 DEF ExecuteStarts, Execute, InApplication
  <2>2. QED BY <2>1 DEF ReportInv, InFetch, InResume
<1>5. CASE Connected
  <2>1. pc = "connect" /\ pc' = "metadata" /\ UNCHANGED <<handled, caller>>
    BY <1>5 DEF Connected
  <2>2. QED BY <2>1 DEF ReportInv, InFetch, InResume
<1>6. CASE FetchFails
  <2>1. PICK why \in {"memory", "error"} : InFetch /\ ExecuteFails(why)
    BY <1>6, FetchFailsChanges DEF InFetch
  <2>2. pc' = caller /\ caller' = "app" /\ handled' = handled
    BY <2>1 DEF ExecuteFails
  <2>3. caller = "app" => status' = why
    BY <2>1 DEF ExecuteFails, Reports
  <2>4. caller \in {"app", "handler"}
    BY DEF Types, PcTypes
  <2>5. QED BY <2>1, <2>2, <2>3, <2>4 DEF ReportInv, InFetch, InResume
<1>7. CASE MetadataAccepted
  <2>1. pc' = "handler" /\ handled' = TRUE
    BY <1>7 DEF MetadataAccepted
  <2>2. QED BY <2>1 DEF ReportInv, InFetch, InResume
<1>8. CASE HandlerReturns
  <2>1. pc = "handler" /\ pc' = "app" /\ status' = "ok" /\ UNCHANGED handled
    BY <1>8 DEF HandlerReturns
  <2>2. QED BY <2>1 DEF ReportInv, InFetch, InResume
<1>9. CASE Delete
  <2>1. pc' = "deleted"
    BY <1>9 DEF Delete
  <2>2. QED BY <2>1 DEF ReportInv, InFetch, InResume
<1>10. ASSUME NEW action \in Actions, Resume(action) PROVE ReportInv'
  <2>1. UNCHANGED <<status, handled>> /\ pc \in {"app", "handler"}
    BY <1>10 DEF Resume, InApplication
  <2>2. UNCHANGED <<pc, caller>> \/ (pc' = "download" /\ caller' = pc)
    BY <1>10 DEF Resume
  <2>3. QED BY <2>1, <2>2 DEF ReportInv, InFetch, InResume
<1>11. CASE Resuming
  <2>1. InResume /\ UNCHANGED <<status, handled>>
    BY <1>11, ResumingChanges DEF ResumeStep, InResume
  <2>2. pc' = caller \/ (pc' \in {"downloaded", "launch"} /\ UNCHANGED caller)
    BY <1>11, ResumingChanges DEF ResumeStep, Types, PcTypes
  <2>3. caller \in {"app", "handler"}
    BY DEF Types, PcTypes
  <2>4. QED BY <2>1, <2>2, <2>3 DEF ReportInv, InFetch, InResume
<1>12. UNCHANGED vars => UNCHANGED callVars
  BY DEF vars
<1>13. QED
  BY <1>1, <1>2, <1>3, <1>4, <1>5, <1>6, <1>7, <1>8, <1>9, <1>10, <1>11, <1>12,
     NextCases

(* An execute call that reports ok has called the handler, one that        *)
(* reports an error has not, however it ended and whatever the handler     *)
(* did in between.                                                         *)
THEOREM OkAlwaysMeansHandled == Spec => []OkMeansHandled
<1>1. ReportInv => OkMeansHandled
  BY DEF ReportInv, OkMeansHandled
<1>2. QED
  BY <1>1, TypesInit, TypesStep, ReportInit, ReportStep, PTL DEF Spec

HeadersInv ==
  /\ url # NULL => (urlIsFile <=> url \in FileUrls)
  /\ InFetch => url # NULL /\ ~(urlIsFile /\ headers)

LEMMA HeadersInit == Init => HeadersInv
BY DEF Init, HeadersInv, InFetch

LEMMA HeadersStep == Types /\ HeadersInv /\ [Next]_vars => HeadersInv'
<1> SUFFICES ASSUME Types, HeadersInv, [Next]_vars PROVE HeadersInv'
  OBVIOUS
<1> USE DEF HeadersInv, InFetch
<1>1. CASE Configure
  <2>1. ~InFetch'
    BY <1>1, ConfigureChanges DEF InApplication, callVars
  <2>2. url' # NULL => (urlIsFile' <=> url' \in FileUrls)
    <3>1. ASSUME NEW u \in HttpsUrls \cup FileUrls, SetUrl(u) \/ SetUrlNoMemory(u)
          PROVE  url' \in {u, NULL} /\ urlIsFile' = (u \in FileUrls)
      BY <3>1 DEF SetUrl, SetUrlNoMemory
    <3>2. QED BY <1>1, <3>1 DEF Configure, SetCallbacks, ClearUrl, AddHeader
  <2>3. QED BY <2>1, <2>2
<1>2. CASE Next /\ UNCHANGED configVars
  <2>1. CASE Resuming
    <3>1. ~InFetch'
      BY <2>1, ResumingChanges DEF ResumeStep, Types, PcTypes
    <3>2. QED BY <1>2, <3>1 DEF configVars
  <2>2. CASE ~Resuming
    <3>1. InFetch' => InFetch \/ Ready
      BY <1>2, <2>2, NextCases, ConfigureChanges, SetKeyChanges, FetchFailsChanges
         DEF HoldKey, ExecuteNotReady, ExecuteRefused, ExecuteStarts, Connected,
         ExecuteFails, ReceiveMetadata, MetadataAccepted, HandlerReturns, Resume,
         Delete, Execute, callVars
    <3>2. QED BY <1>2, <3>1 DEF Ready, configVars
  <2>3. QED BY <2>1, <2>2
<1>3. CASE UNCHANGED vars
  BY <1>3 DEF vars, configVars, callVars
<1>4. QED BY <1>1, <1>2, <1>3, ConfigVarsChange

(* In whatever order the url, its kind and the headers are set: headers    *)
(* never go out with a fetch from a file.                                  *)
THEOREM HeadersNeverGoToFile == Spec => []NoHeadersToFile
<1>1. HeadersInv => NoHeadersToFile
  BY DEF HeadersInv, InFetch, NoHeadersToFile
<1>2. QED
  BY <1>1, TypesInit, TypesStep, HeadersInit, HeadersStep, PTL DEF Spec

-----------------------------------------------------------------------------
(* What is over stays over                                                 *)

(* An installer is started only for the newer version, when no answer is   *)
(* owed; from then on, whatever the application calls, the handle offers   *)
(* nothing and starts nothing again.                                       *)
THEOREM OneInstallerForTheNewerVersion ==
  Spec => /\ [](launched # "no" => step = "newer" /\ owed = 0)
          /\ [][launched # "no" => UNCHANGED <<launched, step, owed>>]_vars
<1> DEFINE StartedInv == launched # "no" => step = "newer" /\ owed = 0
<1>1. Init => StartedInv
  BY DEF Init
<1>2. Types /\ OfferInv /\ launched # "no" /\ Next => UNCHANGED offerVars
  <2> SUFFICES ASSUME Types, OfferInv, launched # "no", Next PROVE UNCHANGED offerVars
    OBVIOUS
  <2>1. ~MetadataAccepted
    BY SpentForGood DEF OfferInv
  <2>2. ~(\E action \in Actions : Resume(action))
    BY DEF OfferInv, Resume, Types, CallTypes
  <2>3. ~Resuming
    BY ResumingChanges DEF ResumeStep, OfferInv, InResume
  <2>4. QED BY <2>1, <2>2, <2>3, OfferVarsChange
<1>3. Types /\ OfferInv /\ StartedInv /\ [Next]_vars => StartedInv'
  <2> SUFFICES ASSUME Types, OfferInv, StartedInv, [Next]_vars PROVE StartedInv'
    OBVIOUS
  <2>1. CASE Next /\ launched # "no"
    BY <2>1, <1>2 DEF offerVars
  <2>2. CASE Next /\ launched = "no"
    <3>1. Resuming => StartedInv'
      BY <2>2, ResumingChanges DEF ResumeStep, OfferInv, InResume
    <3>2. ~Resuming => launched' = launched
      BY <2>2, OfferVarsChange DEF MetadataAccepted, Resume, offerVars
    <3>3. QED BY <2>2, <3>1, <3>2
  <2>3. CASE UNCHANGED vars
    BY <2>3 DEF vars, runVars, callVars
  <2>4. QED BY <2>1, <2>2, <2>3
<1>4. Types /\ OfferInv /\ [Next]_vars
        => [launched # "no" => UNCHANGED <<launched, step, owed>>]_vars
  BY <1>2 DEF offerVars
<1>5. QED
  BY <1>1, <1>3, <1>4, TypesInit, TypesStep, OfferInit, OfferStep, PTL DEF Spec

(* Once the parser has failed, or an item was read and no offer came of    *)
(* it, no later execute offers a version: the handle's step stays what it  *)
(* is and no further answer comes to be owed.  An application that wants   *)
(* to try again needs a new handle.                                        *)
THEOREM NoSecondChance ==
  Spec => [][broken \/ spent
               => (broken \/ spent)' /\ UNCHANGED step /\ owed' =< owed]_vars
<1>1. Next /\ (broken \/ spent) => (broken \/ spent)' /\ ~MetadataAccepted
  <2>1. Feed!Next /\ broken => broken'
    BY DEF Feed!Next, Feed!Begin, Feed!Refuse, Feed!Receive, Feed!Fail, Feed!Offer
  <2>2. Next /\ broken => broken'
    BY <2>1, FeedStep DEF fetchVars
  <2>3. MetadataAccepted => ~broken
    BY DEF MetadataAccepted, Feed!Offer
  <2>4. QED BY <2>2, <2>3, SpentForGood
<1>2. Types /\ Next /\ ~MetadataAccepted => UNCHANGED step /\ owed' =< owed
  <2> SUFFICES ASSUME Types, Next, ~MetadataAccepted
               PROVE  UNCHANGED step /\ owed' =< owed
    OBVIOUS
  <2>1. owed \in Nat
    BY DEF Types, CallTypes
  <2>2. CASE \E action \in Actions : Resume(action)
    BY <2>1, <2>2 DEF Resume, runVars
  <2>3. CASE Resuming
    <3>1. UNCHANGED <<step, owed>>
      BY <2>3, ResumingChanges DEF ResumeStep
    <3>2. QED BY <2>1, <3>1
  <2>4. CASE UNCHANGED offerVars
    BY <2>1, <2>4 DEF offerVars
  <2>5. QED BY <2>2, <2>3, <2>4, OfferVarsChange
<1>3. Types /\ [Next]_vars
        => [broken \/ spent
              => (broken \/ spent)' /\ UNCHANGED step /\ owed' =< owed]_vars
  BY <1>1, <1>2
<1>4. QED BY <1>3, TypesInit, TypesStep, PTL DEF Spec

-----------------------------------------------------------------------------
(* How long a call can take                                                *)

(* A chunk that neither scans nor breaks anything new leaves the handle as *)
(* it was; the steps that are left are those that change it.               *)
StepsLeft ==
  IF pc = "connect" THEN 4
  ELSE IF pc = "metadata"
       THEN 1 + (IF scanned THEN 0 ELSE 1) + (IF broken THEN 0 ELSE 1)
  ELSE IF pc = "download" THEN 3
  ELSE IF pc = "downloaded" THEN 2
  ELSE IF pc = "launch" THEN 1
  ELSE 0

FetchTypes == scanned \in BOOLEAN /\ broken \in BOOLEAN

LEMMA FetchTypesInit == Init => FetchTypes
BY DEF Init, Feed!Init, FetchTypes

LEMMA FetchTypesStep == FetchTypes /\ [Next]_vars => FetchTypes'
<1>1. FetchTypes /\ Feed!Next => FetchTypes'
  BY DEF Feed!Next, Feed!Begin, Feed!Refuse, Feed!Receive, Feed!Fail, Feed!Offer, FetchTypes
<1>2. FetchTypes /\ UNCHANGED fetchVars => FetchTypes'
  BY DEF fetchVars, FetchTypes
<1>3. UNCHANGED vars => UNCHANGED fetchVars
  BY DEF vars
<1>4. QED BY <1>1, <1>2, <1>3, FeedStep

LEMMA ReceivingCountsDown ==
  ASSUME FetchTypes, ReceiveMetadata
  PROVE  UNCHANGED vars \/ StepsLeft' < StepsLeft
<1>1. /\ pc = "metadata" /\ pc' = pc
      /\ scanned' \in {scanned, TRUE} /\ broken' \in {broken, TRUE}
      /\ UNCHANGED <<busy, result, spent, signed>>
      /\ UNCHANGED <<configVars, keyVars, runVars, callVars>>
  BY DEF ReceiveMetadata, Feed!Receive, callVars
<1>2. CASE scanned' = scanned /\ broken' = broken
  BY <1>1, <1>2 DEF vars, fetchVars
<1>3. CASE scanned' # scanned
  <2>1. scanned = FALSE /\ scanned' = TRUE
    BY <1>1, <1>3 DEF FetchTypes
  <2>2. broken = FALSE \/ broken' = TRUE
    BY <1>1 DEF FetchTypes
  <2>3. (IF broken' THEN 0 ELSE 1) =< (IF broken THEN 0 ELSE 1)
    BY <2>2
  <2>4. QED BY <1>1, <2>1, <2>3 DEF StepsLeft
<1>4. CASE scanned' = scanned /\ broken' # broken
  <2>1. broken = FALSE /\ broken' = TRUE
    BY <1>1, <1>4 DEF FetchTypes
  <2>2. (IF scanned' THEN 0 ELSE 1) = (IF scanned THEN 0 ELSE 1)
    BY <1>4
  <2>3. QED BY <1>1, <2>1, <2>2 DEF StepsLeft
<1>5. QED BY <1>2, <1>3, <1>4

(* Once execute or resume has been called, the library changes the handle  *)
(* at most four times before the application's code runs again: every such *)
(* step of the library leaves fewer of them, none of them turns back to a  *)
(* transfer or a file that was done with, and none is left exactly when    *)
(* the application's code runs.                                            *)
THEOREM CallsAreBounded ==
  Spec => /\ [](StepsLeft \in 0 .. 4)
          /\ [](StepsLeft = 0 <=> pc \in {"app", "handler", "deleted"})
          /\ [][Library => StepsLeft' < StepsLeft]_vars
<1>1. StepsLeft \in 0 .. 4
  BY DEF StepsLeft
<1>2. Types => (StepsLeft = 0 <=> pc \in {"app", "handler", "deleted"})
  BY DEF StepsLeft, Types, PcTypes
<1>3. Types /\ FetchTypes /\ Library => UNCHANGED vars \/ StepsLeft' < StepsLeft
  <2> SUFFICES ASSUME Types, FetchTypes, Library PROVE UNCHANGED vars \/ StepsLeft' < StepsLeft
    OBVIOUS
  <2>1. pc' \in {"app", "handler"} /\ StepsLeft > 0 => StepsLeft' < StepsLeft
    <3>1. pc' \in {"app", "handler"} => StepsLeft' = 0
      BY DEF StepsLeft
    <3>2. QED BY <3>1, <1>1
  <2>2. CASE Connected
    BY <2>2 DEF Connected, StepsLeft, fetchVars
  <2>3. CASE FetchFails
    BY <2>1, <2>3, FetchFailsChanges DEF ExecuteFails, Types, PcTypes, StepsLeft
  <2>4. CASE ReceiveMetadata
    BY <2>4, ReceivingCountsDown
  <2>5. CASE MetadataAccepted
    BY <2>1, <2>5 DEF MetadataAccepted, StepsLeft
  <2>6. CASE Resuming
    <3>1. CASE \E from \in {"download", "downloaded", "launch"} : ResumeStep(from, caller)
      BY <2>1, <3>1 DEF ResumeStep, Types, PcTypes, StepsLeft
    <3>2. CASE ResumeStep("download", "downloaded")
      BY <3>2 DEF ResumeStep, StepsLeft
    <3>3. CASE ResumeStep("downloaded", "launch")
      BY <3>3 DEF ResumeStep, StepsLeft
    <3>4. QED BY <2>6, <3>1, <3>2, <3>3, ResumingChanges
  <2>7. QED
    BY <2>2, <2>3, <2>4, <2>5, <2>6 DEF Library, FetchFails, Resuming
<1>4. Types /\ FetchTypes => [Library => StepsLeft' < StepsLeft]_vars
  BY <1>3
<1>5. QED
  BY <1>1, <1>2, <1>4, TypesInit, TypesStep, FetchTypesInit, FetchTypesStep, PTL
     DEF Spec
=============================================================================

------------------------------ MODULE Sxupdate ------------------------------
(***************************************************************************)
(* The update handle and its application: src/api.c, with the verification *)
(* step of src/verify.c.  The application configures the handle, executes  *)
(* it, is called back with an offer, and resumes it - inside the callback, *)
(* or later, when the execute call has long returned.  It may even execute *)
(* the handle again inside the callback.  Everything runs in the           *)
(* application's thread, so the control state says whose code is running;  *)
(* the application may call the handle's functions only while its own code *)
(* runs.                                                                   *)
(*                                                                         *)
(* Fetching the metadata is what MetadataContract.tla promises (and what   *)
(* Metadata.tla implements).                                               *)
(***************************************************************************)
EXTENDS Naturals

CONSTANTS
  HttpsUrls, FileUrls,  \* urls an application may set
  Keys,                 \* RSA keys: each is handed over at most once
  NULL,                 \* a null pointer
  Codes,                \* the response codes of servers; 0 is no answer
  MaxExecutes           \* bound: calls of sxupdate_execute

ASSUME SxupdateAssumption ==
  /\ HttpsUrls \cap FileUrls = {}
  /\ NULL \notin HttpsUrls \cup FileUrls \cup Keys
  /\ Codes \subseteq Nat /\ {0, 200} \subseteq Codes
  /\ MaxExecutes \in Nat

VARIABLES
  callbacks,    \* get_current_version and interaction_handler are both set
  url,          \* handle->url
  urlIsFile,    \* handle->url_is_file
  headers,      \* http_headers is not empty
  publicKey,    \* handle->public_key
  noPublicKey,  \* handle->no_public_key
  keyState,     \* the memory of each key: not yet given, held, or freed
  busy, result, scanned, broken, spent, signed,  \* MetadataContract.tla
  step,         \* handle->step
  httpCode,     \* handle->http_code
  errMsg,       \* handle->err_msg is set ("Unable to connect")
  pc,           \* which code runs
  caller,       \* whose code the library will return to, while it runs
  status,       \* what the last execute outside of the handler returned
  executes,     \* history: calls of sxupdate_execute
  handled,      \* history: that execute has called the handler
  owed,         \* history: offers the application has not answered yet
  launched,     \* history: "no", or how the installer was started
  failed,       \* history: a step of resume has failed
  optedOut,     \* history: no_public_key when the version was offered
  rekeyed,      \* history: the key was changed after that
  failure       \* history: why the last fetch failed

configVars == <<callbacks, url, urlIsFile, headers>>
keyVars    == <<publicKey, noPublicKey, keyState, rekeyed>>
fetchVars  == <<busy, result, scanned, broken, spent, signed>>
runVars    == <<step, httpCode, errMsg, failure>>
callVars   == <<pc, caller, status, executes, handled, owed, launched, failed,
                optedOut>>
vars       == <<configVars, keyVars, fetchVars, runVars, callVars>>

Feed == INSTANCE MetadataContract

(* sxupdate_new: calloc, and parser.stat ok.                               *)
Init ==
  /\ callbacks = FALSE
  /\ url = NULL /\ urlIsFile = FALSE /\ headers = FALSE
  /\ publicKey = NULL /\ noPublicKey = FALSE
  /\ keyState = [k \in Keys |-> "fresh"]
  /\ Feed!Init
  /\ step = "none" /\ httpCode = 0 /\ errMsg = FALSE /\ failure = "none"
  /\ pc = "app" /\ caller = "app" /\ status = "none"
  /\ executes = 0 /\ handled = FALSE /\ owed = 0 /\ launched = "no"
  /\ failed = FALSE /\ optedOut = FALSE /\ rekeyed = FALSE

-----------------------------------------------------------------------------
(* Configuration, from the application or from inside its handler          *)

InApplication == pc \in {"app", "handler"}

SetCallbacks ==
  /\ InApplication
  /\ callbacks' \in BOOLEAN
  /\ UNCHANGED <<url, urlIsFile, headers, keyVars, fetchVars, runVars, callVars>>

\* Mutant of SetUrl: the flag of the old url is kept.
SetUrlOnly(u) ==
  /\ InApplication
  /\ url' = u
  /\ UNCHANGED <<callbacks, urlIsFile, headers, keyVars, fetchVars, runVars, callVars>>

SetUrl(u) ==
  /\ InApplication
  /\ url' = u /\ urlIsFile' = (u \in FileUrls)
  /\ UNCHANGED <<callbacks, headers, keyVars, fetchVars, runVars, callVars>>

(* strdup fails: the old url is gone, and set_url returns ok.              *)
SetUrlNoMemory(u) ==
  /\ InApplication /\ owed = 0
  /\ url' = NULL /\ urlIsFile' = (u \in FileUrls)
  /\ UNCHANGED <<callbacks, headers, keyVars, fetchVars, runVars, callVars>>

(* set_url(NULL) forgets the url and leaves the flag.  The application does *)
(* it only while no offer waits, and strdup fails only then: a download    *)
(* would merge with NULL.                                                  *)
ClearUrl ==
  /\ InApplication /\ owed = 0
  /\ url' = NULL
  /\ UNCHANGED <<callbacks, urlIsFile, headers, keyVars, fetchVars,
                 runVars, callVars>>

(* curl_slist_append returns NULL when there is no memory: then all the    *)
(* headers are gone, and add_header returns ok.                            *)
AddHeader ==
  /\ InApplication
  /\ headers' \in BOOLEAN
  /\ UNCHANGED <<callbacks, url, urlIsFile, keyVars, fetchVars,
                 runVars, callVars>>

(* RSA_free of the key the handle holds.                                   *)
Freed == IF publicKey = NULL THEN keyState
         ELSE [keyState EXCEPT ![publicKey] = IF @ = "held" THEN "freed" ELSE "twice"]

(* The handle takes over key k, or the null key.                           *)
HoldKey(k) ==
  /\ InApplication
  /\ k # NULL => keyState[k] = "fresh"
  /\ publicKey' = k /\ rekeyed' = TRUE
  /\ keyState' = IF k = NULL THEN Freed ELSE [Freed EXCEPT ![k] = "held"]
  /\ UNCHANGED <<configVars, fetchVars, runVars, callVars>>

SetPublicKey(k) ==
  /\ HoldKey(k)
  /\ noPublicKey' = (k = NULL)

\* Mutant of SetPublicKeyFromFile: an unreadable file leaves the old pointer.
SetPublicKeyFromFileDangling(k) ==
  /\ InApplication
  /\ k # NULL => keyState[k] = "fresh"
  /\ publicKey' = (IF k = NULL THEN publicKey ELSE k) /\ rekeyed' = TRUE
  /\ keyState' = IF k = NULL THEN Freed ELSE [Freed EXCEPT ![k] = "held"]
  /\ noPublicKey' = FALSE
  /\ UNCHANGED <<configVars, fetchVars, runVars, callVars>>

(* When the file cannot be read the handle is left without a key.          *)
SetPublicKeyFromFile(k) ==
  /\ HoldKey(k)
  /\ noPublicKey' = FALSE

-----------------------------------------------------------------------------
(* sxupdate_execute                                                        *)

\* Mutant of Ready: a handle without a key is ready.
ReadyWithoutKey ==
  /\ callbacks /\ url # NULL
  /\ ~(urlIsFile /\ headers)

Ready ==
  /\ callbacks /\ url # NULL
  /\ ~(urlIsFile /\ headers)
  /\ publicKey # NULL \/ noPublicKey

Execute ==
  /\ InApplication /\ executes < MaxExecutes
  /\ executes' = executes + 1
  /\ handled' = IF pc = "app" THEN FALSE ELSE handled

(* Inside the handler a result does not outlive the callback.              *)
Reports(to, what) == status' = IF to = "app" THEN what ELSE status

ExecuteNotReady ==
  /\ Execute /\ ~Ready
  /\ Reports(pc, "error")
  /\ UNCHANGED <<configVars, keyVars, fetchVars, runVars,
                 pc, caller, owed, launched, failed, optedOut>>

\* Mutant of ExecuteRefused: the error of parse_init is not returned.
ExecuteRefusedSilently ==
  /\ Execute /\ Ready /\ Feed!Refuse
  /\ Reports(pc, "ok")
  /\ UNCHANGED <<configVars, keyVars, runVars, pc, caller, owed, launched, failed,
                 optedOut>>

(* parse_init fails: the parser has failed before.                         *)
ExecuteRefused ==
  /\ Execute /\ Ready /\ Feed!Refuse
  /\ Reports(pc, "error")
  /\ UNCHANGED <<configVars, keyVars, runVars, pc, caller, owed, launched, failed,
                 optedOut>>

ExecuteStarts ==
  /\ Execute /\ Ready /\ Feed!Begin
  /\ pc' = "connect" /\ caller' = pc
  /\ UNCHANGED <<configVars, keyVars, runVars, status, owed, launched, failed, optedOut>>

Connected ==
  /\ pc = "connect" /\ pc' = "metadata"
  /\ UNCHANGED <<configVars, keyVars, fetchVars, runVars,
                 caller, status, executes, handled, owed, launched, failed, optedOut>>

(* sxupdate_execute returns an error, and the handler has not been called. *)
ExecuteFails(why) ==
  /\ Feed!Fail
  /\ pc' = caller /\ caller' = "app" /\ Reports(caller, why)
  /\ UNCHANGED <<configVars, keyVars, step,
                 executes, handled, owed, launched, failed, optedOut>>

CurlInitFails ==
  /\ pc = "connect"
  /\ ExecuteFails("memory")
  /\ UNCHANGED <<broken, spent, httpCode, errMsg, failure>>

ReceiveMetadata ==
  /\ pc = "metadata" /\ Feed!Receive
  /\ UNCHANGED <<configVars, keyVars, runVars, callVars>>

Answer(c) == IF url \in FileUrls THEN 200 ELSE c

(* curl fails whatever the code, or the code is not 2xx.                   *)
MetadataTransferFails(c) ==
  /\ pc = "metadata"
  /\ ExecuteFails("error")
  /\ httpCode' = Answer(c)
  /\ failure' = IF Answer(c) = 401 THEN "unauthorized" ELSE "transfer"
  /\ UNCHANGED <<broken, errMsg>>

NothingScanned ==
  /\ pc = "metadata" /\ ~scanned
  /\ ExecuteFails("error")
  /\ httpCode' = 200 /\ errMsg' = TRUE /\ failure' = "unable"
  /\ UNCHANGED broken

MetadataRejected ==
  /\ pc = "metadata" /\ scanned
  /\ ExecuteFails("error")
  /\ httpCode' = 200 /\ failure' = "rejected"
  /\ UNCHANGED errMsg

(* The metadata is accepted: compare the versions, call the handler.  By   *)
(* then a fetch inside the handler has nothing left to accept.             *)
MetadataAccepted ==
  /\ pc = "metadata" /\ Feed!Offer(~noPublicKey)
  /\ step' \in {"upToDate", "newer"}
  /\ httpCode' = 0
  /\ pc' = "handler" /\ handled' = TRUE /\ owed' = owed + 1
  /\ optedOut' = noPublicKey /\ rekeyed' = FALSE
  /\ UNCHANGED <<configVars, publicKey, noPublicKey, keyState, errMsg, failure,
                 caller, status, executes, launched, failed>>

HandlerReturns ==
  /\ pc = "handler"
  /\ pc' = "app" /\ status' = "ok"
  /\ UNCHANGED <<configVars, keyVars, fetchVars, runVars,
                 caller, executes, handled, owed, launched, failed, optedOut>>

-----------------------------------------------------------------------------
(* sxupdate_resume: the handler's next() is called exactly once per offer, *)
(* by the handler or later by the application                              *)

Actions == {"none", "proceed", "abort"}

\* Mutant of Resume: the step is not looked at.
ResumeAnyStep(action) ==
  /\ InApplication /\ owed > 0
  /\ owed' = owed - 1
  /\ IF action = "proceed"
     THEN pc' = "download" /\ caller' = pc
     ELSE UNCHANGED <<pc, caller>>
  /\ UNCHANGED <<configVars, keyVars, fetchVars, runVars,
                 status, executes, handled, launched, failed, optedOut>>

\* Mutant of Resume: an offer may be answered again.
ResumeAgain(action) ==
  /\ InApplication /\ step # "none"
  /\ owed' = owed - 1
  /\ UNCHANGED <<pc, caller, configVars, keyVars, fetchVars, runVars,
                 status, executes, handled, launched, failed, optedOut>>

Resume(action) ==
  /\ InApplication /\ owed > 0
  /\ owed' = owed - 1
  /\ IF action = "proceed" /\ step = "newer"
     THEN pc' = "download" /\ caller' = pc
     ELSE UNCHANGED <<pc, caller>>
  /\ UNCHANGED <<configVars, keyVars, fetchVars, runVars,
                 status, executes, handled, launched, failed, optedOut>>

(* A step of resume.  Only fork_and_exit has an effect that lasts, and no  *)
(* failure is reported to anybody: resume returns nothing.                 *)
ResumeStep(from, to) ==
  /\ pc = from /\ pc' = to
  /\ caller' = IF to = caller THEN "app" ELSE caller
  /\ UNCHANGED <<configVars, keyVars, fetchVars, step, errMsg, failure,
                 status, executes, handled, owed, optedOut>>

(* What has been downloaded stays where it is, and is not started.         *)
ResumeFails(from) ==
  ResumeStep(from, caller) /\ failed' = TRUE /\ UNCHANGED launched

(* The urls do not merge, no file can be written, or curl does not start.  *)
DownloadImpossible == ResumeFails("download") /\ UNCHANGED httpCode

\* Mutant of DownloadFails: a failed download is tried again, for ever.
DownloadRetried(c) ==
  /\ ResumeStep("download", "download") /\ httpCode' = c
  /\ UNCHANGED <<failed, launched>>

DownloadFails(c) == ResumeFails("download") /\ httpCode' = c

Downloaded ==
  /\ ResumeStep("download", "downloaded") /\ httpCode' = 200
  /\ UNCHANGED <<failed, launched>>

\* Mutant of NotExecutable: the check that follows overwrites the error.
NotExecutableOverwritten ==
  /\ ResumeStep("downloaded", "downloaded") /\ failed' = TRUE
  /\ UNCHANGED <<httpCode, launched>>

NotExecutable == ResumeFails("downloaded") /\ UNCHANGED httpCode

Checked == publicKey # NULL /\ ~noPublicKey

VerifyFails == Checked /\ ResumeFails("downloaded") /\ UNCHANGED httpCode

(* RSA_verify can succeed only with a signature to verify.                 *)
VerifyPasses ==
  /\ Checked => signed
  /\ ResumeStep("downloaded", "launch")
  /\ UNCHANGED <<httpCode, failed, launched>>

ForkFails == ResumeFails("launch") /\ UNCHANGED httpCode

Forked ==
  /\ ResumeStep("launch", caller)
  /\ launched' = IF Checked THEN "checked" ELSE "unchecked"
  /\ UNCHANGED <<httpCode, failed>>

(* The handle is deleted once nobody will resume it.                       *)
Delete ==
  /\ pc = "app" /\ owed = 0
  /\ pc' = "deleted" /\ publicKey' = NULL /\ keyState' = Freed
  /\ UNCHANGED <<configVars, noPublicKey, rekeyed, fetchVars, runVars,
                 caller, status, executes, handled, owed, launched, failed, optedOut>>

-----------------------------------------------------------------------------
Application ==
  \/ SetCallbacks \/ ClearUrl \/ AddHeader
  \/ \E u \in HttpsUrls \cup FileUrls : SetUrl(u) \/ SetUrlNoMemory(u)
  \/ \E k \in Keys \cup {NULL} : SetPublicKey(k) \/ SetPublicKeyFromFile(k)
  \/ ExecuteNotReady \/ ExecuteRefused \/ ExecuteStarts
  \/ \E action \in Actions : Resume(action)
  \/ Delete

Library ==
  \/ Connected \/ CurlInitFails \/ ReceiveMetadata
  \/ \E c \in Codes : MetadataTransferFails(c) \/ DownloadFails(c)
  \/ NothingScanned \/ MetadataRejected \/ MetadataAccepted
  \/ DownloadImpossible \/ Downloaded \/ NotExecutable
  \/ VerifyFails \/ VerifyPasses \/ ForkFails \/ Forked

Next == Application \/ HandlerReturns \/ Library

(* The library's code keeps running; its curl calls have no timeout, so    *)
(* this includes that every transfer ends.  The application's handler      *)
(* returns.  Nothing else is required of the application.                  *)
Fairness == WF_vars(Library) /\ WF_vars(HandlerReturns)

Spec == Init /\ [][Next]_vars /\ Fairness

-----------------------------------------------------------------------------
(* Properties                                                              *)

(* Every variable has its type.                                            *)
TypeOK ==
  /\ callbacks \in BOOLEAN
  /\ url \in HttpsUrls \cup FileUrls \cup {NULL}
  /\ urlIsFile \in BOOLEAN /\ headers \in BOOLEAN
  /\ publicKey \in Keys \cup {NULL} /\ noPublicKey \in BOOLEAN
  /\ keyState \in [Keys -> {"fresh", "held", "freed", "twice"}]
  /\ step \in {"none", "upToDate", "newer"}
  /\ httpCode \in Codes /\ errMsg \in BOOLEAN
  /\ pc \in {"app", "handler", "connect", "metadata", "download", "downloaded",
             "launch", "deleted"}
  /\ caller \in {"app", "handler"}
  /\ status \in {"none", "ok", "error", "memory"}
  /\ executes \in 0 .. MaxExecutes /\ handled \in BOOLEAN
  /\ owed \in Nat
  /\ launched \in {"no", "checked", "unchecked"}
  /\ failed \in BOOLEAN /\ optedOut \in BOOLEAN /\ rekeyed \in BOOLEAN
  /\ failure \in {"none", "unauthorized", "transfer", "unable", "rejected"}

(* The handle's key is alive, every other key it was given has been freed  *)
(* exactly once, and deleting the handle frees the last one.               *)
KeyLifetime ==
  /\ \A k \in Keys : keyState[k] # "twice" /\ (keyState[k] = "held" <=> publicKey = k)
  /\ pc = "deleted" => \A k \in Keys : keyState[k] # "held"

(* Custom headers never go out with a fetch from a file.                   *)
NoHeadersToFile == pc \in {"connect", "metadata"} => ~(url \in FileUrls /\ headers)

(* An execute call reports ok exactly if it called the handler.            *)
OkMeansHandled == pc = "app" /\ status # "none" => (status = "ok" <=> handled)

(* An installer is started without a check of its signature only if the    *)
(* application had opted out of signatures when the version was offered,   *)
(* or changed the key after that.                                          *)
UncheckedOnlyByChoice == launched = "unchecked" => optedOut \/ rekeyed

(* How far the update has come, as the application sees it.                *)
Stage ==
  IF launched # "no" THEN "started"
  ELSE IF pc \in {"download", "downloaded"} THEN "agreed"
  ELSE IF pc = "launch" THEN "cleared"
  ELSE IF step = "none" THEN "waiting"
  ELSE IF owed > 0 THEN "offered"
  ELSE "over"

Contract == INSTANCE UpdateContract WITH stage <- Stage, newer <- step = "newer"

(* The handle makes at most one offer, and starts at most one installer,   *)
(* for the newer version the application agreed to and after the check.    *)
ImplementsContract == Contract!Spec

(* No step after one that failed starts an installer: neither one of that  *)
(* resume nor one of a later execute or resume of the handle.              *)
NothingStartsAfterFailure == failed => launched = "no"

(* Every call of execute, and every resume, returns to the application.    *)
CallsReturn == pc \notin {"app", "deleted"} ~> pc = "app"

(* sxupdate_err_msg, with a text for each case.                            *)
ErrMsg ==
  IF errMsg THEN "unable"
  ELSE IF httpCode > 0 /\ (httpCode >= 400 \/ httpCode < 200)
       THEN IF httpCode = 401 THEN "unauthorized" ELSE "http code"
       ELSE "unexpected"

(* "Please check your Hub credentials and try again" (api.c): an           *)
(* application that is told so can try again.  The code does not keep it:  *)
(* the body of the refusal is parsed as metadata.                          *)
TryAgainWorks ==
  pc = "app" /\ ErrMsg = "unauthorized" /\ result = "error" => ~broken
=============================================================================

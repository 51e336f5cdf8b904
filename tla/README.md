# sxupdate in TLA+

Specifications of sxupdate, the update library of this repository, the runs
that model-check them with TLC, and theorems about them that TLAPS proves.

sxupdate lives inside an application. The application creates a *handle*, tells
it where the update metadata is, which key signs the installers and what to call
when there is something to say, and executes it. The library fetches a JSON
document with curl, parses it as it arrives, compares the version it describes
with the running one, and calls the application back with an *offer*. The
application answers the offer, at once or later, and if it agrees to a newer
version the library downloads the installer, verifies its signature, and starts
it in a child process.

Paths below are relative to the root of the repository: the library's files are
under `src/`, so `src/api.c:437` is line 437 of that file. (`PROJECT.json` counts
from one directory higher, which is why its paths begin with `src/src/`.)

**The commit is in the middle of a migration.** `src/parse.c:217-218` has no `=`
between `handle->parser.yh` and `yajl_helper_new(...)`, and `parser.st`, which the
rest of the file uses, is a member of the struct in `src/internal.h`, while `yh` is
not. The specifications read this statement as what it is evidently for: a fetch
begins with a new parse state, and nothing else of the handle's parser is reset.

## 1. Inventory

| Component | State it keeps | Operations | Talks to |
|---|---|---|---|
| Update handle, `src/api.c`, `include/api.h` | url and its kind, headers, key, opt-out, callbacks, installer arguments, step, response code, error message | new, delete, the setters, execute, resume, err_msg | application (calls and callbacks), parser, curl, verification, installer start |
| Metadata parser, `src/parse.c` | parser status, bytes scanned, `got_version`, `latest_version` | parse_init, parse (chunk), the two yajl callbacks, parse_finish, parse_ok | yajl, yajl_helper, verification |
| JSON paths, `src/external/yajl_helper` | level, stack of parents, map keys | path tests, conversions of values | yajl's callbacks |
| JSON parser, `src/external/yajl` (vendored) | lexer buffer, state stack | parse a chunk, complete | yajl_helper |
| Version order, `src/version.c` | none | compare, print | handle |
| Installer url, `url_merge` in `src/api.c` | none | merge | download |
| Installer download, `src/api.c`, `src/file.c` | a file in the temporary directory, shared with every other program | search for a name, open, transfer | curl, file system |
| Signature verification, `src/verify.c` | the decoded signature | decode, load a key, verify a file | OpenSSL |
| Installer start, `src/fork_and_exit.c` | the child process | prepare argv, fork, exec; on Windows prepare the command line, CreateProcess | operating system |
| Logging, `src/log.c`; `examples/`, `configure`, make files | none | | |

Everything the library does happens in the application's thread, inside one of the
application's calls. There are no threads or locks to get wrong. What is hard is:

- **the handle outlives its calls.** It may be executed again after a failure or
  after an offer, with settings that were changed meanwhile. Little of it is reset;
  every later call works on what the earlier ones left (`src/parse.c:216-232`).
- **an offer is open for any length of time.** Its answer comes inside the handler,
  after execute has returned, or after the application has executed again (which the
  handler may do, too) or changed the url or the key; what resume reads was stored at
  execute.
- **input arrives in pieces.** A document is cut into chunks anywhere, cut short,
  followed by more text, or belongs to an error answer; each callback acts before
  anyone knows how the document or the transfer ends. It acts on a level, on parents and
  on keys that are kept in arrays of a fixed size and never cleared.
- **every step can fail**, most failures are reported to nobody (resume returns
  nothing), and the ones after a side effect leave it behind: files stay in the
  temporary directory, a failed exec leaves a second copy of the application running.
- **applications share the temporary directory**, and between finding a name unused
  and creating the file (`src/file.c:83`, `src/api.c:382`) anything may happen there.
- **edges of numbers and strings**: JSON integers narrowed to `int`, version
  identifiers wider than a `long`, strings of which one continues the other,
  byte counts in the merging of urls.

What makes the components correct: a handle offers the version its document
describes, at most once; an installer is started only for a newer version that was
agreed to and checked, with the signature of that version; keys are freed once;
calls report what happened and return; versions move upwards only and nobody is
told he is up to date when he is not; installers are downloaded from where their
document says, into a file that nobody else touches until they have run, and run only
if every step before succeeded.
`PROJECT.json` lists the hazards line by line, with the properties that cover each.

## 2. Modules

```
 MetadataContract ◄── implements ── Metadata ─► Documents ◄─ produces ─ Paths
        ▲                                       (where values belong, and in what order)
        └── provides the fetches of ─ Sxupdate ── implements ─┐
                                                              ▼
 UrlMerge ◄── Installer ── implements, for each update ► UpdateContract
 ArgList  ◄──────┘
 SemVer   ◄── Upgrades
```

`MC_<Module>` gives a module's constants their values, `<Module>Proofs` holds its
theorems; `LeastElement` and `ArgListProofs` hold lemmas that several of them use. In a module, a definition called "Mutant of X" is a plausible mistake in
the code X stands for; `PROJECT.json` pairs each property with the mutant that
breaks it.

### Metadata, MetadataContract

`Metadata` is `src/parse.c` with the part of `src/api.c` that drives it. The
server's document is a sequence of tokens: a value of a field, the end of an item,
the end of the document, text that concerns nobody, and a token at which yajl
fails. `left` counts the tokens left in the chunk being parsed.

| Action | Code |
|---|---|
| `ParseInit`, `ParseInitFails` | `sxupdate_parse_init`, as called by `sxupdate_fetch_and_parse` |
| `ChunkArrives`, `ChunkIgnored` | `sxupdate_parse_chunk`, curl's write callback |
| `ProcessValue`, `EndMap` | the callbacks `sxupdate_process_value` and `sxupdate_end_map` |
| `SkipText`, `SyntaxError` | `yajl_parse` in `sxupdate_parse` |
| `TransferFails` | curl's error, an abort by the progress callback, a status outside 200..299 |
| `NothingScanned`, `ParserBroken`, `Incomplete`, `ParseFinish` | `sxupdate_after_parse` and `sxupdate_parse_finish` with `sxupdate_parse_ok` |

A value is the pair of what `json_value_long` and `json_value_to_string_dup` make of
it, so a null or a string that becomes the number 0 is visible, and `AsInt` is the
conversion of a `long long` to an `int`. Strings keep what decides something: url,
file name, signature, pre-release. `Stripped`, `UsableUrls` and `Decodable` say
what the cutting of `.exe`, the url test and base64 do to them.

`MetadataContract` says what a fetch promises, without documents: it is refused,
fails, or makes an offer, and `spent` and `broken`, which end a handle's offers, are
never taken back.

### Paths

`Metadata` takes for granted that a value comes with the field it is for, and that an
item's values precede its end. `Paths` is where that comes from: the states of
`yajl_do_parse` (`states`), the level, parents and keys that `yajl_helper.c` keeps in
arrays of `MaxLevel` elements, and the matching of paths by the callbacks of `parse.c`.
Any token may come at any time; what yajl's state does not allow ends in `ParseError`.

| Definition | Code |
|---|---|
| `Scalar`, `StartMap`, `StartArray`, `MapKey`, `Colon`, `Comma`, `EndMap`, `EndArray`, `ParseError` | the tokens in `yajl_do_parse`, each with the callback it makes into `yajl_helper.c` |
| `Behind` | one round of the loop of `got_path_aux`, which compares keys as prefixes |
| `Place`, `Target` | the field `sxupdate_process_value` knows a value by, and what it stores |
| `ItemEnds` | the condition under which `sxupdate_end_map` sets `got_version` |

A document is one history variable, `nesting`: the arrays and maps that are open and the
key each is at. Keys are words, and `lbrace` and `lbracket` are the two characters that
structure a path, since a key may contain them: `"items["` passes for two levels. The
properties about fields are stated for documents without such keys (`odd`); the code's
answer to the others is modelled as it is.

`Documents` is what the two modules share: documents as sequences of callbacks, and
`WellFormed`, the order `Metadata` assumes of them. `DocumentsProofs` adds to `Paths` the
sequence of callbacks a text leads to (`document`), as a history variable, and shows that
it is well formed.

### Sxupdate, UpdateContract

`Sxupdate` is the handle: each setter, `sxupdate_execute` step by step,
`sxupdate_resume` step by step, and deletion. `pc` says whose code runs: the
application's (`app`, `handler`), the fetch (`connect`, `metadata`) or the resume
(`download`, `downloaded`, `launch`). Execute and resume may be called by the handler or
by the application later, and `caller` says which they return to. The application may do
anything the header allows whenever its own code runs; in particular it may execute
again while an offer waits, inside the handler or after it.

Two setters lose what they hold when memory is short, and say ok: `SetUrlNoMemory` has
freed the old url by then, and `AddHeader` stores the NULL that `curl_slist_append`
returns over the list. A step of resume that fails (`ResumeFails`) returns without
starting anything; `failed` remembers that one did.

Fetching is the actions of `MetadataContract` (`Feed`): `ExecuteStarts` is its
`Begin`, `ExecuteRefused` its `Refuse`, and so on, conjoined with what `api.c` adds, so
that the fetcher's promise is part of the module and no property of it.
Keys are memory, `keyState`: given to the handle, freed, freed twice.

`UpdateContract` is what the application may rely on, in two variables: the stage of
the update (`waiting`, `offered`, `agreed`, `cleared`, `started`, `over`) and whether
the offer was newer. `Stage` maps the handle's state to it.

### SemVer, Upgrades

`SemVer` is `src/version.c` as a pure function and beside it the precedence of
semver.org, which the code names as its reference (`Lower`). An identifier of a
pre-release is its kind and its rank. `VersionCmp` returns the *set* of results the
comparison may return: one, unless it has run past the end of the shorter of two
pre-releases (`RunsOff`), where `version_prerelease_cmp` reads what follows the string
in memory, overwrites a dot it finds there, and may return anything, if it returns.
`Strtol` saturates at `LongMax`.

`Upgrades` uses it as `sxupdate_execute` does: a publisher replaces the metadata, the
application checks (with or without enough memory for the copies the comparison
makes) and updates. `CheckCrashes` is the comparison that does not return: the
application starts again, with a new handle. The order only shows in such histories.

### UrlMerge, ArgList, Installer

`UrlMerge` is `url_merge` on urls as sequences of segments, with the number of
slashes that are left behind the scheme, and beside it `RelativeTo`, the usual
meaning of a relative url. Segments may be empty. `MergeFile` keeps a file url up to its
last slash only if that lies beyond the byte behind what is kept anyway
(`src/api.c:337`); `Adjoins` is the case where it does not: `file:///dir//x` is cut to
`file:///dir/`. `MergesRight` names the cases in which the result is that of `RelativeTo`. `ArgList` is the linked list of installer arguments: the
`next` field of each node and the slot where the next node is put (`WithArg`).

`Installer` is `sxupdate_resume` at a finer grain than in `Sxupdate`, for several
applications that share a temporary directory: one action for each system call that
another process may see or overtake.

| Action | Code |
|---|---|
| `SetUrl`, `AddInstallerArg`, `Offer` | what the application does with the handle up to the answer |
| `Resume`, `MergeFails` | `sxupdate_resume`, `url_merge` |
| `NoPath`, `NameTaken`, `NameFree`, `SearchFails` | the search of `sxupdate_get_installer_download_path` for a name no file has; a directory's name passes as unused |
| `OpenFails`, `Open`, `TransferFails`, `TransferEnds` | `sxupdate_download` |
| `Rejected`, `Verified` | chmod and `sxupdate_verify_signature` |
| `ForkFails`, `Fork`, `Exec`, `ExecFails` | `fork_and_exit`: the child later becomes the installer, or fails to and goes on in the application's code |
| `CreateProcess` | the Windows branch, with the command line of `prepare_cmd` |
| `OtherProgram` | the rest of the system, which creates files and directories where there is nothing |

`NameFree` and `Open` are the two halves of the race. `TransferEnds`, a transfer that is
a success to curl and the server, leaves the file `whole` or `short`, since nobody looks
at what fclose returns or at the size, and as it was if somebody else truncated it since.
`Verified` is what tells them apart, where signatures are checked. The platform, `windows`, is chosen at the
start. `prepare_cmd` quotes the name only if there are arguments; `Program` is what
CreateProcess makes of an unquoted name with a blank in it, as Windows documents it: name
`i` is name 0 followed by ` (i)`, so the file of name 0 is found first. A handle offers
one version, so each update has a handle of its own, whose url and arguments begin empty.

`Stage` maps an update of an application to `UpdateContract`: two grains of resume,
`Sxupdate` and this one, keep the same promise.

## 3. What the runs show

Passing runs:

| Run | Distinct states | Bounds |
|---|---|---|
| `metadata` | 37 287 | 9 documents, 3 fetches, `INT_MAX` 7, `LLONG_MAX` 63 |
| `paths` | 1 194 976 | 4 levels kept, documents 5 deep, 7 keys |
| `sxupdate` | 825 366 | 3 executes, 2 keys, an https and a file url, codes 0, 200, 401 |
| `upgrades` | 8 976 | 16 releases, `LONG_MAX` 10 |
| `installer` | 831 036 | 2 applications, 2 updates each, 2 names, 2 arguments, both platforms, an https and four file urls, signatures checked; one url other than the usual at a time (`OneUnusualUrl`) |

- `metadata`: `AcceptedOnce`, a handle accepts one document in its life;
  `AcceptedAsSaid`, what it accepts is what the first item of its document says,
  however it was cut; `NumbersAsWritten`, its numbers are the document's wherever an `int`
  holds them, and none of them was negative there; `DecodedIsAccepted`, the decoded signature belongs to the
  accepted version; `ImplementsContract`, the refinement of `MetadataContract`.
- `paths`: `HelperFollowsNesting`, the helper's level, parents and keys are those of the
  document however deep it has been, and nothing of an ended map is left where a later
  one looks; `ValueGoesWhereNamed`, a value is stored exactly in the field its place
  names, and only before an item has ended; `GotVersionAtItemEnd`, nothing but the end of
  an item ends the reading; `ItemEndsAfterItsValues`, in a complete document an item ended
  after the last value of a field, which is what `Metadata` assumes (`WellFormed`).
- `sxupdate`: `ImplementsContract`, the refinement of `UpdateContract`;
  `NothingStartsAfterFailure`, no installer is started once a step of its update has
  failed, whatever is called on the handle then (`UpdateContract` alone would allow a
  download whose failure is overlooked); `UncheckedOnlyByChoice`, an installer starts unchecked
  only if the application had opted out of signatures at the offer, or changed the key
  after it; `KeyLifetime`; `NoHeadersToFile`; `OkMeansHandled`; and, under fairness,
  `CallsReturn`.
- `upgrades`: `NeverDowngrades`, for any versions whose comparison ends inside both
  (`Apart`), those with leading zeros or numbers too large for a `long` included: such a
  version may be overlooked, but the application is never sent back. `UpToDateIsTrue`
  needs a fetched version whose numbers fit a `long` besides. The releases of the run
  include all kinds, so the conditions matter.
- `installer`: `ImplementsContract`, each update of each application is one that
  `UpdateContract` allows, whatever the others do; `OthersKeepOff`, a file that was
  downloaded is not emptied until the installer has run, unless two applications found
  its name unused at once; `SignedIsWhole`, with the same exception an installer that is
  started with its signature checked is the whole file, also after transfers that left it
  short, and stays it; `RelativeWhereRight`, an installer url leads where the schema says
  in exactly the cases of `MergesRight`; `GivesUpOnlyWhenFull`, the search for a name ends without one only when
  all are taken; `ArgsInOrder`, the list holds every argument once, in order.

Runs that end in a violation, each of a statement the repository makes (quoted in
`PROJECT.json`, `findings`):

| Run | What happens |
|---|---|
| `metadata_mixture` | A fetch is interrupted, the next succeeds, and the offered version has strings of the first document: `sxupdate_parse_init` resets the numbers only |
| `sxupdate_retry` | The body of a 401 that is not JSON breaks the parser for good: the user is told to try again, and no later execute contacts the server |
| `upgrades_prefix` | `alpha` is offered as newer than `alpha.1`, depending on the bytes behind the end of the shorter string |
| `installer_url` | `url_merge` has its two prefixes the wrong way round: `https://host/dir/appcast` and `/dir/installer` become `https:/dir/installer` |
| `installer_race` | Two applications find one name unused; the second empties what the first downloads |
| `installer_fork` | `fork_and_exit` returns 0 before the child has become anything; when exec fails there are two copies of the application |
| `installer_windows` | The first update leaves `installer` behind; the second is downloaded and checked as `installer (1)`, and, started without arguments and so without quotes, CreateProcess runs `installer` |

Four more surprises follow from one line each and have no run. `"major": null`, and 2^32,
read as 0 (`src/parse.c:64`). What fclose returns is ignored (`src/api.c:422`) and the
size of the file is not compared with the document's (`src/api.c:447`, "TO DO"): without
signatures a file that was not written to its end is started (`Signed` FALSE in
`Installer`). The url is merged as it is when the offer is answered, which need not be
the one the document came from (`src/api.c:364`). `err_msg` is set once and never cleared, so it hides the
reason of every later failure (`src/api.c:505`; `ErrMsg` in `Sxupdate` says so).

### Why the bounds are enough

- Five levels are one more than the four kept, and the fields are on levels 3 and 4: a
  document can go deeper than the arrays and come back. The keys are one for each kind of
  place, one that names no field anywhere, and two with brackets, one of which spans
  the whole path of an object.
- Three fetches reach every way a handle's past can matter: one to leave something
  behind, one to find it and leave more, one after that. The documents cover a signed
  and an unsigned version, a second item, a repeated key, a negative number,
  numbers wider than an int, a bad signature, a bad url, no item, nothing, and a syntax
  error. Every cut into chunks is
  explored.
- With `INT_MAX` 7 and `LLONG_MAX` 63, 17 wraps to 1 as 2^32 + 1 does, 8 to -8, and -9
  would be 7; with `LONG_MAX` 10, 11 and 12 are numbers strtol cannot tell apart.
- Two keys make the replacement of one by another; a third would be freed as the second
  was. Three executes allow one before, one with and one after the offer. 200 is
  success, 0 no answer, 401 the code that has a message of its own; the run about
  messages adds a redirect.
- Two applications are what a race takes, two updates what it takes to meet one's own
  earlier file, and two names make a first, a last, and none left. Two arguments make the
  slot leave the head of the list once; `ArgList`'s next step is the same again. Of the
  urls, the file urls have a host or none, one directory or more, none at all, and an
  empty one right behind what is kept. What a url is matters to the merge only, so an
  application has an unusual one only while the other is not updating and nobody has
  arguments (`OneUnusualUrl`, a constraint of the run). Signatures are checked; without
  them `Verified` has no condition, and `SignedIsWhole` says nothing. The
  applications are interchangeable, and `installer` uses that symmetry: it checks
  invariants and properties of steps only, each quantified over all applications.
- Deadlock is checked in `upgrades`. The other specifications do stop: at the bound on
  fetches or updates, or with the handle deleted.

### Fairness

Only `Sxupdate` states fairness, for `CallsReturn`. `WF_vars(Library)`: the library's
code runs in the application's thread and does not wait for anyone but curl. It sets
no timeout, so the assumption includes that curl's transfers end; when the peer keeps
a connection open for ever, execute does not return, and no property here says so.
`WF_vars(HandlerReturns)`: the application's handler returns; how often it may execute
the handle before it does is bounded by `MaxExecutes`. Nothing is assumed of the
application otherwise: it need never answer an offer, execute again or delete the handle.

## 4. What is proved

For every value of the constants that satisfies the modules' assumptions: any documents,
strings, keys, urls, releases, number of applications and every bound. Every safety
property of a passing run is a theorem. Beyond those, most findings have a theorem that
says when the trouble cannot come, so that the counterexample of a run is not just an
example (the table at the end).

The provers cannot use an induction principle, which takes a predicate as a parameter.
`LeastElement` stands in for it: a set of numbers with a member has a least one. Where a
proof on paper would go by induction, these take the least number at which something
fails, and unfold a recursive function once, there.

`MetadataProofs`. `AcceptedAtMostOnce` and `DecodedSignatureIsAccepted` are not inductive.
The argument: acceptance needs version numbers; a fetch starts by forgetting them; they
come back only from values read before `got_version` is set (`StaleFetchIsEmpty`); and in
a complete document an end of item stands between its values and its end
(`NumbersWereRead`, `NoItemEnded`). So a fetch that is accepted began with `got_version`
clear and set it (`AcceptedIsStale`), and no later one can be. `MetadataImplementsContract`
maps each action to a step of `MetadataContract` or a stutter, with the same invariant.
The assumption used beyond types is `WellFormed`: in a document, a value of an item
comes before the end of that item, and that before the end of the document, which is
yajl's order of callbacks: `DocumentsAreWellFormed` shows that it holds.
`AcceptedIsAsSaid` needs `SaidInv`: a number holds what was said last in the document so
far (`SaidSoFar`), a string that was mentioned likewise, and once an item has ended nothing
said after it counts. `NumbersThatFitAreKept` adds what the conversion to `int` does to
the last number said (`LastExists`, `AsIntIdentity`): an accepted number is one of the
document's, and the document's number itself wherever that fits.
`CompleteDocumentsDoNotMix` and `FirstFetchDoesNotMix` say when `AcceptedIsTheDocument`,
which a run refutes, holds after all: when every document mentions every string, or the
handle has fetched once.

`PathsProofs`. `HelperFollows` is inductive but for the shape of yajl's stack: a state
that expects something of a map stands over a map (`ParserFollowsNesting`), so that the pop of a state
and the fall of the level go together, also above `MaxLevel`. With it, matching a path
against the helper's arrays is matching it against the nesting, provided no key has a
bracket (`ValueGoesWhere`, `GotVersionCorrect`): then a key passes for exactly one
level. `ItemEndsAfter` follows because a value of a field lies inside an item, whose end
yajl demands; it counts the values that come too late to be stored, as `WellFormed`
does. All five are for any depth, any keys and any `MaxLevel` from 4 on.

`DocumentsProofs`. `DocumentsAreWellFormed` discharges the assumption that `Metadata` makes
of its documents, for texts none of whose keys has a bracket: a value without an end of an
item after it is in the document only while `unended` says so (`DocInv`), and at the
end of the text, by `ItemEndsAfter`, it does not. A key with a bracket can break it: the
assumption is one about the publisher there.

`SxupdateProofs`. The actions are grouped by the part of the handle they change, so that
each invariant is shown against the few that can disturb it.
That the handle's steps are the fetcher's, or leave it alone (`FeedStep`), gives
`SpentForGood`: after an offer there is never another. From that, `OfferInv` (an
offer uses the handle up; one answer at most is owed; resume works only for the newer
version and after its answer) gives `SxupdateImplementsContract`, and
`OneInstallerForTheNewerVersion`, which says of the handle's own variables that what has
been started stays as it is. `NoSecondChance` is the same for failures: a broken parser,
or an item that was read and not offered, ends the offers of a handle.
`FailureIsFinal` is `NothingStartsAfterFailure`: after a failed step no answer is owed,
resume has returned, and `OfferInv` lets there be no second offer (`FailedInv`).
`UncheckedIsAChoice` needs `ChoiceInv`: from `sxupdate_ready` on, the handle has a key or
the application has declined one, and after the offer only a change of the key alters
it. `KeysAreFreedOnce`, `OkAlwaysMeansHandled`, `HeadersNeverGoToFile` and `TypeCorrect` are
the other properties of the run. `CallsAreBounded` is what can be proved of
`CallsReturn`: the count `StepsLeft` goes down with every step of the library that
changes anything, and is zero exactly when the application's code runs. What it leaves to
TLC is that such a step is enabled until then, and taken.

`UpgradesProofs`. `ComparisonIsPrecedence`: for any two versions whose comparison ends
inside both, a positive result means that semver.org ranks the first higher; if it does,
and its numbers fit a long, only a want of memory makes the result another. The loop stops
at the first place where the pre-releases differ, and that place lies inside both
(`StopsInside`), so the first difference decides for both orders. For the rest,
`ComparisonRunsOffExactly` says which versions they are: those that differ only in their
pre-releases, of which one continues the other. What follows then is left open, and so
nothing is said of it. With the reference being an order (the lemma `PrecedenceIsAnOrder`)
the comparison is a proper three-way one (`ComparisonIsThreeWay`). `UpToDateIsAlwaysTrue`
and `VersionsMoveUp` follow by an invariant on what a handle remembers of its last check,
and `NeverSentBack` turns the single steps into histories: with releases that are apart,
whatever their numbers, a version that was left is never run again.

`InstallerProofs`. `InstallersAreLeftAlone` is `OthersKeepOff` for any number of
applications and names. Its invariant says what a race looks like before it does harm: two
applications about to open one name raced for it (`OpenersRaced`); so did one about to
open a file that another has opened (`LateOpenerRaced`), and one whose file was emptied
while it wrote (`WriterRaced`). `SignedInstallersAreWhole` adds that what the signature
cleared was whole at that time. With one application nobody races
(`AloneInstallersAreWhole`). `DownloadsFromWhereMergedRight` rests on `MergedExactly`,
which is about all urls, empty segments included: the merge gives what a relative url
means in the cases `MergesRight` names, and something else in all others.
`ArgumentsStayInOrder` is the shape of the list, node `i` before node `i + 1` and the slot
behind the last (`Linked` in `ArgListProofs`), which every added argument keeps
(`WithArgLinked`), and the walk over a list of that shape (`WalkInOrder`): a first node,
counted from the end, at which it went wrong would have a wrong successor.
`SearchIsExhaustive` says that every name below `try` was a file's and still is.
`InstallerImplementsContract` needs that a child belongs to an update that is over
(`ChildrenOver`): then each step moves the stage of one update of one application, and
leaves every other stage alone.

| Run that ends in a violation | Theorem beside it |
|---|---|
| `metadata_mixture` | `CompleteDocumentsDoNotMix`, `FirstFetchDoesNotMix`: documents and handles without it |
| `sxupdate_retry` | `NoSecondChance`: it lasts as long as the handle |
| `upgrades_prefix` | `ComparisonRunsOffExactly`: the versions it takes; `ComparisonIsPrecedence`, `NeverSentBack`: right for all others |
| `installer_url` | `DownloadsFromWhereMergedRight`: the exact cases, while the url stays |
| `installer_race` | `AloneInstallersAreWhole`, `InstallersAreLeftAlone`: the harm takes a second application, and a race |

Model-checked only: `CallsReturn`, which needs fairness and ENABLED, out of the provers'
reach. The violations are counterexamples and need no proof.

## 5. What is not modelled

- Title, link, description, date, build metadata, type and length: stored by the
  assignments that are modelled, and read by nobody in the library.
- Messages, logging and verbosity. `ErrMsg` models which message is chosen.
- yajl's lexer: how characters become tokens, strings are decoded, and a token that the
  end of a chunk cuts in two is resumed. yajl is vendored; what matters of it is its
  grammar (`Paths`), its error, which lasts, and its refusal of documents cut short. One
  value the lexer yields when it is flushed is in `Incomplete`.
- A map key for which there is no memory: `yajl_helper` stores NULL for it, and the next
  match measures it with strlen.
- What the comparison of versions does past the end of a string, beyond its result: the
  byte it may overwrite (`src/version.c:12`) and whatever that byte was for. The process
  goes on or ends (`CheckCrashes`).
- What `yajl_helper.c` reads beyond its arrays while a document is deeper than
  `max_level` (lines 191 and 274): each of these conditions compares the level as well, so
  the value decides nothing, but the read is undefined.
- OpenSSL and curl: they succeed or fail, and curl comes to an end (see Fairness). A verification can succeed only with a signature
  (in `Sxupdate`) and of a whole file (in `Installer`, when signatures are checked).
- A key that the application hands over twice. Each key given to `sxupdate_set_public_key`
  is one the library was not given before, as its ownership passes with the call: the same
  key set again would be freed and kept (`src/api.c:97-104`).
- The headers of the download: `src/api.c:393` sends the headers that were set along with
  the request for the installer, whatever its url; `NoHeadersToFile` is about the
  metadata's.
- Deleting the handle or clearing its url while an offer waits: the application is at
  fault there. A strdup that fails in `set_url` while an offer waits has the same effect
  and is left out with it.
- What the second copy of the application does after a failed exec, and the removal of
  files by others. An open that fails for whatever reason is `OpenFails`.
- The harm to other programs: a file of theirs that appears between the search for a name
  and the open is emptied and becomes the download (`OtherProgram` and `Open` do this),
  and no property is about files that are not installers.
- On Windows, a temporary directory whose own path has a blank: an unquoted command line
  then tries more programs than name 0.

## 6. Plan

Done: the fetch and its parser, the paths it depends on, the handle, the order of
versions, and the installer with its arguments on both platforms; `UpdateContract` is
implemented by the handle and by each update of the installer; every safety property of
a passing run is a theorem, and most violations have one that says how far they reach.
What could follow:

1. The incremental lexer of yajl as far as chunk boundaries go: the same tokens for
   every cut of a document, which `Metadata` and `Paths` assume.
2. A proof that `Sxupdate`, with its one step of download, is implemented by `Installer`
   with its many; both implement `UpdateContract`, but neither is shown against the other.

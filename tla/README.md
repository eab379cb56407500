# A TLA+ model of qubit-fs-local

`qubit-fs-local` is the local-disk provider of the `qubit-fs` facade.  It sits
between the facade, whose service-provider interface (SPI) it implements, and
the native engine `qubit-local-files`, which does the I/O.  What the crate owns
is the translation in both directions: logical paths and portable options on
the way down; outcomes, failure states and effects on the way up; and the state
that has to survive between calls, namely sessions, handles, limits and lazily
made controls.  Its correctness is that nothing gets lost in that translation,
above all when a call fails half way, is retried, or runs beside others.

The modules here model that translation and state.  The facade and the engine
are external: the engine is a nondeterministic choice among the answers that
keep its documented promises (it may fail at any point for any reason, but it
obeys the options it is given and what it says of its own effect is true), and
the facade is the caller.

## Inventory

| component (under `src/src/`) | state | operations | hard behaviour | status |
|---|---|---|---|---|
| temporary sessions, `spi/local_temp_resource_spi.rs` | slot with the native resource, limits the resource holds | create, persist, keep, cleanup, drop | a publication that fails after it took effect; a lost source; limits changed meanwhile | `TempResource` |
| cleanup control, `local_temp_cleanup_control.rs` | limits under a lock, shared by clones | `set_limits`, snapshot | a snapshot that is stale when used | `TempResource`, `Provider` |
| writer sessions, `spi/local_file_writer_spi.rs` | native writer or none, recorded abort outcome | open, write, flush, commit, abort, drop | retryable against terminal failures; abort after commit; competing writers | `FileWriter` |
| registry provider, `registry/local_file_system_provider.rs` | retained file system, `OnceLock` of the control | host, rooted, clone, `temp_cleanup_control`, `create_configured` | racing first uses; a root path that changes | `Provider` |
| namespace operations, `spi/local_file_system_spi.rs` | none of their own; the disk is shared | `try_copy`, `rename`, `create_directory`, `delete_file`, `delete_directory` | partial effects, retries, concurrent callers | `Namespace` |
| option, outcome and error mappers, `spi/*_mapper.rs` | none | pure conversions | a requirement softened, an effect understated | inside the modules above |
| readers, `spi/local_range_reader.rs`, `spi/local_random_access_reader.rs` | one open handle, its position, what is left of the window | `open_reader`, read, `open_random_access_reader`, `read_at` | offsets beyond `i64::MAX`; a file that changes while it is read; a call after a failed one | `ReadSession` |
| directory stream, `spi/local_directory_stream_spi.rs`, `spi/internal/listing_options.rs` | native walker | `list`, `next_entry` | filter against entry limit; a tree that changes; errors in the middle of a walk | `Listing` |
| resource policy and limits, `local_*_limits.rs`, `local_resource_policy.rs` | immutable values | constructors, `with_*`, conversion to native defaults | the tighter of two budgets must win; families must not be mixed up | `FileSystems`, `Listing` |
| constructors, `local_file_systems.rs` | a process-wide counter for generated identities | host, rooted, with and without a control | concurrent and failing constructions | `FileSystems`, `Provider` |
| file-URI codec, `registry/local_file_uri_path.rs` | none | `decode`, `canonical_uri` | round trip, bytes that are not UTF-8, encoded separators | `FileUriPath` |
| path mapper, `spi/local_path_mapper.rs`, and temporary path projection, `spi/local_temp_path_projection.rs` | the requested and the native parent of a temporary resource | `native`, `logical`, `project` | links in the parent that others turn; relative parents | `TempPaths`, `Listing`; elsewhere as a choice (`mappable`) |
| inventory registration, constants | none | - | - | not modelled |
| examples, benches, fuzz targets | none | - | - | not modelled |

The components meet in three places.  The registry provider owns a cleanup
control and gives it to every file system it resolves.  The file system creates
temporary sessions and hands each directory session a clone of that control.
Writers, sessions and namespace calls of one file system, and other programs,
share the disk.  `CleanupFamily` composes the first two of these.

## Modules

Each component is one module with its actions and properties, an `MC` module
with the definitions that TLC needs and, where something is proved about it, a
`Proofs` module.

### `TempResource` (contract: `TempContract`)

A session belongs to one owner (`&mut self`) but runs beside other sessions,
threads that call `set_limits`, and other programs.  Each call is two steps,
so that any of these can come in between.

* `BeginCreate`, `CreateFails`, `CreateReturns`: `create_temp_file` and
  `create_temp_directory`.  A creation whose native path has no logical form
  fails late, and the native resource it had made is dropped.
* `BeginPersist` / `EndPersist`, `BeginKeep` / `EndKeep`: the limits are
  refreshed, the authority is checked before the target is looked at
  (`RequireOwned`, `TargetFailure`), the resource is taken out of the slot;
  then the engine acts, the slot is restored from the error
  (`RestoredSlot`) and the report is made (`PersistFailureState`,
  `PersistEffectState`, `MapPersistOutcome`, `MappedKind`).
* `BeginCleanup` / `EndCleanup`, `BeginDrop` / `EndDrop`.  `RefreshedCap` is
  `refresh_directory_cleanup_limits`.
* `SetLimits`, and the environment: `AddEntry`, `Displace`, `Replace`,
  `ChangeName`.

The state follows the fields: `slot` is `resource.is_some()`, `cap` the limits
inside the native directory, `control` the `cleanup_control`, `limits` the
content of the lock.  `source`, `disk`, `size`, `names` belong to the engine
and the disk.  `published`, `truth`, `told` and `window` are history: what
really happened, what the reports imply, and which limits were in force during
the call.  The four cleanup budgets (depth, entries, pending-path bytes,
deadline) behave alike and are one entry count; the check of it (`Admits`) is
the engine's.

The engine says of a cleanup that fails any of what an error can carry: no
effect, `Unchanged`, `PartiallyApplied`, `Applied` or `Indeterminate`
(`NativeEffectState`), under any of its kinds, `Indeterminate` included.  A fault
in the middle may leave any part of the tree, with the source kept or lost
(`BrokenRemovals`).  What it says is true (`TrueOfRemoval`), and where it says
`Indeterminate` it does not know: the history `truth` records both, as `removed`
and `known`.  `told` is the set of authorities that the reports to an owner admit.
A definite failure state names one; a cleanup error of the `Indeterminate` kind
adds that the source may be lost, since the kind alone does not tell a lost
source from an uncertain removal.

`TempContract` says what the owner relies on: it publishes at most once, only
while it holds the source, and authority that is given up is never regained.

### `FileWriter` (contract: `WriterContract`)

Writers with one destination, in the modes create-new, create-or-replace and
append.  `slot` is `writer.is_some()`, `terminal` is `terminal_abort_outcome`.
`Commit` keeps the writer that a failure hands back, or records the outcome
for a later abort; `AbortTerminal` takes that record; `CommitRefused` is the
rejection of a terminal session.  `ChangeTarget` and `ReplaceStaging` are other
programs.  `verdict` and `aborted` are history.  `WriterContract` is a session
that is open or has ended with one final and true verdict.

A `commit` on a terminal session answers with the state `NotPublished` and no
effect even after a success.  That is a rejection of the call and not a claim
about the destination, and the properties treat it so: the facade relies on
the missing effect.

### `Namespace`

Clients call `try_copy`, `rename`, `create_directory`, `delete_file` and
`delete_directory` concurrently.  `Call` converts options and paths (in the
handler's order) and may refuse; `Return` is the engine's step followed by the
translation of its answer.  A client repeats its request only when it was told
that nothing changed (`Retry`), which is what the effect states are for;
`Interfere` is another program.  A tree counts for two entries, so that a copy
or a delete can stop in the middle.  `Rejection`, `OptionsOf`, `EffectState`,
`CopyFailure` and `Already` are the mappers.  A copy's source mode, budgets and
`create_parent` only add reasons for the engine to fail and are left out.

### `Provider`

Threads build, clone and use providers.  `ReadCell`, `ClaimCell` and `FillCell`
are `OnceLock::get_or_init`: one thread finds the cell empty and claims it,
others wait, the winner stores the control.  `StartClone` / `FinishClone`
initialise the control of the original first.  `StartResolve` decodes the
configuration before it touches anything; `ResolveHost` and `ResolveRooted`
build or clone the file system.  `ChangeRoot` replaces the directory at the
root path.

### `Listing`

One listing, from `list` to the end or the drop of its stream.  `List` refuses
a request (`Rejection`, or a path with a component that has no native form) or
converts it (`NativeOptions`) and opens a walker.
`Ask` is the caller in `next_entry`; `Step` is one turn of the loop there: an
entry has no logical form (`Unmappable`), is refused by the filter (`Skip`), or
passes it (`Passes`) and is returned (`Deliver`), unless the path it would be
returned under cannot be made (`Unplaced`: the later conversions of
`next_entry`, which may fail for any entry); `End`, `Exceeds` and `WalkFails` are
the walker's last words.  `Churn` is other programs, which make and remove entries
while the stream is read.  Who counts what is kept apart: `walked` is what the
walker yielded, under the budgets of the request and of the provider's policy
(`Tighten`, external), and the entries in `returned` are counted by the facade
(`CountLeft`, external), which ends a stream with one entry too many (`Overrun`).
`ForwardedEntries` is the rule that a request's entry budget goes to the walker
only without a filter.  Names are sequences of letters and `Matches` works on
text, as the code does, so that a sibling whose name begins like the filter is
a case.  The walker is external: it yields each directory before what is in
it, in any order, and follows links as the native policy says; where the code
passes no policy it is left open whether the walker of a host file system
follows a link.  `steady` is history: the entries that were there all along.

### `ReadSession`

Range readers and random-access readers on one path.  `OpenReader` is
`open_reader` with `LocalRangeReader::new`, whose decision about offsets that no
native position can hold is `BeyondNativeRange`, `Allowance` and `Positioned`;
`Read` is one read through `LimitInput`; `OpenRandomAccessReader` and `ReadAt`
are the other kind.  `Replace` and `Resize` are other programs that name
another file, or grow and truncate one.  A byte is named by its object and
position, so that a delivered byte says where it came from.  Offsets and
native positions keep their two widths, `UMax` for `u64::MAX` and `IMax` for
`i64::MAX`; a file whose metadata claims a length that its data does not have
(`Odd`) stands for special files.

### `FileUriPath`

The codec itself, as operators: `DecodeUriBytes`, `CanonicalizeUriBytes`,
`DecodeComponent`, `Decode` and `CanonicalUri`, with a client that writes a URI,
resolves it and then resolves the canonical URI it was given (`Resolve`, with the
end of `decode_config`: a path that is not absolute is refused).  Each loop of the
code is a `Scan`: how far a turn moves on and what it pushes, as functions of
what is left.  A byte is the pair of its halves, an escape has a digit for each,
and the character table is a constant: which bytes are scalars, which scalars
have longer encodings, the digits of both cases, controls and pchars.
`std::str::from_utf8` and `str::split` are external: the scalar at the head of
the bytes, and what lies between the slashes.

`Path::parse`, through which `decode` makes its path, belongs to `qubit-fs` and is
modelled by what it may answer (`ParsePath`).  A path in normal form, absolute
and without dots and empty components, is taken as it is.  Any other absolute
path may be refused or resolved to its normal form (`Normal`), and a relative one
stays relative or is refused.  `Decode` is therefore a set of paths.  The canonical
URI is made of the path that came out, and passes `Uri::parse` (`ParseUri`: the
characters and escapes that RFC 3986 allows in a path), so that both refusals of
the facade are there.

The properties are stated against
`WellFormed`, `Spells` and `UriOf`, which say what a URI means by the positions
of its percent signs, without following the loops.  `MCFileUriPath` is a table
of sixteen bytes, with two bits to a half and a member of every class of bytes
that the code tells apart.

### `FileSystems`

Threads derive policies (`Bounded` with a limit of its own for each recursive
family, `With`, `WithReopen`) and build file
systems (`Host`, `Rooted`, `RootedWithId`, then `Open` and `Finish`, or `Fail`
at any point).  A policy is a value: what a construction copies into the native
defaults (`NativeDefaults`) is what requests of that file system are tightened
by (`Effective`).  Each family has its own mapping: `ListLimit` and `CopyLimit`
combine the budgets of request and file system (`Tightened`, which is the
engine's), `DeleteLimit` has those of the file system alone, and opens and
temporary names take what is kept beside them.  `CounterAfter` is the `fetch_add` of the identity counter,
which happens before anything can fail.  The budgets of one family are one
number for the work and one for directory handles.

### `TempPaths`

The paths that a temporary resource is known by.  `Create` resolves the parent
(`NativeTempParent`) or refuses it: the host refuses relative parents, any parent
may have a component without a native form, and a rooted file system may not
know its current directory.  `NativeCreate` is the engine at work in the directory it
found there, `EndCreate` and `Keep` re-express native paths below the parent as
the caller spelled it (`Project`, `LogicalKeepTarget`).  `Retarget` turns the
link.  `TempResource` has the same calls with everything but the paths.

### `CleanupFamily`

`CleanupFamily` extends `Provider` and instantiates `TempResource` over the same
set of controls.  Limits are set through any control that a family of clones has
handed out, and directories are created through any of its file systems;
`setting` and `inForce` record what the owner of the family would say is in
force.  `FamilyInv` links the two halves: what a family was last given is what
its control holds, and a directory was made under the control of its family.

## What TLC checks

| run | instance | checks |
|---|---|---|
| `temp_session` | one resource with a control or without, budgets 0 and 2, a tree of up to 3 entries, one I/O fault | `EffectTruthful`, `AuthorityReported`, `HandleRetained`, `SessionInv`, `LimitsInForce`, `ContractSpec` |
| `temp_retry` | one resource, one control, fair owner | `Recovery` |
| `writer_session` | two writers, at most one buffered byte | `PublicationTruthful`, `RetryHonoured`, `AbortRemembers`, `WriterInv`, `VerdictFinal`, `ContractSpec` |
| `provider_race` | two threads, providers, controls and directories; every configuration | `TypeOK`, `OneControl`, `RootKept`, `FallbackOnlyForeign` |
| `provider_live` | the same with sound requests and one directory | `CallsEnd` |
| `namespace` | two clients, two paths, one file and one tree; copies, renames, creations and deletions; two tries | `EffectTruthful`, `GuaranteeKept`, `AtMostOnce`, `CallInv`, `NoClobber` |
| `listing` | 1152 requests of both scopes, three trees, four policies; other programs change the tree under some of them; fair `next_entry` | `NothingLost`, `PathsReusable`, `BudgetErrorsEarned`, `CeilingsHold`, `LinksContained`, `NextEntryReturns` |
| `reading` | one session, two files, `i64::MAX` = 3 and `u64::MAX` = 5, three reads | `WindowExact`, `NotCutShort`, `ReadAtExact` |
| `uri` | all paths of up to three tokens, absolute or not, with dots and empty components; Unix and Windows | `RoundTrip`, `RefusedExactly`, `BytesKept` |
| `file_systems` | two threads, two file systems, three constructions, two derivations, one control | `GeneratedIdsUnique`, `LimitsOfItsOwn` |
| `temp_paths` | two directories and a link, parents of every kind, four generated layouts | `PathsLeadToResource`, `KeepAgrees` |
| `cleanup_family` | two threads, providers and controls, one temporary directory | `FamilyLimits` |

What the properties say:

* **Temporary sessions.**  Reports are true (`EffectTruthful`): after a failed
  publication an effect that is missing or `Unchanged` means that nothing was
  installed; after a failed cleanup it means that nothing was removed, also where
  the adapter makes `Unchanged` of a lost source on its own, while
  `PartiallyApplied` and `Applied` mean some and all of the tree; and no failure
  says `Indeterminate` of what the engine could tell.  An owner who
  follows the reports knows its authority (`AuthorityReported`).  The handle is
  not lost while there is something to clean up (`HandleRetained`).  Removal
  obeys limits that were in force during the attempt (`LimitsInForce`), so that
  an owner who raises them and retries gets rid of the tree (`Recovery`).
* **Writers.**  What commit and abort say of the destination is true
  (`PublicationTruthful`); a retryable failure can be retried and no other one
  claims to be (`RetryHonoured`); an abort after a terminal commit repeats its
  verdict (`AbortRemembers`), and no verdict is taken back (`VerdictFinal`).
* **Namespace.**  Reports are true for each of several racing clients
  (`EffectTruthful`); requirements are met or the call fails (`GuaranteeKept`);
  a request repeated on `Unchanged` is carried out at most once
  (`AtMostOnce`); and nothing is replaced without licence, not even an object
  that appeared while the call was under way (`NoClobber`).
* **Provider.**  One control per family of clones (`OneControl`), one directory
  per rooted provider (`RootKept`), `Unsupported` for foreign schemes and
  nothing else (`FallbackOnlyForeign`), and no call that waits for ever
  (`CallsEnd`).
* **Listing.**  When a stream ends without a failure, whatever was asked for and
  there all along has been returned or reported (`NothingLost`); a returned
  path leads back to its entry through the same file system (`PathsReusable`);
  a budget error means that a budget was used up, and not that the filter
  refused many entries (`BudgetErrorsEarned`); the provider's ceilings hold
  (`CeilingsHold`) and no link is followed without permission
  (`LinksContained`).  Under an entry ceiling `next_entry` returns, however
  fast others create entries that the filter refuses (`NextEntryReturns`).
  Without a ceiling it need not, and nothing in the code says otherwise.
* **Readers.**  The bytes are those of the opened file, from the requested
  offset, in order, within the window, whatever happens to the path and the
  file (`WindowExact`, `ReadAtExact`); a window is empty or refused only where
  the file ends or goes on (`NotCutShort`).
* **File URIs.**  Resolving the canonical URI changes nothing (`RoundTrip`).
  Relative URIs, malformed escapes, NULs and hidden separators are refused, and
  nothing else is that `Path::parse` has nothing to resolve of; so `Uri::parse`
  never refuses a canonical URI (`RefusedExactly`).  The components of path and
  canonical URI are those that are left of the URI's when dots and empty ones are
  resolved, and spell the same bytes (`BytesKept`).
* **File systems.**  Generated identities differ (`GeneratedIdsUnique`); a
  request runs under the limits of its own file system and family, and cleanup
  under its control alone (`LimitsOfItsOwn`).
* **Temporary paths.**  Answered paths are below the parent as spelled and lead
  to the resource while the link stands; none is made up for a native path
  elsewhere (`PathsLeadToResource`); a resource kept in place keeps its name
  (`KeepAgrees`).
* **Families.**  A cleanup runs under limits that its family had set during the
  call, through whichever clone or control (`FamilyLimits`).

Bounds.  Two actors are enough for a race on one destination, cell or control,
since every shared object in the code is accessed one actor at a time, and the
properties relate at most two of them.  Budgets 0 and 2 lie below and inside
the range of tree sizes 1 to 3, so a budget can be zero, too small, exact or
ample.  One I/O fault combines with interference of other programs without
limit; more faults repeat the same states.  Two tries are the least with which
a request could be carried out twice.  With `i64::MAX` at 3 and `u64::MAX` at 5
there are offsets below, at and beyond either, and windows that end in each
range.  Three tokens are an escape broken off by any other token, and two
escapes that form a UTF-8 scalar next to a third, and they are written with or
without a slash before the first.  Slashes and dots are among the tokens, escaped
and not, so that there are URIs with double and trailing slashes, with a dot or two
dots for a component, and with dots next to other characters.  Sixteen bytes are enough for every class of them to have a
member, for scalars of two and three bytes that share a lead or a tail, and for
a digit of two cases.  Names over two letters suffice for a name that begins like
another.  A listing meets ceilings and request budgets below, at and above the
number of entries, and zero.  `MaxEntries`, `MaxFaults`, `MaxBytes`,
`MaxTries`, `MaxReads`, `MaxTokens`, `MaxChanges` and `MaxBuilds` are bounds of
the model and not of the code.  `MCFileSystems` and `MCListing` restrict the
next-state relation: one thread derives policies, and after the first request
only cleanups and changes of a control follow, since a request changes nothing
that a later step reads; and other programs
interfere with eight of the listing requests, which differ in filter, recursion and
budget.

Deadlock is checked except for `Namespace`, where a client that has its answer
is done, for `Listing`, where a stream that has ended or was dropped is done,
and for `FileUriPath`, whose client stops after the second resolution.

Fairness.  `RetrySpec` assumes that a call in progress ends (weak fairness of
the `End` actions; the handlers have no loops or locks held across calls) and
an owner that keeps calling `cleanup` (strong fairness of `BeginCleanup`,
an assumption on the caller and the point of the property).
`CallsAdvance` assumes that a thread inside a provider call keeps running.
`FairSpec` of `Listing`, and its run, assume the same of a thread in the loop of `next_entry`
(weak fairness of `Step`); the caller need not call again, and other programs
may change the tree between any two turns.  Nothing is assumed of calls that have not begun, nor of other programs.

Every property has a mutant: an operator placed before the definition it
changes and marked `Mutant:`, which makes one mistake the code could make (a
stale snapshot, a swapped check, a missing record).  With the mutant in place
TLC finds the property violated.

## What TLAPS proves

The theorems hold for every value of the constants: any number of threads,
providers, controls, sessions, writers, clients, paths, requests and trees, any
widths of the integers, any character table and URI, and any bounds.  `Spec` stands for the
specification of the module; for each component one theorem states the inductive
invariant and the others follow from it.  `PathProofs` is about two components,
`Listing` and `FileUriPath`: both take texts apart letter by letter, and their
lemmas about sequences are the same.

| module | theorem | establishes |
|---|---|---|
| `TempResourceProofs` | `TypeCorrect`, `SessionCorrect` | `TypeOK`; the inductive `SessionInv` |
| | `AuthorityCorrect`, `HandleCorrect` | `AuthorityReported`, `HandleRetained` |
| | `TruthCorrect` | `EffectTruthful` |
| | `TreeCorrect`, `LimitsCorrect` | `TreeInv`; the action property `LimitsInForce` |
| | `Refinement` | `ContractSpec`: the sessions implement `TempContract` |
| `FileWriterProofs` | `TypeCorrect`, `WriterCorrect` | `TypeOK`; the inductive `WriterInv` |
| | `PublicationCorrect`, `RetryCorrect`, `AbortCorrect` | `PublicationTruthful`, `RetryHonoured`, `AbortRemembers` |
| | `VerdictCorrect` | the action property `VerdictFinal` |
| | `Refinement` | `ContractSpec`: the writers implement `WriterContract` |
| `NamespaceProofs` | `CallCorrect`, `TypeCorrect` | the inductive `TypeOK /\ CallInv`; `TypeOK` |
| | `EffectCorrect`, `GuaranteeCorrect`, `OnceCorrect` | `EffectTruthful`, `GuaranteeKept`, `AtMostOnce` |
| | `ClobberCorrect` | the action property `NoClobber` |
| `ProviderProofs` | `ProviderCorrect`, `TypeCorrect` | the inductive `TypeOK /\ ProviderInv`; `TypeOK` |
| | `OneControlCorrect`, `RootCorrect`, `FallbackCorrect` | `OneControl`, `RootKept`, `FallbackOnlyForeign` |
| | `FamilyCorrect`, `FamilyLimitsCorrect` | of `CleanupFamily`: the inductive `FamilyInv`; `FamilyLimits` |
| `PathProofs` | `SubtreeByComponents` | the textual filter compares whole components |
| | `ListCorrect`, `TypeCorrect` | the inductive `TypeOK /\ ListInv`; `TypeOK` |
| | `CeilingsCorrect`, `LinksCorrect`, `BudgetCorrect` | `CeilingsHold`, `LinksContained`, `BudgetErrorsEarned` |
| | `PathsCorrect`, `NothingLostCorrect` | `PathsReusable`, `NothingLost` |
| | `UriInvCorrect`, `UriTypeCorrect` | of `FileUriPath`: the inductive `UriTypeOK /\ UriInv`; `UriTypeOK` |
| | `RoundTripCorrect` | `RoundTrip` |
| | `RefusedCorrect`, `BytesCorrect` | `RefusedExactly`, `BytesKept` |
| `ReadSessionProofs` | `ReadCorrect`, `TypeCorrect` | the inductive `Inv`; `TypeOK`, no position leaves `u64` |
| | `WindowCorrect`, `NotCutShortCorrect`, `ReadAtCorrect` | `WindowExact`, `NotCutShort`, `ReadAtExact` |
| `FileSystemsProofs` | `BuildCorrect`, `TypeCorrect` | the inductive `Inv` (`BuildInv` and both properties); `TypeOK` |
| | `IdsCorrect`, `LimitsCorrect` | `GeneratedIdsUnique`, `LimitsOfItsOwn` |
| `TempPathsProofs` | `PathCorrect`, `TypeCorrect` | the inductive `TypeOK /\ PathInv`; `TypeOK` |
| | `PathsCorrect`, `KeepCorrect` | `PathsLeadToResource`, `KeepAgrees` |

### Assumptions

They are the `ConstantsAssumption` of each module (`UriAssumption` of
`FileUriPath`), and TLC evaluates them in every run.  Most of them say that special values differ from ordinary ones and
that bounds are natural numbers.  Those with content:

* `Listing`: an entry's parents are entries, and are there whenever it is; a
  subtree filter is its text cut at the slashes, which always gives at least
  one component.
* `ReadSession`: `i64::MAX` is less than `u64::MAX`.
* `TempPaths`: the link is not one of the directories it can lead to, and the
  layouts the engine generates have no dot components.
* `FileUriPath`: what the code's table has.  Scalars below 0x80 are bytes, and
  the encodings of the others are not empty and made of the remaining bytes; the
  slash, the percent sign, the backslash, NUL and the controls are no pchars;
  digits are pchars, and so is the dot; and `HEX` gives each value a digit that
  `hex_value` reads back.  That no encoding begins another is not needed.
* `CleanupFamily`: every file system of a family has a control (the provider
  passes one to each constructor it calls).

### The inductive invariants

Almost none of the properties is inductive as it stands.  `SessionInv`,
`WriterInv` and `CallInv` are invariants of the runs as well; the others are
stated beside the properties of their modules and are consequences of theorems,
so that a `.cfg` can name them but need not.

* `SessionInv`.  `AuthorityReported` speaks of idle sessions; to survive a call
  it needs that a publication in progress still owns an unpublished source that
  is out of its slot, and that what the owner knows stays true while its
  cleanup runs.  For `LimitsInForce` there is also `TreeInv`: a private tree that
  is in place has at least its root, so that removing all of it is not taken
  for removing nothing.  `EffectTruthful` compares the report with what the same
  step did, so its proof goes through the steps that report.
* `WriterInv`.  A session holds its native writer exactly while it is open
  without a verdict, and its verdict is true.  Without the equivalence a commit
  could start from a slot that contradicts the verdict.
* `CallInv`.  A call inside the engine runs under the options of its own request
  and has not been carried out before, nor has one whose last call did nothing.
  `AtMostOnce` follows because `Retry` requires a report of `Unchanged`, which
  `Honest` ties to a call that did nothing.
* `ProviderInv`.  `OneControl` speaks of controls that were handed out; what makes
  them equal happened earlier.  A control that a thread has made but not stored
  is in no cell and in no other thread's hands (`CallsApart`); at most one
  thread has claimed a cell (`CallsOK`); one control is in the cells of one
  family only, with the file system that family retains (`Cells`); a clone has
  the family, control and file system of what it was cloned from, which has its
  control by then (`Families`); and a handle shows what its family holds
  (`Handed`).
* `FamilyInv`.  A family's setting is what its control holds, and a control that
  is not in use yet holds the default (`Settings`): the step that needs it is a
  racing first use, where the control made first must not have been configured
  through another family.  A directory's control is its family's (`Members`).
  The proof uses `ProviderInv` for the provider's half and no invariant of
  `TempResource`.
* `ListInv`.  Every directory comes before what is in it, in the tree and in what
  the walker has passed (`TreeInv`, `EntriesInv`); a stream runs under the
  options mapped from its request (`StreamInv`); and what was passed has been
  returned or reported if it was asked for, unless a limit closed the stream
  (`Accounted`).  Given that, `NothingLost` at the end of a stream says that the
  walker passes every steady entry within reach; `CeilingsHold` and
  `BudgetErrorsEarned` need that `Tighten` takes the lesser budget.
* `WindowOK` (`ReadSession`).  The native position of a window that is not empty is
  the offset plus what has been delivered, and delivered and allowed bytes add
  up to the request.  With it no position and no
  allowance leaves `u64`.
* `BuildInv`.  A generated identity is less than the counter (`Drawn`); no two
  constructions in progress and no finished file system share one (`Apart`);
  and a file system keeps the defaults of the policy it was given.
* `PathInv`.  The projection is to the parent as the caller spelled it; the parent
  found at the creation is where that name led, and still leads unless the link
  was turned; and each answered path is the projection of a native one.

`SubtreeByComponents` says that `Matches`, which compares texts as the code does
(equal, or the prefix and a slash), accepts exactly the entries whose sequence
of components begins with that of the filter.  Its proof lays a path out in
text by the offsets at which its components start, takes the first component in
which the two differ, and uses that a name contains no slash.  It is why
filtering text is sound: `NothingLost` and `PathsReusable`, which are stated by
components, rest on it.

* `UriInv`.  A client that has resolved a URI holds a path that decoding it may
  give and the canonical URI of that path, or the refusal; and `RoundTrip`.  The
  invariant is short; what it takes to use it is the codec's own correctness, below.

The codec's loops run over texts of any length, and the library's induction
theorems take an operator, which the provers cannot instantiate.  `PathProofs`
replaces them by `ByLength`, induction over sets: a claim holds of every sequence
if the set of sequences for which it holds contains each one whose shorter
sequences it contains, and that is the well-foundedness of the naturals applied
to the lengths of the others.  `ScanUnfolds` shows first that a loop whose turns
all move on is defined for every input and unfolds turn by turn, which a recursive
function does not say of itself.  From there:

* `Unescaped`.  Each unit of a component, a character or an escape, is one turn of
  `decode_uri_bytes`; it moves the percent signs behind it by its width
  (`ShapeSpells`).  So the loop gives up exactly on malformed escapes, and
  otherwise finds the bytes that begin in the component.
* `Canonicalized`.  Each turn of `canonicalize_uri_bytes` pushes a scalar that
  stands for itself or the escapes of what it took (`Kept`).  Unescaping the
  canonical text gives the bytes back, a separator is in the text exactly when it
  is in the bytes, and `CanonicalUri` of the text is `UriOf` of the bytes.
* `SplitJoined` and `UriJoined`.  Splitting undoes joining, and `CanonicalUri` goes
  component by component, since no component has a slash.
* `ResolvedMapped`.  A component's canonical text is empty, a dot or two dots exactly
  when its bytes are (`MarksKept`), so that resolving the texts and resolving the
  bytes drop the same components.
* `AbsoluteDecodes`, `Accepted` and `PlainAccepted` put these together for `decode`,
  whatever `Path::parse` answers; a path that came out is in normal form and its
  canonical URI legal (`NormalPath`, `LawfulSpelling`), so that resolving it again has
  one answer.  The three properties follow with `UriInv`.

Each proof of an inductive invariant has a step or a lemma for every action, and
under it the conjuncts that the action can disturb.  `FileWriterProofs!Refinement`
and `TempResourceProofs!Refinement` map each action to a step of the contract or
to stuttering, using the invariant.

### Only model-checked

* `Recovery`, `CallsEnd`, `NextEntryReturns`: liveness under fairness is out of the
  prover's reach.

Every safety property and every action property of the runs has a theorem.
Except for `Provider`, type correctness is only proved, since the proofs cover
every instance a run could.

## Not modelled

Messages, error sources, provider identities and path enrichment of errors,
timestamps and metadata fields carry no decision, and neither do `stat` (one
native call and a conversion field by field), the metadata of listed entries,
and the source mode of a copy.  The properties snapshot is computed once and
never changes.  Deadlines are budgets of the engine; no clock is modelled.  The
escaping of path components is done by `qubit-local-files` and appears as
whether a name has a logical form.  Of `Path::parse` and `Uri::parse` only the
outcomes named above are modelled: not whether a path with dots or empty components
is resolved or refused, which is left open, nor limits on the length of a URI or
the drive forms of Windows paths.
Inventory registration is one static item.  Examples, benches and fuzz targets
are clients of the library.

Three observations that the runs do not refute, since the sources make no claim
against them: `keep` whose generated target has no logical form reports the
publication but not the residual container; `terminal_persist_error` names
`PersistTemp` also when `keep` could reach it, which it cannot; and a directory
creation that fails late removes the directory under the limits read when the
creation began.

## Plan

1. Done: `TempResource`, `FileWriter`, `Provider`, `Namespace`, the two
   contracts, and the first theorems.
2. Done: `ReadSession`, `Listing`, `FileSystems`, `FileUriPath`, `TempPaths`, and
   the composition `CleanupFamily`.
3. Done: theorems for every safety property that a run checks, those of the
   file-URI codec by induction over its inputs, and the refinement of both
   contracts.
4. Open: that tightening and policy derivation commute; and that the engine's promises
   in `TempResource` and `Namespace` agree where they describe the same calls.

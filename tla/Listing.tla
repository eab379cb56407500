------------------------------ MODULE Listing -------------------------------
(***************************************************************************)
(* A directory listing: FileSystemSpi::list, the option mapping it does,    *)
(* and LocalDirectoryStreamSpi::next_entry.                                 *)
(*                                                                         *)
(* The stream is lazy: the native walker reads the directory while the     *)
(* caller consumes entries and other programs create and remove them.  One *)
(* call of next_entry loops over the walker until an entry passes the      *)
(* filter.  Three parties count: the native walker counts what it yields,  *)
(* the provider's policy caps that count, and the facade counts what it    *)
(* returns.                                                                *)
(***************************************************************************)
EXTENDS Naturals, Sequences, FiniteSets, SequencesExt

CONSTANTS
    Entries,     \* the paths below the listed directory that may ever exist
    Trees,       \* the trees found when the listing starts
    Requests,    \* the list requests made
    Ceilings,    \* the provider policies: [depth, entries]
    Cwd,         \* the current directory of a rooted file system
    BadNames,    \* names that have no logical form
    OutLinks,    \* names of links to directories outside the root
    Unlimited,   \* the budget that is no budget
    None

\* A name is a word of letters, none of them a slash; a path its components.
Names == {n \in Seq(STRING) : \A i \in 1..Len(n) : n[i] # "/"}
Paths == Seq(Names)
LogicalPaths == [absolute : BOOLEAN, components : Paths]

RequestType ==
    [scope : {"Host", "Rooted"}, path : LogicalPaths \cup {None},
     filter : [kind : {"none", "subtree", "literal"}, prefix : Paths],
     recursive : BOOLEAN, depth : 0..Unlimited, entries : 0..Unlimited,
     symlinks : {"Default", "Reject", "Follow", "Unsupported"}]

Ancestors(p) == {SubSeq(p, 1, n) : n \in 1..Len(p)}
Below(p) == {e \in Entries : IsPrefix(p, e)}

\* A subtree filter is its text cut at the slashes, which gives at least one
\* component (an empty one for the empty text).
ASSUME ConstantsAssumption ==
    /\ Entries \subseteq Paths \ {<<>>} /\ Cwd \in Paths
    /\ \A e \in Entries : Ancestors(e) \subseteq Entries
    /\ \A t \in Trees : t \subseteq Entries /\ \A e \in t : Ancestors(e) \subseteq t
    /\ Unlimited \in Nat
    /\ Ceilings \subseteq [depth : 0..Unlimited, entries : 0..Unlimited]
    /\ Requests \subseteq RequestType /\ None \notin LogicalPaths
    /\ \A r \in Requests : r.filter.kind = "subtree" => r.filter.prefix # <<>>

VARIABLES
    present,   \* the entries below the listed directory
    steady,    \* those that have been there since the listing was opened
    ceiling,   \* the provider's policy
    request,   \* the request, once made
    status,    \* new, open, rejected, closed
    native,    \* the options given to the native walker
    yielded,   \* what the walker has passed and will not pass again
    walked,    \* how many entries it has yielded
    lost,      \* the walker has reported a failure
    dead,      \* the walker will yield nothing more
    calling,   \* a next_entry is in its loop
    returned,  \* the entries returned: [at, path]
    reported,  \* the entries whose paths failed to convert
    answer     \* what the last call answered

vars == <<present, steady, ceiling, request, status, native, yielded, walked, lost,
          dead, calling, returned, reported, answer>>

tree == <<present, steady>>
walker == <<yielded, walked, lost, dead>>

(***************************************************************************)
(* Paths.  A logical path is [absolute, components].                       *)
(***************************************************************************)

\* local_path_mapper::native, and the native resolution of a relative path
\* of a rooted file system against its current directory.
Locate(path) == IF path.absolute THEN path.components ELSE Cwd \o path.components

Mappable(e) == \A i \in 1..Len(e) : e[i] \notin BadNames

\* The text of a relative path, as as_str gives it without its first slash.
Text(e) == FlattenSeq([i \in 1..Len(e) |-> IF i = 1 THEN e[i] ELSE <<"/">> \o e[i]])

\* ListingOptions::matches, on the text of the paths.
Matches(filter, e) ==
    LET prefix == Text(filter.prefix)
    IN CASE filter.kind = "none"    -> TRUE
         [] filter.kind = "subtree" -> \/ Text(e) = prefix
                                       \/ IsPrefix(prefix \o <<"/">>, Text(e))
         [] filter.kind = "literal" -> IsPrefix(prefix, Text(e))

\* Mutant: every rooted entry is returned with its absolute path.
AlwaysAbsolute(r, e) == [absolute |-> TRUE, components |-> Locate(r.path) \o e]

\* The path returned for an entry: below the requested root when that is
\* relative, otherwise the native path of the entry made logical.
EntryPath(r, e) ==
    IF r.scope = "Rooted" /\ ~r.path.absolute
    THEN [absolute |-> FALSE, components |-> r.path.components \o e]
    ELSE [absolute |-> TRUE, components |-> Locate(r.path) \o e]

(***************************************************************************)
(* local_options_mapper::list                                              *)
(***************************************************************************)

\* tighten_resource_limits: a budget is never wider than the provider's.
Tighten(a, b) == IF a < b THEN a ELSE b

\* Mutant: an override means the same in both scopes.
FollowsEverywhere(r) == IF r.symlinks = "Follow" THEN "FollowAcrossScope" ELSE r.symlinks

\* native_symlink_policy; without an override nothing is said to the walker.
NativeSymlinkPolicy(r) ==
    CASE r.symlinks # "Follow"                        -> r.symlinks
      [] r.symlinks = "Follow" /\ r.scope = "Host"    -> "FollowAcrossScope"
      [] r.symlinks = "Follow" /\ r.scope = "Rooted"  -> "FollowWithinScope"

\* Mutant: the caller's budget is forwarded whatever the filter.
AlwaysForward(r) == r.entries

\* The entry budget of the request goes to the walker only without a filter:
\* with one, the facade counts after filtering.
ForwardedEntries(r) == IF r.filter.kind = "none" THEN r.entries ELSE Unlimited

\* Mutant: a subtree filter does not look below the first level.
RecursiveAsAsked(r, c) ==
    [recursive |-> r.recursive, symlinks |-> NativeSymlinkPolicy(r),
     depth |-> Tighten(r.depth, c.depth), entries |-> Tighten(ForwardedEntries(r), c.entries)]

\* Mutant: a filtered listing whose entries the facade counts has no ceiling.
FacadeCountsAlone(r, c) ==
    [recursive |-> r.recursive \/ r.filter.kind = "subtree", symlinks |-> NativeSymlinkPolicy(r),
     depth |-> Tighten(r.depth, c.depth),
     entries |-> IF r.filter.kind # "none" /\ r.entries # Unlimited THEN Unlimited
                 ELSE Tighten(ForwardedEntries(r), c.entries)]

\* Mutant: the options are not tightened.
RequestAlone(r, c) ==
    [recursive |-> r.recursive \/ r.filter.kind = "subtree", symlinks |-> NativeSymlinkPolicy(r),
     depth |-> r.depth, entries |-> ForwardedEntries(r)]

NativeOptions(r, c) ==
    [recursive |-> r.recursive \/ r.filter.kind = "subtree",
     symlinks  |-> NativeSymlinkPolicy(r),
     depth     |-> Tighten(r.depth, c.depth),
     entries   |-> Tighten(ForwardedEntries(r), c.entries)]

\* Why list refuses a request before it opens anything: no directory path,
\* a relative path on the host, a filter or a link policy with no native form.
Rejection(r) ==
    CASE r.path = None                                 -> "InvalidOptions"
      [] r.path # None /\ ~r.path.absolute /\ r.scope = "Host" -> "InvalidPath"
      [] r.path # None /\ (r.path.absolute \/ r.scope = "Rooted")
         /\ (r.filter.kind = "literal" \/ r.symlinks = "Unsupported") -> "RequirementNotMet"
      [] OTHER                                         -> "none"

(***************************************************************************)
(* The actions of the caller.                                              *)
(***************************************************************************)

\* FileSystemSpi::list: refused, failed by the native open, or a stream.  A
\* directory with a component that has no native form is refused before its
\* options are looked at.
List(r) ==
    /\ status = "new"
    /\ request' = r
    /\ steady' = present
    /\ \/ /\ Rejection(r) # "none"
          /\ status' = "rejected" /\ answer' = Rejection(r) /\ UNCHANGED native
       \/ /\ r.path # None
          /\ status' = "rejected" /\ answer' = "InvalidPath" /\ UNCHANGED native
       \/ /\ Rejection(r) = "none"
          /\ status' = "open" /\ answer' = "opened" /\ native' = NativeOptions(r, ceiling)
       \/ /\ Rejection(r) = "none"
          /\ status' = "rejected" /\ answer' = "NativeFailure" /\ UNCHANGED native
    /\ UNCHANGED <<present, ceiling, walker, calling, returned, reported>>

\* The caller asks for the next entry, also after an error.
Ask ==
    /\ status = "open" /\ ~calling /\ answer # "end"
    /\ calling' = TRUE
    /\ UNCHANGED <<tree, ceiling, request, status, native, walker, returned, reported, answer>>

\* The caller drops the stream.
Close ==
    /\ status = "open" /\ ~calling
    /\ status' = "closed"
    /\ UNCHANGED <<tree, ceiling, request, native, walker, calling, returned, reported, answer>>

(***************************************************************************)
(* The native walker, as next_entry uses it.                               *)
(***************************************************************************)

BehindLink(e) == \E i \in 1..(Len(e) - 1) : e[i] \in OutLinks

\* The walker descends into a directory it has yielded; whether it follows a
\* link that leads outside depends on the policy.  What a host walker does
\* that was told nothing is left open.
Descends(p) ==
    /\ native.recursive
    /\ p \in yielded
    /\ Last(p) \in OutLinks =>
          \/ native.symlinks = "FollowAcrossScope"
          \/ native.symlinks = "Default" /\ request.scope = "Host"

Candidates ==
    {e \in present \ yielded :
        Len(e) <= native.depth /\ (Len(e) = 1 \/ Descends(Front(e)))}

\* What the walker may not pass over.
Owed == {e \in Candidates \cap steady : native.symlinks = "Default" => ~BehindLink(e)}

BudgetLeft == walked < native.entries \/ native.entries = Unlimited

Yields(e) ==
    /\ calling /\ ~dead /\ BudgetLeft
    /\ e \in Candidates
    /\ yielded' = yielded \cup {e}
    /\ walked' = Tighten(walked + 1, Unlimited)
    /\ UNCHANGED <<lost, dead>>

(***************************************************************************)
(* next_entry: one iteration of its loop.                                  *)
(***************************************************************************)

Answer(a) == calling' = FALSE /\ answer' = a

\* The relative path has no logical form: an error, before any filtering.
Unmappable(e) ==
    /\ Yields(e)
    /\ ~Mappable(e)
    /\ reported' = reported \cup {e}
    /\ Answer("InvalidPath")
    /\ UNCHANGED <<tree, ceiling, request, status, native, returned>>

\* The filter refuses the entry: the loop goes on.
Skip(e) ==
    /\ Yields(e)
    /\ Mappable(e) /\ ~Matches(request.filter, e)
    /\ UNCHANGED <<tree, ceiling, request, status, native, calling, returned, reported, answer>>

Passes(e) == Yields(e) /\ Mappable(e) /\ Matches(request.filter, e)

\* The entry passes, but its path in the namespace of the request cannot be
\* made: the walker's own path of it, or the relative root and its relative
\* path together, is refused.  Whether that happens is up to the engine.
Unplaced(e) ==
    /\ Passes(e)
    /\ reported' = reported \cup {e}
    /\ Answer("InvalidPath")
    /\ UNCHANGED <<tree, ceiling, request, status, native, returned>>

\* The facade returns what next_entry answers while its own count allows.
CountLeft == Len(returned) < request.entries \/ request.entries = Unlimited

\* The entry passes and is returned.
Deliver(e) ==
    /\ Passes(e) /\ CountLeft
    /\ returned' = Append(returned, [at |-> e, path |-> EntryPath(request, e)])
    /\ Answer("entry")
    /\ UNCHANGED <<tree, ceiling, request, status, native, reported>>

\* The entry passes and is one too many for the facade, which ends the stream.
Overrun(e) ==
    /\ Passes(e) /\ ~CountLeft
    /\ Answer("ResourceLimitExceeded")
    /\ status' = "closed"
    /\ UNCHANGED <<tree, ceiling, request, native, returned, reported>>

\* The walker has nothing left; entries that appeared meanwhile may be missed.
End ==
    /\ calling
    /\ dead \/ Owed = {}
    /\ Answer("end")
    /\ UNCHANGED <<tree, ceiling, request, status, native, walker, returned, reported>>

\* One entry more than the walker's budget.
Exceeds ==
    /\ calling /\ ~dead /\ ~BudgetLeft
    /\ Candidates # {}
    /\ dead' = TRUE /\ lost' = TRUE
    /\ Answer("ResourceLimitExceeded")
    /\ UNCHANGED <<tree, ceiling, request, status, native, yielded, walked, returned, reported>>

\* entry_error: reading a directory fails; by its error policy the walker
\* goes on or stops.
WalkFails ==
    /\ calling /\ ~dead
    /\ lost' = TRUE
    /\ dead' \in BOOLEAN
    /\ Answer("NativeFailure")
    /\ UNCHANGED <<tree, ceiling, request, status, native, yielded, walked, returned, reported>>

Step ==
    \/ \E e \in Entries :
          Unmappable(e) \/ Skip(e) \/ Unplaced(e) \/ Deliver(e) \/ Overrun(e)
    \/ End
    \/ Exceeds
    \/ WalkFails

(***************************************************************************)
(* Other programs.                                                         *)
(***************************************************************************)

Create(e) ==
    /\ e \notin present
    /\ Len(e) = 1 \/ Front(e) \in present
    /\ present' = present \cup {e}
    /\ UNCHANGED <<steady, ceiling, request, status, native, walker, calling, returned, reported, answer>>

\* An entry goes with all below it; made again, it may be met again.
Delete(e) ==
    /\ e \in present
    /\ present' = present \ Below(e)
    /\ steady' = steady \ Below(e)
    /\ yielded' = yielded \ Below(e)
    /\ UNCHANGED <<ceiling, request, status, native, walked, lost, dead, calling, returned, reported, answer>>

Churn == status = "open" /\ \E e \in Entries : Create(e) \/ Delete(e)

Init ==
    /\ present \in Trees
    /\ steady = {}
    /\ ceiling \in Ceilings
    /\ request = None /\ status = "new" /\ native = None
    /\ yielded = {} /\ walked = 0 /\ lost = FALSE /\ dead = FALSE
    /\ calling = FALSE /\ returned = <<>> /\ reported = {} /\ answer = "none"

Next ==
    \/ \E r \in Requests : List(r)
    \/ Ask
    \/ Close
    \/ Step
    \/ Churn

Spec == Init /\ [][Next]_vars

\* next_entry is one call of a running thread: its loop keeps going.  The
\* caller and the other programs owe nothing.
FairSpec == Spec /\ WF_vars(Step)

(***************************************************************************)
(* Properties.                                                             *)
(***************************************************************************)

\* What the request asks to see, by components: the children of the directory,
\* or its descendants, or the named subtree, within the depth of the request
\* and of the provider, and not behind a link that is not followed.
Asked(e) ==
    /\ Len(e) <= request.depth /\ Len(e) <= ceiling.depth
    /\ request.recursive \/ request.filter.kind = "subtree" \/ Len(e) = 1
    /\ request.filter.kind = "subtree" => IsPrefix(request.filter.prefix, e)

\* Only a host listing may be asked to follow links that lead anywhere.
LinksFollowed == request.scope = "Host" /\ request.symlinks = "Follow"

\* No entry is lost: when next_entry answers None and the walker has not
\* failed, everything that was asked for and there all along has been
\* returned, or reported as having no path (next_entry, list).
NothingLost ==
    answer = "end" /\ ~lost =>
        \A e \in steady : Asked(e) /\ (BehindLink(e) => LinksFollowed) =>
            e \in reported \/ \E i \in 1..Len(returned) : returned[i].at = e

\* A returned path is of the requested kind, absolute or relative, leads back
\* to the entry it stands for in the same file system, and that entry was
\* asked for (next_entry, EntryPath).
PathsReusable ==
    \A i \in 1..Len(returned) :
        LET r == returned[i] IN
        /\ r.path.absolute = request.path.absolute
        /\ Locate(r.path) = Locate(request.path) \o r.at
        /\ Asked(r.at)

\* A budget error is owed to a budget that was used up: the caller's by
\* returned entries (by walked ones when nothing is filtered), or the
\* provider's by walked entries (list, the facade).
BudgetErrorsEarned ==
    answer = "ResourceLimitExceeded" =>
        \/ Len(returned) = request.entries
        \/ walked >= ceiling.entries
        \/ request.filter.kind = "none" /\ walked >= request.entries

\* The provider's ceilings hold for every request, filtered or not, while the
\* tree changes: neither omitted nor looser request limits widen them.
CeilingsHold ==
    /\ ceiling.entries # Unlimited => walked <= ceiling.entries
    /\ \A e \in yielded : Len(e) <= ceiling.depth

\* No listing meets anything behind a link it was not allowed to follow: links
\* that leave the root in a rooted file system, whatever the request says, and
\* any link on the host when the request rejects them (native_symlink_policy).
LinksContained ==
    request # None /\ (request.scope = "Rooted" \/ request.symlinks = "Reject") =>
        \A e \in yielded : ~BehindLink(e)

\* With a provider ceiling every next_entry returns, even when other programs
\* keep making entries that the filter refuses.
NextEntryReturns ==
    calling /\ ceiling.entries # Unlimited ~> ~calling

(***************************************************************************)
(* The inductive strengthening of the invariants above.                    *)
(***************************************************************************)

Returned == [at : Entries, path : LogicalPaths]
Answers == {"none", "opened", "entry", "end", "InvalidOptions", "InvalidPath",
            "RequirementNotMet", "NativeFailure", "ResourceLimitExceeded"}

TypeOK ==
    /\ present \subseteq Entries /\ steady \subseteq Entries /\ yielded \subseteq Entries
    /\ ceiling \in Ceilings
    /\ status \in {"new", "open", "rejected", "closed"}
    /\ walked \in 0..Unlimited
    /\ lost \in BOOLEAN /\ dead \in BOOLEAN /\ calling \in BOOLEAN
    /\ returned \in Seq(Returned) /\ reported \subseteq Entries
    /\ answer \in Answers

\* Directories come before what is in them.
Connected(t) == \A e \in t : Len(e) > 1 => Front(e) \in t
TreeInv == Connected(present) /\ Connected(steady) /\ steady \subseteq present

\* A stream that was opened runs under the options mapped from its request,
\* and before that nothing has happened.
Opened == status \in {"open", "closed"}
StreamInv ==
    /\ Opened => /\ request \in Requests /\ Rejection(request) = "none"
                 /\ native = NativeOptions(request, ceiling)
    /\ ~Opened => /\ yielded = {} /\ walked = 0 /\ returned = <<>>
                  /\ answer \notin {"end", "ResourceLimitExceeded"}
    /\ calling => status = "open" /\ answer # "end"
    /\ dead => lost

\* What the options allow the walker to meet.
MayFollow == native.symlinks = "FollowAcrossScope"
             \/ (native.symlinks = "Default" /\ request.scope = "Host")
InReach(e) ==
    /\ Len(e) <= native.depth /\ (Len(e) = 1 \/ native.recursive)
    /\ BehindLink(e) => MayFollow

\* Whatever is returned was in reach, passed the filter and is named as the
\* request asks; whatever the walker has passed was returned or reported if
\* it had to be, unless a limit has closed the stream.
ReturnedOK(r) ==
    /\ InReach(r.at) /\ Mappable(r.at) /\ Matches(request.filter, r.at)
    /\ r.path = EntryPath(request, r.at)
Accounted(e) ==
    \/ e \in reported
    \/ Mappable(e) /\ (Matches(request.filter, e) => \E i \in 1..Len(returned) : returned[i].at = e)
EntriesInv ==
    Opened =>
        /\ \A e \in yielded : InReach(e)
        /\ \A i \in 1..Len(returned) : ReturnedOK(returned[i])
        /\ request.entries # Unlimited => Len(returned) <= request.entries
        /\ status = "open" => \A e \in yielded : Accounted(e)

ListInv == TreeInv /\ StreamInv /\ EntriesInv
=============================================================================

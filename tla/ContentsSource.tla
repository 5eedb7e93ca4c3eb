---------------------------- MODULE ContentsSource ----------------------------
(***************************************************************************)
(* GithubContentsSource of crates/sources, collected again and again with  *)
(* one ConditionalCache: the listing of a directory is fetched and then    *)
(* its .txt and its .json files, each of them with the validators of the   *)
(* body received last.  A listing's validator stands for the versions of   *)
(* all listed files, as GitHub's does.  What fetch_guarded does before it  *)
(* answers is in GuardedFetch; here a fetch fails, is not modified or      *)
(* yields a body.                                                          *)
(***************************************************************************)
EXTENDS Integers, FiniteSets

CONSTANTS
  TextFiles, JsonFiles,  \* the bridge lists of the directory
  Unparsable,            \* the files whose download_url is no URL
  MaxVersion,            \* bound on the changes of a file
  MaxRuns                \* bound on the collections

Files == TextFiles \cup JsonFiles

ASSUME ContentsAssumption ==
  /\ TextFiles \cap JsonFiles = {} /\ Unparsable \subseteq Files
  /\ MaxVersion \in Nat \ {0} /\ MaxRuns \in Nat

VARIABLES
  server,     \* file -> version in the repository
  listingTag, \* cached validator of the listing: the versions it listed
  tag,        \* file -> cached validator: a version, 0 for none
  pc,
  groups,     \* the file groups still to fetch, text before json
  failures,   \* what the report of the current or last collection lists
  reportOf,   \* the listing whose files that report is about
  received,   \* the <<file, version>> whose body was received so far
  partial,    \* the collection that cached listingTag reported a failure
  runs

cacheVars == <<listingTag, tag>>
ghosts == <<received, partial>>
vars == <<server, cacheVars, pc, groups, failures, reportOf, ghosts, runs>>

Listing == "listing"
NoListing == [f \in Files |-> 0]

Init ==
  /\ server = [f \in Files |-> 1]
  /\ listingTag = NoListing /\ tag = [f \in Files |-> 0]
  /\ pc = "idle" /\ groups = <<{}, {}>>
  /\ failures = {} /\ reportOf = NoListing
  /\ received = {} /\ partial = FALSE
  /\ runs = 0

\* Mutant: a response stores its validators before its status is looked at.
TagAfterFailure_Stored(f) == server[f]

\* The validators after a response that is neither a 2xx nor a 304.
TagAfterFailure(f) == tag[f]

\* Mutant: the json files are fetched only when there is no text file.
GroupsOf_Either(L) ==
  IF L \cap TextFiles # {} THEN <<L \cap TextFiles, {}>>
  ELSE <<{}, L \cap JsonFiles>>

\* Mutant: the two groups change places.
GroupsOf_Swapped(L) == <<L \cap JsonFiles, L \cap TextFiles>>

\* The files of a listing by the format of their body.
GroupsOf(L) == <<L \cap TextFiles, L \cap JsonFiles>>

StartCollection ==
  /\ pc = "idle" /\ runs < MaxRuns
  /\ runs' = runs + 1
  /\ pc' = "listing" /\ failures' = {} /\ reportOf' = NoListing
  /\ UNCHANGED <<server, cacheVars, groups, ghosts>>

\* The listing cannot be fetched: the report has just this failure.
ListingFails ==
  /\ pc = "listing"
  /\ failures' = {Listing}
  /\ pc' = "idle"
  /\ UNCHANGED <<server, cacheVars, groups, reportOf, ghosts, runs>>

\* 304: the report is empty and no file is asked for.
ListingNotModified ==
  /\ pc = "listing" /\ listingTag = server
  /\ reportOf' = listingTag
  /\ pc' = "idle"
  /\ UNCHANGED <<server, cacheVars, groups, failures, ghosts, runs>>

\* The listing's body, whose validators are cached before it is parsed.  A
\* file whose download_url is no URL is skipped with a warning.
ListingBody ==
  /\ pc = "listing" /\ listingTag # server
  /\ listingTag' = server
  /\ \/ /\ groups' = GroupsOf(Files \ Unparsable)
        /\ reportOf' = server
        /\ pc' = "files" /\ UNCHANGED failures
     \/ /\ failures' = {Listing}
        /\ pc' = "idle" /\ UNCHANGED <<groups, reportOf>>
  /\ partial' = (failures' # {})
  /\ UNCHANGED <<server, tag, received, runs>>

\* The file fetched next: the text files come first.
Next1(f) ==
  /\ pc = "files"
  /\ IF groups[1] # {} THEN f \in groups[1] ELSE f \in groups[2]

Fetched(f) == groups' = <<groups[1] \ {f}, groups[2] \ {f}>>

\* Mutant: a file that cannot be fetched is skipped like one without a URL.
FileFails_Skipped(f) ==
  /\ Next1(f) /\ Fetched(f)
  /\ UNCHANGED <<server, cacheVars, pc, failures, reportOf, ghosts, runs>>

FileFails(f) ==
  /\ Next1(f) /\ Fetched(f)
  /\ failures' = failures \cup {f} /\ partial' = TRUE
  /\ tag' = [tag EXCEPT ![f] = TagAfterFailure(f)]
  /\ UNCHANGED <<server, listingTag, pc, reportOf, received, runs>>

FileNotModified(f) ==
  /\ Next1(f) /\ Fetched(f)
  /\ tag[f] = server[f]
  /\ UNCHANGED <<server, cacheVars, pc, failures, reportOf, ghosts, runs>>

\* A body, with validators or without.  One that is not UTF-8 or not JSON is a
\* failure, and so is each rejected line; what the parsers skip - comments,
\* JSON values that are no candidates - is not, so a body may yield neither
\* bridges nor a failure.
FileBody(f) ==
  /\ Next1(f) /\ Fetched(f)
  /\ tag[f] # server[f]
  /\ \E t \in {0, server[f]} : tag' = [tag EXCEPT ![f] = t]
  /\ received' = received \cup {<<f, server[f]>>}
  /\ failures' \in {failures, failures \cup {f}}
  /\ partial' = (failures' # {})
  /\ UNCHANGED <<server, listingTag, pc, reportOf, runs>>

EndCollection ==
  /\ pc = "files" /\ groups = <<{}, {}>>
  /\ pc' = "idle"
  /\ UNCHANGED <<server, cacheVars, groups, failures, reportOf, ghosts, runs>>

\* Somebody commits a new version of a file, at any time.
Commit(f) ==
  /\ server[f] < MaxVersion
  /\ server' = [server EXCEPT ![f] = @ + 1]
  /\ UNCHANGED <<cacheVars, pc, groups, failures, reportOf, ghosts, runs>>

Next ==
  \/ StartCollection
  \/ ListingFails \/ ListingNotModified \/ ListingBody
  \/ \E f \in Files : \/ FileFails(f) \/ FileNotModified(f) \/ FileBody(f)
                      \/ Commit(f)
  \/ EndCollection

Spec == Init /\ [][Next]_vars

-----------------------------------------------------------------------------
(* Properties                                                              *)

Versions == Files \X (1..MaxVersion)

\* Every variable has the values the code gives it.
TypeOK ==
  /\ server \in [Files -> 1..MaxVersion]
  /\ listingTag \in [Files -> 0..MaxVersion]
  /\ tag \in [Files -> 0..MaxVersion]
  /\ pc \in {"idle", "listing", "files"}
  /\ groups[1] \subseteq TextFiles \ Unparsable
  /\ groups[2] \subseteq JsonFiles \ Unparsable
  /\ failures \subseteq Files \cup {Listing}
  /\ reportOf \in [Files -> 0..MaxVersion]
  /\ received \subseteq Versions /\ partial \in BOOLEAN
  /\ runs \in 0..MaxRuns

\* A 304 never hides a version whose body was never received: validators
\* are cached with their body only (HttpClient::get).
CachedWasReceived ==
  \A f \in Files : tag[f] # 0 => <<f, tag[f]>> \in received

\* Over this and the earlier collections every parsable file was received in
\* the version a listing L has, or in a later one.
Complete(L) ==
  \A f \in Files \ Unparsable :
    \E v \in L[f]..MaxVersion : <<f, v>> \in received

\* A collection that got a listing's body and reported no failure has received
\* every listed file (collect_file_group, for both formats).
ListedWasReceived ==
  pc = "files" /\ groups = <<{}, {}>> /\ failures = {} => Complete(reportOf)

\* "Enumerates bridge-list files ... then collects each file's raw
\* `download_url`" (github.rs), "Failures are never silent" (lib.rs): after a
\* collection without failures every listed file has been collected.
CleanRunIsComplete ==
  pc = "idle" /\ runs > 0 /\ failures = {} => Complete(reportOf)

\* The only files a report without failures can miss are those of a listing
\* that answered 304 although the collection which cached its validator
\* reported a failure (github.rs 175, HttpClient::get): whatever failed in
\* other collections, was committed in between or answered 304 itself, every
\* other clean report is of a complete collection.
CleanUnlessCachedPartially ==
  pc = "idle" /\ runs > 0 /\ failures = {} /\ ~partial => Complete(reportOf)
=============================================================================

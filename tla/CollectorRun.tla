---------------------------- MODULE CollectorRun ----------------------------
(***************************************************************************)
(* One collector process (src/tor_collector/service.rs) run again and      *)
(* again over the same working directory: acquire the sources of every     *)
(* list, collect and probe the lists concurrently, merge the outcomes into *)
(* the history, publish the staged files one by one, upload the ZIP.  The  *)
(* stage deadline can cut a run short at every await, and the CI step's    *)
(* hard timeout can kill the process anywhere.                             *)
(*                                                                         *)
(* Lists are numbered in their sort order (transport, ipv6).  A file is    *)
(* the set of its lines (line order and formatting are left out), and an   *)
(* absent file is an empty one.  The clock ticks once per run.             *)
(***************************************************************************)
EXTENDS Integers, Sequences, FiniteSets

CONSTANTS
  NLists,         \* number of (transport, ipv6) lists
  Lines,          \* bridge lines
  LinesOf,        \* the lines the sources of a list can answer with
  Fronted,        \* the lists that are domain-fronted and IPv4
  DefaultLines,   \* the built-in lines of a fronted list
  Verified,       \* the lists whose tested set passes the obfs4 policy
  MaxTest,        \* MAX_TEST_PER_LIST; 0 tests every line
  RecentHours,    \* RECENT_HOURS, in runs
  Retention,      \* HISTORY_RETENTION_DAYS, in runs
  PublishOrder,   \* the staged paths in BTreeMap order
  MaxRuns         \* bound on the clock

Lists == 1..NLists

Archive(l) == <<"archive", l>>
Recent(l)  == <<"recent", l>>
Tested(l)  == <<"tested", l>>
History    == <<"history", 0>>
Readme     == <<"readme", 0>>
ZipFile    == <<"zip", 0>>
Dashboard  == <<"dashboard", 0>>

TextFiles == {"archive", "recent", "tested"} \X Lists
Published == TextFiles \cup {History, Readme, ZipFile}
Files     == Published \cup {Dashboard}

\* What the path names guarantee: "x.txt" sorts before "x_72h.txt" and
\* "x_tested.txt", so a list's archive is written before its other files.
ASSUME CollectorAssumption ==
  /\ NLists \in Nat /\ IsFiniteSet(Lines)
  /\ LinesOf \in [Lists -> SUBSET Lines]
  /\ Fronted \subseteq Lists
  /\ DefaultLines \in [Lists -> SUBSET Lines]
  /\ Verified \subseteq Lists
  /\ MaxTest \in Nat /\ RecentHours \in Nat /\ Retention \in Nat
  /\ MaxRuns \in Nat
  /\ PublishOrder \in Seq(Published)
  /\ \A f \in Published : \E i \in DOMAIN PublishOrder : PublishOrder[i] = f
  /\ \A i, j \in DOMAIN PublishOrder :
       PublishOrder[i] = PublishOrder[j] => i = j
  /\ \A l \in Lists : \A i, j \in DOMAIN PublishOrder :
       /\ PublishOrder[i] = Archive(l)
       /\ PublishOrder[j] \in {Recent(l), Tested(l)}
       => i < j

VARIABLES
  disk,       \* file -> content, what a later stage of the pipeline reads
  now,        \* Utc::now() of the current run
  pc,         \* where the process is
  dryRun,     \* --dry-run of the current run
  deadline,   \* the stage deadline has fired in the current run
  hist,       \* the in-memory HistoryStore
  writable,   \* history_writable
  acquired,   \* list -> source lines, for the acquisition tasks joined
  jobs,       \* list tasks still running
  outcomes,   \* list -> outcomes joined, in completion order
  staged,     \* file -> content to publish
  next,       \* position of publish_staged in PublishOrder
  result      \* how the last run ended

runVars  == <<dryRun, deadline, hist, writable>>
taskVars == <<acquired, jobs, outcomes>>
pubVars  == <<staged, next>>
vars == <<disk, now, pc, runVars, taskVars, pubVars, result>>

-----------------------------------------------------------------------------
(* The history store: line -> first and last observation.                  *)

Stamp == [first : Nat, last : Nat]
IsHistory(h) == DOMAIN h \subseteq Lines /\ h \in [DOMAIN h -> Stamp]
EmptyHistory == [x \in {} |-> [first |-> 0, last |-> 0]]

\* Mutant: an observation restarts the first_seen window.
Observe_Restart(h, S) ==
  [x \in DOMAIN h \cup S |->
     [first |-> IF x \in S THEN now ELSE h[x].first,
      last  |-> IF x \in S THEN now ELSE h[x].last]]

\* observe_discovered, for every line of S; record_probe does the same.
Observe(h, S) ==
  [x \in DOMAIN h \cup S |->
     [first |-> IF x \in DOMAIN h THEN h[x].first ELSE now,
      last  |-> IF x \in S THEN now ELSE h[x].last]]

\* Mutant: fresh means seen lately instead of first seen lately.
IsRecent_BySighting(h, x) == x \in DOMAIN h /\ h[x].last > now - RecentHours

IsRecent(h, x) == x \in DOMAIN h /\ h[x].first > now - RecentHours

Cleanup(h) ==
  [x \in {y \in DOMAIN h : h[y].last > now - Retention} |-> h[x]]

-----------------------------------------------------------------------------
(* The list tasks.                                                         *)

Acquisitions == [list : Lists, lines : SUBSET Lines, lost : BOOLEAN]

Job(l, S, k) == [list |-> l, lines |-> S, kind |-> k]
Jobs == [list : Lists, lines : SUBSET Lines, kind : {"sources", "defaults"}]

\* ListOutcome: archive and tested are published, observed is the union of
\* source_lines and the probed lines, all of which the history observes.
Outcomes == [archive : SUBSET Lines, observed : SUBSET Lines,
             tested : SUBSET Lines]

\* A lost acquisition task contributes no job, and no defaults either.
JobsOf(a) ==
  IF a.lost THEN {}
  ELSE {Job(a.list, a.lines, "sources")} \cup
         (IF a.list \in Fronted /\ a.lines = {} /\ DefaultLines[a.list] # {}
          THEN {Job(a.list, DefaultLines[a.list], "defaults")} ELSE {})

\* The candidates a ceiling leaves; which ones depends on the health scores.
Candidates(A) ==
  IF MaxTest = 0 \/ Cardinality(A) <= MaxTest
  THEN {A} ELSE {C \in SUBSET A : Cardinality(C) = MaxTest}

\* Mutant: a source that answers replaces the archive.
ArchiveOf_Replace(l, S) == IF S = {} THEN disk[Archive(l)] ELSE S

\* The lines on disk and the source lines, deduplicated.
ArchiveOf(l, S) == disk[Archive(l)] \cup S

\* What successful_lines and apply_obfs4_policy leave of the reachable ones.
TestedSets(l, up) == IF l \in Verified THEN SUBSET up ELSE {up}

-----------------------------------------------------------------------------
(* Merging and staging.                                                    *)

HasOutcome(l) == outcomes[l] # <<>>
LastOutcome(l) == outcomes[l][Len(outcomes[l])]
Observed(l) == UNION {outcomes[l][i].observed : i \in DOMAIN outcomes[l]}

\* The history once the lists up to l are merged.
Merged(l) == Observe(hist, UNION {Observed(k) : k \in 1..l})

\* Mutant: the fresh list is drawn from the history, not from the archive.
RecentOf_History(l, A) == {x \in Lines : IsRecent(Merged(l), x)}

RecentOf(l, A) == {x \in A : IsRecent(Merged(l), x)}

\* A list's three files come from its last outcome: BTreeMap::insert
\* replaces what an earlier outcome of the same list staged.
StagedText ==
  [f \in {g \in TextFiles : HasOutcome(g[2])} |->
     LET l == f[2]
         o == LastOutcome(l)
     IN CASE f[1] = "archive" -> o.archive
          [] f[1] = "recent"  -> RecentOf(l, o.archive)
          [] f[1] = "tested"  -> o.tested]

\* The counts of the README and of the yield dashboard, zero for a list
\* without an outcome.
Stats == [l \in Lists |->
            IF HasOutcome(l) THEN Cardinality(LastOutcome(l).archive)
            ELSE 0]

\* Mutant: the ZIP holds the staged files only.
ZipOf_StagedOnly(text) == text

\* Mutant: the ZIP is built from the directory before the publication.
ZipOf_Existing(text) == [f \in TextFiles |-> disk[f]]

\* existing_zip_entries overlaid with the staged text files.
ZipOf(text) ==
  [f \in TextFiles |-> IF f \in DOMAIN text THEN text[f] ELSE disk[f]]

\* Mutant: a history that could not be loaded is written anyway.
HistoryFile_Always == {History}

HistoryFile == IF writable THEN {History} ELSE {}

StagedFiles ==
  [f \in DOMAIN StagedText \cup {Readme, ZipFile} \cup HistoryFile |->
     CASE f = Readme  -> Stats
       [] f = ZipFile -> ZipOf(StagedText)
       [] f = History -> [readable |-> TRUE, entries |-> Cleanup(Merged(NLists))]
       [] OTHER       -> StagedText[f]]

\* flush_partial: the archives as they are on disk.
ExistingArchives ==
  {f \in TextFiles : f[1] = "archive" /\ disk[f] # {}}

-----------------------------------------------------------------------------
NoText == [f \in TextFiles |-> {}]

Init ==
  /\ disk = [f \in Files |->
               CASE f = History -> [readable |-> TRUE, entries |-> EmptyHistory]
                 [] f \in {Readme, Dashboard} -> [l \in Lists |-> 0]
                 [] f = ZipFile -> NoText
                 [] OTHER       -> {}]
  /\ now = 0
  /\ pc = "idle"
  /\ dryRun = FALSE /\ deadline = FALSE
  /\ hist = EmptyHistory /\ writable = FALSE
  /\ acquired = {} /\ jobs = {}
  /\ outcomes = [l \in Lists |-> <<>>]
  /\ staged = [f \in {} |-> {}] /\ next = 1
  /\ result = "none"

\* The process is over: what it held in memory is gone.
EndRun(r) ==
  /\ pc' = "idle" /\ result' = r
  /\ hist' = EmptyHistory /\ writable' = FALSE
  /\ acquired' = {} /\ jobs' = {}
  /\ outcomes' = [l \in Lists |-> <<>>]
  /\ staged' = [f \in {} |-> {}] /\ next' = 1

StartRun ==
  /\ pc = "idle" /\ now < MaxRuns
  /\ now' = now + 1
  /\ dryRun' \in BOOLEAN
  /\ deadline' = FALSE
  /\ writable' = disk[History].readable
  /\ hist' = IF disk[History].readable
             THEN disk[History].entries ELSE EmptyHistory
  /\ pc' = "fetch" /\ result' = "none"
  /\ UNCHANGED <<disk, taskVars, pubVars>>

\* An acquisition task is joined: its lines (BridgeDB, the community seeds
\* and Telegram's lines routed to the list) or nothing, when it panicked.
Fetch(l) ==
  /\ pc = "fetch" /\ \A a \in acquired : a.list # l
  /\ \/ \E S \in SUBSET LinesOf[l] :
          acquired' = acquired \cup {[list |-> l, lines |-> S, lost |-> FALSE]}
     \/ acquired' = acquired \cup {[list |-> l, lines |-> {}, lost |-> TRUE]}
  /\ UNCHANGED <<disk, now, pc, runVars, jobs, outcomes, pubVars, result>>

BuildJobs ==
  /\ pc = "fetch" /\ \A l \in Lists : \E a \in acquired : a.list = l
  /\ jobs' = UNION {JobsOf(a) : a \in acquired}
  /\ acquired' = {}
  /\ pc' = "collect"
  /\ UNCHANGED <<disk, now, runVars, outcomes, pubVars, result>>

\* collect_list returns Ok(None): its archive cannot be read, or there is
\* neither an existing nor a source line (the zero-byte guard).
CollectNothing(j) ==
  /\ pc = "collect" /\ j \in jobs
  /\ jobs' = jobs \ {j}
  /\ UNCHANGED <<disk, now, pc, runVars, acquired, outcomes, pubVars, result>>

\* collect_list returns an outcome: the archive is what is on disk and the
\* source lines, some candidates are probed, the reachable ones tested.
CollectOutcome(j) ==
  LET l == j.list
      A == ArchiveOf(l, j.lines)
  IN /\ pc = "collect" /\ j \in jobs
     /\ A # {}
     /\ jobs' = jobs \ {j}
     /\ \E C \in Candidates(A) : \E up \in SUBSET C : \E T \in TestedSets(l, up) :
          outcomes' = [outcomes EXCEPT ![l] = Append(@,
            [archive |-> A, observed |-> j.lines \cup C, tested |-> T])]
     /\ UNCHANGED <<disk, now, pc, runVars, acquired, pubVars, result>>

\* A list task panicked: run_inner returns the join error.
CollectPanic(j) ==
  /\ pc = "collect" /\ j \in jobs
  /\ EndRun("error")
  /\ UNCHANGED <<disk, now, dryRun, deadline>>

\* From the last join to the publication there is no await.  The dashboard
\* is written before the staged files; an error of the ZIP or the dashboard
\* abandons the run.
Merge ==
  /\ pc = "collect" /\ jobs = {}
  /\ \/ /\ staged' = StagedFiles /\ next' = 1
        /\ hist' = Cleanup(Merged(NLists))
        /\ disk' = IF dryRun THEN disk ELSE [disk EXCEPT ![Dashboard] = Stats]
        /\ pc' = "publish"
        /\ UNCHANGED <<now, dryRun, deadline, writable, taskVars, result>>
     \/ /\ EndRun("error")
        /\ UNCHANGED <<disk, now, dryRun, deadline>>

\* The staged path publish_staged is at, if it has to be written.
MustWrite(f) == f \in DOMAIN staged /\ staged[f] # disk[f] /\ ~dryRun

\* One iteration of publish_staged: a path that is not staged or already
\* has these bytes is skipped, another is replaced by a rename.
PublishFile ==
  /\ pc = "publish" /\ next <= Len(PublishOrder)
  /\ LET f == PublishOrder[next] IN
       disk' = IF MustWrite(f) THEN [disk EXCEPT ![f] = staged[f]] ELSE disk
  /\ next' = next + 1
  /\ UNCHANGED <<now, pc, runVars, taskVars, staged, result>>

\* write_atomic fails: the error leaves the remaining paths unwritten.
PublishError ==
  /\ pc = "publish" /\ next <= Len(PublishOrder)
  /\ MustWrite(PublishOrder[next])
  /\ EndRun("error")
  /\ UNCHANGED <<disk, now, dryRun, deadline>>

\* publish_staged returns: the run is over, or the ZIP goes to Telegram.
PublishEnd ==
  /\ pc = "publish" /\ next > Len(PublishOrder)
  /\ \/ /\ ~deadline /\ ~dryRun
        /\ pc' = "upload"
        /\ UNCHANGED <<disk, now, runVars, taskVars, pubVars, result>>
     \/ /\ EndRun(IF deadline THEN "deadline" ELSE "ok")
        /\ UNCHANGED <<disk, now, dryRun, deadline>>

\* A failed upload is a warning.
Upload ==
  /\ pc = "upload"
  /\ EndRun("ok")
  /\ UNCHANGED <<disk, now, dryRun, deadline>>

\* Mutant: the timeout covers the collection only.
AtAwait_Collection == pc = "fetch" \/ (pc = "collect" /\ jobs # {})

\* The awaits of run_inner: the joins, the probes and the upload.
AtAwait ==
  \/ pc \in {"fetch", "upload"}
  \/ pc = "collect" /\ jobs # {}

\* The timeout around run_inner fires at one of its awaits: the future and
\* its tasks are dropped and flush_partial stages the existing archives.
Deadline ==
  /\ AtAwait
  /\ deadline' = TRUE
  /\ staged' = [f \in ExistingArchives |-> disk[f]] /\ next' = 1
  /\ acquired' = {} /\ jobs' = {} /\ outcomes' = [l \in Lists |-> <<>>]
  /\ hist' = EmptyHistory /\ writable' = FALSE
  /\ pc' = "publish"
  /\ UNCHANGED <<disk, now, dryRun, result>>

\* The CI step's timeout kills the process, in the middle of anything.
Kill ==
  /\ pc # "idle"
  /\ EndRun("killed")
  /\ UNCHANGED <<disk, now, dryRun, deadline>>

\* Another stage damages the history: it is no JSON object any more, what it
\* said is kept here for the properties only.
DamageHistory ==
  /\ pc = "idle" /\ now < MaxRuns
  /\ disk[History].readable
  /\ disk' = [disk EXCEPT ![History].readable = FALSE]
  /\ UNCHANGED <<now, pc, runVars, taskVars, pubVars, result>>

Next ==
  \/ StartRun
  \/ \E l \in Lists : Fetch(l)
  \/ BuildJobs
  \/ \E j \in jobs : CollectNothing(j) \/ CollectOutcome(j) \/ CollectPanic(j)
  \/ Merge
  \/ PublishFile \/ PublishError \/ PublishEnd
  \/ Upload
  \/ Deadline
  \/ Kill
  \/ DamageHistory

Spec == Init /\ [][Next]_vars

\* The timer fires, and the synchronous stretches of run finish; no source,
\* probe or upload is assumed to answer.
FairSpec ==
  /\ Spec
  /\ WF_vars(Deadline) /\ WF_vars(Merge)
  /\ WF_vars(PublishFile) /\ WF_vars(PublishEnd)

-----------------------------------------------------------------------------
(* Properties                                                              *)

ContentOK(f, c) ==
  /\ f \in TextFiles => c \in SUBSET Lines
  /\ f = History => c.readable \in BOOLEAN /\ IsHistory(c.entries)
  /\ f \in {Readme, Dashboard} => c \in [Lists -> Nat]
  /\ f = ZipFile => c \in [TextFiles -> SUBSET Lines]

\* Every variable has the values the code gives it.
TypeOK ==
  /\ DOMAIN disk = Files
  /\ \A f \in Files : ContentOK(f, disk[f])
  /\ now \in Nat
  /\ pc \in {"idle", "fetch", "collect", "publish", "upload"}
  /\ dryRun \in BOOLEAN /\ deadline \in BOOLEAN /\ writable \in BOOLEAN
  /\ IsHistory(hist)
  /\ acquired \in SUBSET Acquisitions
  /\ jobs \in SUBSET Jobs
  /\ outcomes \in [Lists -> Seq(Outcomes)]
  /\ DOMAIN staged \subseteq Published
  /\ \A f \in DOMAIN staged : ContentOK(f, staged[f])
  /\ next \in 1..(Len(PublishOrder) + 1)
  /\ result \in {"none", "ok", "error", "deadline", "killed"}

\* A published list never loses a line, whatever its sources answer and
\* wherever a run is cut: "a transient source failure cannot erase old
\* output" (collect_list, publish_staged).
ArchivesOnlyGrow ==
  [][\A l \in Lists : disk[Archive(l)] \subseteq disk'[Archive(l)]]_vars

\* At every moment, also in the middle of a publication or after a kill,
\* what a list recommends is in the list's archive (publish_staged's path
\* order, collect_list).
SubsetsOfArchive ==
  \A l \in Lists : /\ disk[Recent(l)] \subseteq disk[Archive(l)]
                  /\ disk[Tested(l)] \subseteq disk[Archive(l)]

\* Until they are merged, all outcomes extend the archives on disk.
OutcomesExtendDisk ==
  pc \in {"idle", "fetch", "collect"} =>
    \A l \in Lists : \A i \in DOMAIN outcomes[l] :
      /\ disk[Archive(l)] \subseteq outcomes[l][i].archive
      /\ outcomes[l][i].tested \subseteq outcomes[l][i].archive

\* What is staged for a list extends its archive on disk, and its other
\* files are staged only together with the archive they are drawn from.
StagedExtendsDisk ==
  pc = "publish" =>
    \A l \in Lists :
      /\ Archive(l) \in DOMAIN staged => disk[Archive(l)] \subseteq staged[Archive(l)]
      /\ \A f \in {Recent(l), Tested(l)} : f \in DOMAIN staged =>
           /\ Archive(l) \in DOMAIN staged
           /\ staged[f] \subseteq staged[Archive(l)]

\* The paths publish_staged has passed have what was staged for them.
PrefixPublished ==
  pc = "publish" /\ ~dryRun =>
    \A i \in 1..(next - 1) : PublishOrder[i] \in DOMAIN staged =>
      disk[PublishOrder[i]] = staged[PublishOrder[i]]

\* The inductive strengthening of SubsetsOfArchive: kills and write errors
\* are harmless because of the order in which the prefix is published.
PublicationInv ==
  /\ TypeOK /\ SubsetsOfArchive
  /\ OutcomesExtendDisk /\ StagedExtendsDisk /\ PrefixPublished

\* A run that published everything leaves a ZIP with the very files of the
\* directory, and that ZIP is what Telegram gets, whatever mixture an
\* earlier cut run had left (existing_zip_entries overlaid with staged).
ZipMatchesDirectory ==
  (pc = "upload" \/ (pc = "idle" /\ result = "ok" /\ ~dryRun))
    => disk[ZipFile] = [f \in TextFiles |-> disk[f]]

\* A history that cannot be loaded is never replaced by the collector
\* (history_writable), deadline or not.
DamagedHistoryKept ==
  [][~disk[History].readable => disk'[History] = disk[History]]_vars

\* While a line stays in the history file its first observation does not
\* move, and its last one never goes back (observe_discovered, cleanup).
FirstSeenFixed ==
  [][disk[History].readable /\ disk'[History].readable =>
       \A x \in DOMAIN disk[History].entries \cap DOMAIN disk'[History].entries :
         /\ disk'[History].entries[x].first = disk[History].entries[x].first
         /\ disk'[History].entries[x].last >= disk[History].entries[x].last]_vars

\* The conditions of FreshOnlyOnEvidence: "bridge_history.json" sorts before
\* the files of every list the collector fills (config.rs), and no merge
\* follows one that purges.
HistoryFirst ==
  \A l \in Lists : \A i, j \in DOMAIN PublishOrder :
    PublishOrder[i] = History /\ PublishOrder[j] = Archive(l) => i < j

NoPurgeBetween == MaxRuns <= Retention + 1

Merging == pc = "collect" /\ pc' = "publish" /\ ~deadline'

\* With a loadable history and no purge in between, a line the archive
\* already had is marked fresh only on the history's evidence: it was first
\* seen inside the window (publish_staged's order puts the history first,
\* so a cut publication never leaves an archived line without an entry).
FreshOnlyOnEvidence ==
  [][Merging /\ disk[History].readable =>
       \A l \in Lists : HasOutcome(l) =>
         \A x \in staged'[Recent(l)] \cap disk[Archive(l)] :
            /\ x \in DOMAIN disk[History].entries
            /\ disk[History].entries[x].first > now - RecentHours]_vars

\* What is published does not depend on the order the list tasks end in
\* ("merged below in stable transport order, which keeps publication
\* deterministic", run_inner).
DeterministicPublication ==
  \A l \in Lists : \A i, j \in DOMAIN outcomes[l] :
     /\ outcomes[l][i].archive = outcomes[l][j].archive
     /\ outcomes[l][i].tested = outcomes[l][j].tested

\* Whatever stalls, a run ends (the timeout around run_inner).
RunEnds == (pc # "idle") ~> (pc = "idle")
=============================================================================

# Verification of the Tor bridge collector

TLA+ models of the stateful and concurrent parts of this repository, and of the
workflows that publish from it, TLC configurations that check them on small instances, and TLAPS proofs of what
matters most for every value of the constants.

Check a model with `tlc -config MCAgent_reports.cfg Agent`, a proof module with
`tlapm Agent_proofs.tla`. Paths below are relative to the repository root.

## 1. The system

Every hour a CI job (`.github/workflows/torshield-ir.yml`, stage 0b) runs the
collector: acquire bridge lines, probe them, merge them into a history, publish
`bridge/*.txt` and a ZIP, upload the ZIP. Later stages score and republish what
is on disk (stage 9), deliver the ZIP to Telegram, fuse in more sources (stage
8p2) and push the result to `main` (stage 11). Three other workflows push to the
same branch every hour: the pool autofill, the fusion and the Iran vantage. They
share no lock, only the branch. A volunteer agent and a set of library crates form a second, newer
system in `crates/`.

| Component | State | Operations | Interacts with |
|---|---|---|---|
| collector run, `src/tor_collector/{service,storage}.rs` | files on disk, in-memory history, join sets, staged files | `run`, `run_inner`, `collect_list`, `flush_partial`, `publish_staged`, `HistoryStore` | awaits the fetch and probe tasks; shares the directory with the other stages and with its own earlier runs |
| source acquisition, `src/tor_collector/fetch.rs` | two maps of the source breaker, under two mutexes | `allow`, `record`, `fetch_bridgedb`, `fetch_community_sources` | one breaker shared by all acquisition tasks |
| probe engine, `src/tor_collector/tester.rs` | front breaker, success counts, a semaphore per chunk | `test_many`, `probe`, `probe_once`, `allow`, `record`, `record_batch` | shared by all list tasks |
| fetch path, `crates/sources/src/{source,circuit_breaker,rate_limit,backoff}.rs` | breaker per host, one token bucket | `fetch_guarded` | shared by all sources |
| collectors and cache, `crates/sources/src/{sources/github,http,cache}.rs` | validators per URL | `collect`, `collect_url`, `HttpClient::get` | the cache outlives a collection |
| volunteer agent, `crates/agent/src` | consent, buckets, permits, batcher, emitted batches | `handle_request`, `grant_consent`, `record_report`, `take_emitted_batches` | a task per connection |
| k-anonymity batcher, `crates/k-anonymity/src` | held reports | `submit` | the abstraction of the agent's batcher |
| bridge publication, `src/bridge_publication.rs`, `scripts/publication_contract.sh` | lists, history, manifest, ZIP, README | `publish_at`, `verify_publication`; `--check`, `--rebuild` | called by the collector's job and by every bot that changes a list |
| publication bots, `.github/workflows/{torshield-ir,bridge-pool-autofill,auto-bridge-fusion,iran-vantage}.yml` and their scripts | a checkout, a working tree, a commit per run; `origin/main` | check out, work, attest, commit, push; rebase, restore or start again when the push is rejected | race each other for `main` |
| publisher of the new crates, `crates/publish` | published files, archive, manifest | `Publisher::write` | `crates/cli` |
| quarantine, `src/quarantine_manager.rs` | entries in memory, state file, log | `record_*`, `release`, `update_from_ooni_history` | later stages |
| other breakers, `src/slot_circuit_breaker.rs`, `src/circuit_breaker_11slot.rs`, `src/torshield_ai_gateway` | breaker per provider or slot, saved state | `allow`, `mark_*`, `save_state`, `load_state`, `get_primary` | the AI gateway |
| vantage, store, prober, score, transports and other crates; scorers; relay, Go and Zig programs | see PROJECT.json | | |

What is hard in it:

- many tasks share one breaker, one bucket or one count, and record results of
  requests that were let in long before (probe engine, fetch path, acquisition);
- state is kept in two places under two mutexes (source breaker, agent reports);
- files are replaced one at a time, and the process is killed by a deadline of
  its own or by the CI step anywhere in between; the next run starts from there;
- bots that started from different commits push to one branch, and each has its
  own way of merging what it finds there; a publication is many files whose
  hashes are in other files, so a merge of two of them is usually neither;
- what an earlier run left (history, archives, validators) decides what the
  next one believes;
- limits and early returns must not leak permits or leave a request unanswered.

PROJECT.json lists these as hazards, with the line where each one bites and the
properties that cover it. What makes the components correct, in words: archives
only grow and recommendations stay inside them; a run always ends; breakers
block when, and only when, and only for as long as, they should; budgets are kept however calls
interleave; a report without failures has everything that was listed; no probe without consent; no
report alone, none twice; no permit lost; what `main` holds is one publication
that matches its own manifest, and no bot's work or measurement is dropped by
anything but a purge.

## 2. Modules

| Module | Models | State and actions |
|---|---|---|
| `CollectorRun` | `service.rs`, `storage.rs` | `disk` maps each file to its content (a set of lines, the history's stamps, the ZIP's files). `StartRun` loads the history; `Fetch` joins an acquisition task, `BuildJobs` makes the list tasks, `CollectOutcome`, `CollectNothing`, `CollectPanic` join them; `Merge` is the stretch without an await from the last join to the publication; `PublishFile` is one iteration of `publish_staged`; `PublishError`, `Deadline`, `Kill`, `Upload`, `PublishEnd` end or cut a run; `DamageHistory` is another stage's damage |
| `MCCollectorRun` | | path orders and built-in lines of the instances |
| `SourceFetch` | `fetch.rs` | a strand per task and source key. `Allow` and `AllowFailures`, `Record` and `RecordOpen` are the two lock regions of `allow` and `record`; `Respond` is the end of a request; `Continue` the second BridgeDB URL |
| `ProbeEngine` | `tester.rs` | `StartChunk`, `EndChunk` per list; `Begin`, `Connect`, `Ask` (`Refused`, `LetThrough`), `Answer` (`Record`), `Retry` per probe |
| `MCProbeEngine` | | the lists and fronts of the instance |
| `GuardedFetch` | `source.rs`, `circuit_breaker.rs`, `rate_limit.rs` | `Call` and `Refuse` (`allow`, `take`), `FirstSend`, `Succeed`, `FailRetryably`, `Fail`, `Retry`, `Tick` |
| `ContentsSource` | `github.rs`, `http.rs`, `cache.rs` | `StartCollection`, `ListingFails`, `ListingNotModified`, `ListingBody`, `FileFails`, `FileNotModified`, `FileBody`, `EndCollection`; `Commit` is the repository changing |
| `Agent` | `crates/agent` | `Admit`, `Acquire`, `StartProbe`, `Submit`, `Emit`, `Respond` per connection; `GrantConsent`, `TakeEmitted`, `Tick`, `Restart` |
| `KAnonymity` | `crates/k-anonymity` | the abstract specification `Agent` implements: `KSubmit`, `KDrain`, `KDecline`, `KStop` |
| `BridgePublication` | `bridge_publication.rs`, `publication_contract.sh`, git's line merge | no state: the published tree as a record (payload, manifest, ZIP, README, vantage log) and the operations on it. `Publish` is `publish_at`, `Attested` is `--rebuild`, `CutRebuilds` what it leaves when killed, `Verified` and `Contract` the two checks, `Rebased` the outcomes of `git rebase -X theirs` |
| `MainBranch` | the four workflows and their scripts | `main` and, per run, its base commit, working tree, pushes and place. `Collect`, `PublishAndDeliver`, `Finalize`, `Guard`, `Restore` or `Refuse`, `PushHourly`, `RetryHourly`, `GiveUpHourly` are the hourly run; `Refill`, `RebaseAutofill`, `YieldAutofill`, `PushAutofill` the autofill; `Fuse`, `PushFusion` the fusion; `Measure`, `RebaseVantage`, `ConflictVantage`, `PushVantage` the vantage. `Trigger`, `Abort` and `GiveUp` are any run's |
| `MCMainBranch` | | the concurrency groups of the instance |
| `*_proofs` | | theorems and proofs about the module of that name |

A step is atomic in a model when the code does it under one lock, or between two
awaits of a task nobody else can observe. Data is abstracted to what the
properties tell apart: a line is a value, a file a set of lines, an HTTP answer
one of the classes the code distinguishes, time a number of ticks.

Abstractions worth knowing. Which candidates a test ceiling keeps depends on
floating-point health scores and is nondeterministic. A panicking probe task,
which the collector logs and skips, is left out; a panicking list or acquisition
task is modelled. In `CollectorRun` a file is written atomically (temporary file
and rename); leftover temporaries are ignored. `PublishOrder` is the order of a
`BTreeMap` of paths; the assumption about it (an archive's path sorts before the
paths of its fresh and tested lists) is the fact about names the proofs rest on.
The `MC` instances use orders computed from the real names. `hits`, `streak`,
`released`, `spent`, `received`, `partial` and `reportOf` are
history variables: no guard reads them; so are `blended`, `crossed`, `purged` and
`sent`. In `ContentsSource` a body may or may not add a failure to the report,
because the parsers record a rejected line but skip some values without a word
(below).

In `MainBranch` a file is the set of the works (run's collections, measurements,
fusions) it holds, and a hash is the content it was taken of. The payload is kept
in two parts, because `publish_at` projects one from the other: the canonical
history and the lists. A line merge may take either side's word on a line only
one side touched, so a rebase has many outcomes; a file of one value is taken from one side. Which
bridges a projection selects, fallback lines, counts and scores are left out. The
runner's disk goes with the job, so a killed run leaves nothing but what it
pushed. A run's own triggers (a fusion follows an hourly run) are not modelled:
runs start at any time, which allows more.

The history also shrinks, by two purges. `Collect` may drop any of the records its
checkout had (`HistoryStore::cleanup` keeps only those seen within the retention;
how old one is, is left out), but not one the run saw again. `purge_conjure.sh`
drops conjure records, in the fusion (where a failed or cut purge stops nothing:
`Purges`) and in the autofill (where it fails the job). Conjure lines enter with an
hourly run's collection. `purged` keeps, per run, what its purges may have taken out
of the history.

An archive carries who built it, because the same payload does not give the same
bytes: `publish_at` zips in Rust, `--rebuild` always zips again with Python's
`zipfile`. The per-file counts and the summary of the manifest, which the fusion
and `--sync-counts` rewrite, are left out: a wrong count is only an advisory of the
contract, and the archive, which holds the manifest, is built again after they are
written and then counts as another one anyway.

## 3. Runs

| Run | Instance | What it shows |
|---|---|---|
| `collector_lists` | two lists with the ZIP written between their files, two runs, all failures | types, `SubsetsOfArchive`, `ArchivesOnlyGrow`, `DamagedHistoryKept`, `FirstSeenFixed`, `ZipMatchesDirectory`, `FreshOnlyOnEvidence`, `RunEnds` |
| `collector_list_order` | a fronted list without source lines | **violated**: `DeterministicPublication` |
| `source_locks_agree` | two tasks, BridgeDB and a mirror | types, `MapsAgree`, `OnlyCrossWaitBlocks` |
| `source_lock_order` | the same, with fairness | **violated**: `AcquisitionEnds` |
| `probe_engine` | two lists, five lines, one front, two attempts | types, `BlockedIffFailing`, `FailuresCoverHits`, `StormBounded`, `ResultsCounted`, `ListsEnd` |
| `guarded_fetch` | two sources, three calls each, two attempts, as many trials as successes needed | types, `PacedByBudget`, `HalfOpenAdmits`, `OpensOnSustainedFailure`, `OpenForItsDuration`, `OpenDrains`, `CallReturns` |
| `breaker_stuck` | the default proportion: two successes needed, one trial allowed | **violated**: `NeverStuck` |
| `contents_cache` | a text, a json and an unusable file, three collections | types, `CachedWasReceived`, `ListedWasReceived`, `CleanUnlessCachedPartially` |
| `contents_not_modified` | the same | **violated**: `CleanRunIsComplete` |
| `agent_reports` | three connections, two clients, K = 2, two permits, one restart | types, `ConsentFirst`, `PermitsConserved`, `RateRespected`, `Anonymous`, `OnceOnly`, the refinement `MixesReports`, `Answered` |
| `main_race` | one hourly run, autofill and fusion, two vantage runs (interchangeable, a symmetry set), two pushes each | types, `AttestedUnlessBlended`, `OnlyPurgesDrop`, `OwnWorkArrives` |
| `main_same_bytes` | one hourly run and one autofill | **violated**: `SameBytes` |

Why the bounds are enough. Two runs let a list be published, damaged or cut,
and recovered, and let a line's fresh window and its retention both end; two
lines tell a lost line from a kept one. Two tasks (or sources, or lists) are all
a two-mutex deadlock or a late answer needs, and every per-key count is
independent of the other keys. Thresholds of two tell "consecutive" from "any";
two attempts make a retry happen; the clocks run past a cooldown and
into the state behind it. Three reports with K = 2 make a batch and one report
more. Two pushes let
a run lose a race, merge, and lose or win again; one run of each bot meets every
pair of merges, and two vantage runs the only merge a bot has with itself; two
hourly runs with an autofill were tried apart and satisfy the inductive invariant
too. Clocks, calls, runs, restarts and versions are bounded, and processes
really end, so every configuration says `CHECK_DEADLOCK FALSE`; where it matters that
nothing waits for ever, a liveness property says so instead.

Every property has a mutant: an operator of the module, defined next to the one
it would replace (`X_Something` next to `X`), that makes a plausible mistake and
with which the run fails.

### Fairness

- `CollectorRun`: the deadline timer fires (`WF` of `Deadline`) and the stretches
  without an await finish (`Merge`, `PublishFile`, `PublishEnd`). No source, probe
  or upload is assumed to answer; `RunEnds` therefore rests on the timer alone.
- `SourceFetch`: every strand runs when it can, requests time out
  (`fetch_text`'s client timeout), and a free mutex is taken by a waiting thread.
- `ProbeEngine`: the runtime polls every task, connects and handshakes time out.
- `GuardedFetch`: time passes, sleeps end, requests are answered or time out.
- `MainBranch`: none. Its properties are safety properties, and whether a hosted
  runner or a push loop ever gets through is nothing the code can promise.
- `Agent`: the runtime polls every task; reads, connects and writes have timeouts
  (`server.rs` `read_some`, `write_all`; the engine's `connect_timeout`). A body
  over the size limit and a failed read, which get no answer, are not requests of
  the model, so `Answered` says nothing of them.

### Disagreements found

1. `collector_list_order`. `service.rs:223-226` pushes a second job for a fronted
   IPv4 list without source lines. Two `collect_list` tasks of one list run
   concurrently and the one that ends last is published, although the comment at
   230-231 says the order of merging keeps publication deterministic. It does
   for every other list (`OnlyFrontedVary`, proved).
2. `source_lock_order`. `allow` takes `open_since` and then `failures`, `record`
   the other way round. On two threads they can wait for each other for ever. It
   needs a cooldown (600 s by default) to elapse inside a run (660 s by default,
   820 s in the workflow), so it is rare. `OnlyCrossWaitBlocks` shows it is the
   only way the acquisition stops (`CanStep` writes out when a strand can take a
   step; TLC finds it equal to `ENABLED Step`), `ShortRunGoesOn` that it needs
   the elapsed cooldown.
3. `breaker_stuck`. With the default `half_open_max` (1) below the default
   `success_threshold` (2), the first successful trial leaves the breaker
   half-open and closed to everybody, for good (`StuckForGood`, proved).
4. `contents_not_modified`. A listing that answers 304 gives an empty report
   without failures, also when the listed files failed before, or when the
   listing itself could not be parsed after its validators were cached.
   `CleanUnlessCachedPartially`, proved, says it is the only way a clean report
   misses a file.
5. `main_same_bytes`. The header of `torshield-ir.yml` (36-39) and
   `src/bin/sync_bridge_outputs.rs:5-6` say GitHub and Telegram receive identical
   bytes. The ZIP is delivered in stage 9; stage 8p2 then fuses and attests
   again, and so may the guard, so stage 11 commits another ZIP. Even a fusion that
   adds nothing zips again with another program (`publication_contract.sh:386-398`),
   so only a failed fusion leaves the delivered ZIP (`SameBytesUnlessRebuilt`).

Why `AttestedUnlessBlended` has its exception. The autofill checks the contract,
commits, and, when its push is rejected, rebases with `-X theirs` and pushes
again (`bridge-pool-autofill.yml` 158-168) without attesting or checking. The
comment above its re-attestation (111-113) says any payload change must be
re-attested. TLC finds `main` unattested in seven steps: an autofill works on its
checkout; a fusion pushes; the autofill's push is rejected, its lists are merged line by line
with the fusion's while manifest, ZIP and README hash stay its own, and the next
push is accepted. The incident told in `publication_contract.sh` (5-12) is such a
mixture. Every other publisher is shown never to push one, and an hourly run or a
fusion repairs it.

Why `OnlyPurgesDrop` has its exceptions. What the pushing run's own purges took out
may go: they are meant to. Beyond that, two pushes drop more, and with either
exception removed TLC finds a counterexample. First, stage 11 restores `bridge/`,
`data/`, `docs/`, `export/` and `README.md` from its own commit after the rebase,
so whatever other bots pushed since its checkout is gone: bridges the fusion
admitted to the history, and lines of `data/iran_vantage.jsonl`, which
`docs/IRAN_VANTAGE.md:5` calls append-only. The header's "every artifact starts
from the latest committed state" (56-59) does not hold either: the commit is fixed
when the event fires, and the concurrency group differs per event. Second, an
autofill that deleted conjure records and lost a push is rebased with `-X theirs`:
where its deletions meet records another bot has added, git may take the autofill's
side of the whole hunk, and the new records go with the purged ones
(`bridge-pool-autofill.yml:162`). An autofill that purged nothing leaves `main`'s
history as it is, and none ever drops a line of the vantage log.

Met on the way, and not run as violations because no document clearly says
otherwise, or because the consequence is small: when the deadline fires, what the
run collected is dropped (`flush_partial` reads the archives from disk); while the history is
damaged every archived line counts as fresh; BridgeDB's second URL
and a call's retries do not ask the breaker again; trials in flight are not counted
against `half_open_max`; a file whose `download_url` is no URL is logged but not in the
report; `parsers.rs` says that parsing is "never silent" (3-6), but
`collect_candidates` (103-134) skips JSON objects without a known key, and scalars,
without a rejection, so a body can yield neither a bridge nor a failure (a fact about
one pure function, which needs no model to see).

## 4. Proofs

All theorems hold for every value of the constants that satisfies the named
assumption of the module; the assumptions are what the configuration code
enforces (positive thresholds, bounds in the right order), finiteness of the
sets of actors, and the path order above.

- **CollectorRun_proofs.** `TypeCorrect`, and the inductive invariant
  `PublicationInv`: types, `SubsetsOfArchive`, all outcomes extend the archives
  on disk (`OutcomesExtendDisk`), what is staged extends them and stages a fresh
  or tested list only together with its archive (`StagedExtendsDisk`), and the
  passed prefix of the publication is on disk (`PrefixPublished`). The last is
  what makes a kill between two files harmless: when a fresh or tested list is
  replaced, its archive, earlier in the order, already was. `SubsetsOfArchive`
  alone is not inductive. It gives `SubsetsOfArchiveHolds` and, as an action
  property, `ArchivesOnlyGrowHolds`. `HistoryInv` (a run's `writable` flag stays
  true to the file, and without it the history is not staged) gives
  `DamagedHistoryKeptHolds`.
  `ZipInv` follows the ZIP from the merge to the last path: what it holds of each
  file is what is staged or, if nothing is, what is on disk (`ZipStaged`), and
  with the whole order passed, `PrefixPublished` turns that into equality with the
  directory (`PublishedZip`, `ZipMatchesDirectoryHolds`). A deadline's
  publication stages no ZIP and promises nothing.
  `StampInv` (the run holds the history it loaded, every stamp is of a run that
  has happened, the staged history continues the one on disk) gives
  `FirstSeenFixedHolds`.
  `EvidenceInv` says that no archived line lacks a history entry, at whatever path
  a publication is cut: what a task adds to an archive it hands to the history
  (`OutcomesObserved`), so the staged history has what the staged archives add
  (`StagedWitnessed`), and it is written first. `FreshOnlyOnEvidenceHolds` follows,
  under two conditions that `MCCollectorRun` has TLC check of the instances:
  `HistoryFirst`, which the names give by default (`BRIDGE_HISTORY_FILE` may put the
  history elsewhere), and `NoPurgeBetween`, the "no purge in between" of the
  property: a purged line that is still archived counts as new.
  `TasksInv` (a list that is not fronted has one task, or its one outcome) gives
  `OnlyFrontedVary`.
- **SourceFetch_proofs.** `MapsInv`: the holder of a mutex is where `pc` says
  (`LocksHeld`), a strand between its two lock regions has updated exactly one
  map (`HalfWay`), and the maps agree for all other keys (`AgreeOutside`). Gives
  `MapsAgreeHolds`. The same invariant is why the deadlock is possible, and why
  nothing else is: a held mutex is held by a strand between its regions, which
  goes on unless the other mutex is held too; with both free, a task has BridgeDB
  to ask, a mirror to ask or an answer to wait for (`QuietTaskGoesOn`).
  `OnlyCrossWaitBlocksHolds` and `ShortRunGoesOn` follow.
- **ProbeEngine_proofs.** `TypeInv` adds that an unfinished probe has an attempt
  left. `FrontInv` is `BlockedIffFailing` and `FailuresCoverHits`; the second
  needs the cardinality of the probes under way, one added by `LetThrough`, one
  removed by `Answer`. `ChunkInv` adds to `ResultsCounted` that the chunk under way
  begins where the recorded ones end, so that `EndChunk` counts each probe once.
  `StormBoundedHolds` combines the two: while a circuit is closed its requests are
  counted failures, fewer than the threshold, or under way, and those are at most
  the workers of all lists (`GroupsBound`: a union of as many groups as lists, each
  of at most `MaxWorkers`, counted through an injection into pairs); while it is
  open none is sent (`HitsSettle`).
- **GuardedFetch_proofs.** `BreakerInv` bounds the counts by the streak of
  failures; it gives `OpensOnSustainedFailureHolds` and, when
  `SuccessThreshold <= HalfOpenMax`, `HalfOpenAdmitsHolds` (the defaults do not
  satisfy that, see above; `StuckForGood` is what follows when they are violated:
  once half-open with its trials used up and no call under way, no step changes
  the breaker). `BudgetInv` (with `DueBound`) bounds, for every time
  t, the calls released or due by t by the tokens there will have been, which is
  what `PacedByBudget` needs because debt makes callers wait.
  `OpenForItsDurationHolds` follows from the actions alone, `OpenDrainsHolds` from
  them and the types.
- **ContentsSource_proofs.** `CacheInv`: `CachedWasReceived`, and that a listed file which is neither waiting nor
  reported has been received in the listed version or a later one
  (`Progressed`). It holds across a commit between two requests because versions
  only grow, and its 304 case needs the first part. `CachedWasReceivedHolds`
  and `ListedWasReceivedHolds` follow. `ListingInv` adds that a listing cached by a
  collection without failures is complete, which a later 304 then inherits:
  `CleanUnlessCachedPartiallyHolds`.
- **Agent_proofs.** `PermitsInv` counts the holders; `ConsentInv`; and `MixInv`:
  types, the two promises of `KAnonymity`, and that batches in different hands
  are disjoint (`HandsApart`). `MixesReportsHolds` is the refinement: `Submit`
  is `KSubmit`, `Emit` and everything before the probe are stutters or
  `KDecline`, `TakeEmitted` is `KDrain`, `Restart` is `KStop`.
  `RateInv` says that what was spent from any tick on, together with what the
  bucket would hold now, is at most the burst and the refills since that tick; it is
  `RateRespected` with the bucket counted in, without which an idle bucket's saved
  tokens are forgotten, and it gives `RateRespectedHolds`. What the sum of a window
  is, and that one more request adds one to the sums it is in, is proved by
  induction over the ticks from the least element of a set of naturals
  (`LeastElement`, `IntervalInduction`), where the property is a set and not an
  operator parameter.

- **MainBranch_proofs.** `IInv` adds to types and `AttestedUnlessBlended`, for
  every run: what its tree is worth on its commit (`OwnTree`, by bot: an hourly
  run and a fusion keep what they did not purge of the history of their commit, an
  autofill too until it is blended, only the vantage adds to the log, and what is about to be pushed is attested unless it was blended), that a
  run whose push would be accepted was made on what `main` holds, hourly runs
  excepted (`UpToDate`), and that its own work is on nobody else's tree
  (`OwnOnly`), which is why a line merge cannot mistake it for a deletion.
  `StepOfOne` and `PushOfOne` are the frame arguments: a step of one run disturbs
  the three of another run only through `main`. One lemma per action follows,
  and the three properties from `IInv` and the lemma that only a push changes
  `main`. `SameBytes` is false, and
  `SameBytesUnlessRebuilt` says how far it holds: an hourly run pushes the ZIP it
  delivered exactly when the one it pushes is still the publisher's, which neither
  the fusion nor the guard rebuilt, and then the payload is the delivered one. It
  follows from `IInv` and `DeliveredInv`: an hourly run that has delivered and whose
  tree has an archive of the publisher has the delivered one, through whatever
  restores and retries. The
  theorems hold for any number of runs and any grouping of them.

Model-checked only: all liveness (`RunEnds`, `ListsEnd`, `CallReturns`,
`Answered`), which needs fairness and `ENABLED` and is beyond TLAPS; and the five
violations, which are counterexamples. Every invariant and every action property
of the passing runs is proved.

## 5. Not modelled

Text processing (parsing, readme, scoring, formatting) has no state; its results
are chosen nondeterministically where they matter. The Telegram reader runs alone
after the acquisition joins. The obfs4 handshake harness of `tester.rs`, the
Prometheus counters and the optional metrics file are left out. The relay,
the Go and Zig programs and the scripts that do not publish are separate programs.
SQLite's transactions are the database's to guarantee.

Of the publication: the projections themselves (`write_transport_family`,
`write_iran_projections`, `write_requested_projections`: which bridge goes into
which list, on what evidence), the stages of the hourly workflow that analyse and
advise, and its checks after the push.

The quarantine manager never quarantines in production: its trigger is a z-score
over a window of seven values (`quarantine_manager.rs` 130-155), which needs
values beyond the window, and its caller fetches seven days
(`bin/ooni_correlator.rs:32`). No production path calls the gateway's breakers and
the slot rotator. Models of either would be of code that does not run.

## 6. Plan

Done: CollectorRun, SourceFetch, ProbeEngine, GuardedFetch, ContentsSource,
Agent over KAnonymity, MainBranch over BridgePublication, in this order, with
their proofs.

Next:

1. Proofs: the liveness properties are out of the provers' reach; what is left is
   what `BridgePublication`'s operators promise each other (a cut re-attestation
   satisfies the contract only when it is complete), stated apart from
   `MainBranch`.
2. `Publisher::write` of `crates/publish` as a second refinement of
   `BridgePublication`.
3. The evidence rules of the projections (`bridge_publication.rs` 569-780,
   1025-1160, 1574-1885) as operators over records, against a reference
   definition of each list.

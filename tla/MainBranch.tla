----------------------------- MODULE MainBranch -----------------------------
(***************************************************************************)
(* The four bots that publish to origin/main (.github/workflows): the      *)
(* hourly pipeline, the pool autofill, the fusion and the Iran vantage.    *)
(* Each run checks a commit out, works on its own tree for minutes, and    *)
(* pushes; a push is accepted only when it extends the branch, and each    *)
(* bot has its own way of going on when it is not.  A run can fail, be     *)
(* cancelled or time out at any step.                                      *)
(***************************************************************************)
EXTENDS Integers, FiniteSets

CONSTANTS
  HourlyRuns, AutofillRuns, FusionRuns, VantageRuns,
  Group,       \* run -> its concurrency group
  MaxTries,    \* pushes a run attempts
  NoZip        \* nothing was sent to Telegram

Runs == HourlyRuns \cup AutofillRuns \cup FusionRuns \cup VantageRuns

\* A run adds what it collected or measured; an hourly run's fusion adds more,
\* and what an hourly run collects may hold conjure lines, kept apart here.
Work == (Runs \X {"own"}) \cup (HourlyRuns \X {"fusion", "conjure"})
Own(r)       == <<r, "own">>
Fused(r)     == <<r, "fusion">>
ConjureOf(h) == <<h, "conjure">>
Conjure      == HourlyRuns \X {"conjure"}

INSTANCE BridgePublication

ASSUME BranchAssumption ==
  /\ HourlyRuns \cap (AutofillRuns \cup FusionRuns \cup VantageRuns) = {}
  /\ AutofillRuns \cap (FusionRuns \cup VantageRuns) = {}
  /\ FusionRuns \cap VantageRuns = {}
  /\ MaxTries \in Nat \ {0}
  /\ NoZip \notin Archive

VARIABLES
  main,      \* the tree at origin/main
  version,   \* the number of pushes to it
  blended,   \* main is the line merge of two publications
  pc,        \* run -> where it is
  base,      \* run -> the tree its commit is made on
  seen,      \* run -> the version that tree was
  tree,      \* run -> its working tree
  tries,     \* run -> pushes attempted
  crossed,   \* run -> its tree is the line merge of two publications
  purged,    \* run -> what its purges may have taken out of the history
  sent       \* run -> the ZIP it delivered to Telegram

runVars == <<base, seen, tree, tries, crossed, purged, sent>>
vars == <<main, version, blended, pc, runVars>>

Empty ==
  LET none == [history |-> {}, lists |-> {}]
      zip  == [by |-> "publisher", pay |-> none, man |-> none]
  IN [pay |-> none, man |-> none, zip |-> zip, readme |-> zip, log |-> {}]

Init ==
  /\ main = Empty /\ version = 0 /\ blended = FALSE
  /\ pc = [r \in Runs |-> "idle"]
  /\ base = [r \in Runs |-> Empty] /\ tree = [r \in Runs |-> Empty]
  /\ seen = [r \in Runs |-> 0] /\ tries = [r \in Runs |-> 0]
  /\ crossed = [r \in Runs |-> FALSE] /\ purged = [r \in Runs |-> {}]
  /\ sent = [r \in Runs |-> NoZip]

Active(r) == pc[r] \notin {"idle", "queued", "done"}

\* The concurrency group admits one run at a time.
GroupFree(r) == \A q \in Runs \ {r} : Group[q] = Group[r] => ~Active(q)

\* The publish group of the finalize job.
PublishFree(h) ==
  \A q \in HourlyRuns \ {h} :
    pc[q] \notin {"published", "finalized", "guarded", "pushing"}

Become(r, where) == pc' = [pc EXCEPT ![r] = where]
Make(r, t) == tree' = [tree EXCEPT ![r] = t]
CheckOut(r, t) ==
  /\ base' = [base EXCEPT ![r] = t]
  /\ seen' = [seen EXCEPT ![r] = version]
UnchangedMain == UNCHANGED <<main, version, blended>>

\* The job ends, and its runner is discarded with everything on it.
End(r) ==
  /\ Become(r, "done") /\ Make(r, Empty)
  /\ base' = [base EXCEPT ![r] = Empty] /\ seen' = [seen EXCEPT ![r] = 0]
  /\ tries' = [tries EXCEPT ![r] = 0]
  /\ crossed' = [crossed EXCEPT ![r] = FALSE]
  /\ purged' = [purged EXCEPT ![r] = {}]
  /\ sent' = [sent EXCEPT ![r] = NoZip]

\* The event fixes the commit the run will check out, however long it queues.
Trigger(r) ==
  /\ pc[r] = "idle"
  /\ Become(r, "queued")
  /\ CheckOut(r, main)
  /\ UnchangedMain /\ UNCHANGED <<tree, tries, crossed, purged, sent>>

\* The run fails, is cancelled, exceeds its timeout or has nothing to commit.
Abort(r) ==
  /\ pc[r] \notin {"idle", "done"}
  /\ End(r) /\ UnchangedMain

Accepted(r) == pc[r] = "pushing" /\ seen[r] = version
Rejected(r) == pc[r] = "pushing" /\ seen[r] # version

\* git push of a commit that extends main.
Push(r) ==
  /\ Accepted(r)
  /\ main' = tree[r] /\ version' = version + 1
  /\ End(r)

\* The push was the last one the loop allows.
GiveUp(r) ==
  /\ Rejected(r) /\ tries[r] + 1 = MaxTries
  /\ End(r) /\ UnchangedMain

\* Mutant: the loop does not end.
CountTry_Unbounded(r) == tries' = [tries EXCEPT ![r] = @ + 1]

CountTry(r) ==
  /\ tries[r] + 1 < MaxTries
  /\ tries' = [tries EXCEPT ![r] = @ + 1]

(***************************************************************************)
(* torshield-ir.yml                                                        *)
(***************************************************************************)

\* Stages 0-6: the history gains this run's bridges, and published lines
\* that the collector found archived and probed again; records not seen
\* within the retention are purged.
Collect(h) ==
  /\ pc[h] = "queued" /\ GroupFree(h)
  /\ Become(h, "collected")
  /\ \E old \in SUBSET base[h].pay.history,
        again \in SUBSET base[h].pay.lists,
        found \in {{Own(h)}, {Own(h), ConjureOf(h)}} :
       /\ Make(h, WithHistory(base[h],
                    (base[h].pay.history \ old) \cup again \cup found))
       /\ purged' = [purged EXCEPT ![h] = old \ again]
  /\ UnchangedMain /\ UNCHANGED <<base, seen, tries, crossed, sent>>

\* Stages 9 and 9b: publish, deliver the ZIP when configured, verify.
PublishAndDeliver(h) ==
  /\ pc[h] = "collected" /\ PublishFree(h)
  /\ Become(h, "published")
  /\ Make(h, Publish(tree[h]))
  /\ \E zip \in {NoZip, Publish(tree[h]).zip} :
       sent' = [sent EXCEPT ![h] = zip]
  /\ UnchangedMain /\ UNCHANGED <<base, seen, tries, crossed, purged>>

\* purge_conjure.sh: the text files, then the JSON files.
ScrubbedLists(t) == WithLists(t, t.pay.lists \ Conjure)
Scrubbed(t)      == WithHistory(ScrubbedLists(t), t.pay.history \ Conjure)

\* The fusion goes on when the purge fails.
Purges(t)  == {t, ScrubbedLists(t), Scrubbed(t)}
Purging(r, t) == purged' = [purged EXCEPT ![r] = @ \cup (t.pay.history \cap Conjure)]

\* auto_bridge_fusion.sh writes the lists, then the history, purges and
\* attests.
FusedLists(t, work)   == WithLists(t, t.pay.lists \cup {work})
FusedPayload(t, work) ==
  WithHistory(FusedLists(t, work), t.pay.history \cup {work})
Fusions(t, work)   == {Attested(p) : p \in Purges(FusedPayload(t, work))}
CutFusion(t, work) ==
  {t, FusedLists(t, work)}
    \cup UNION {CutRebuilds(p) : p \in Purges(FusedPayload(t, work))}

\* Stage 8p2 runs the fusion again; a failure or its timeout does not stop
\* the job.
Finalize(h) ==
  /\ pc[h] = "published"
  /\ Become(h, "finalized")
  /\ \E t \in CutFusion(tree[h], Fused(h)) : Make(h, t)
  /\ Purging(h, tree[h])
  /\ UnchangedMain /\ UNCHANGED <<base, seen, tries, crossed, sent>>

\* guard_bridge_publication.sh: a degraded run gets back what the checked
\* out commit held of the files it emptied, and is attested again.
Guard(h) ==
  /\ pc[h] = "finalized"
  /\ Become(h, "guarded")
  /\ \E back \in SUBSET (base[h].pay.lists \ tree[h].pay.lists) :
       Make(h, IF back = {} THEN tree[h]
               ELSE Attested(WithLists(tree[h], tree[h].pay.lists \cup back)))
  /\ UnchangedMain /\ UNCHANGED <<base, seen, tries, crossed, purged, sent>>

\* Mutant: the contract is not checked before the push.
Restore_Unchecked(h) ==
  /\ pc[h] = "guarded"
  /\ Become(h, "pushing")
  /\ seen' = [seen EXCEPT ![h] = version]
  /\ UnchangedMain /\ UNCHANGED <<base, tree, tries, crossed, purged, sent>>

\* Stage 11 rebases its commit and then restores every generated directory
\* from it, so main's version of them is dropped; the contract is checked
\* before the push and a violation fails the job.
Restore(h) ==
  /\ pc[h] = "guarded" /\ Contract(tree[h])
  /\ Become(h, "pushing")
  /\ seen' = [seen EXCEPT ![h] = version]
  /\ UnchangedMain /\ UNCHANGED <<base, tree, tries, crossed, purged, sent>>

Refuse(h) ==
  /\ pc[h] = "guarded" /\ ~Contract(tree[h])
  /\ End(h) /\ UnchangedMain

\* A rebase conflict, or a rejected push, goes back to the fetch.
Conflict(h) == pc[h] = "guarded" /\ main # base[h]

RetryHourly(h) ==
  /\ Conflict(h) \/ Rejected(h)
  /\ Become(h, "guarded") /\ CountTry(h)
  /\ UnchangedMain /\ UNCHANGED <<base, seen, tree, crossed, purged, sent>>

GiveUpHourly(h) ==
  /\ Conflict(h) /\ tries[h] + 1 = MaxTries
  /\ End(h) /\ UnchangedMain

PushHourly(h) == Push(h) /\ blended' = FALSE

Hourly(h) ==
  \/ Collect(h) \/ PublishAndDeliver(h) \/ Finalize(h) \/ Guard(h)
  \/ Restore(h) \/ Refuse(h) \/ RetryHourly(h) \/ GiveUpHourly(h)
  \/ PushHourly(h) \/ GiveUp(h)

(***************************************************************************)
(* bridge-pool-autofill.yml                                                *)
(***************************************************************************)

\* The lists are filled, conjure is purged, and the result is attested.
Refill(a) ==
  /\ pc[a] = "queued" /\ GroupFree(a)
  /\ Become(a, "pushing")
  /\ Make(a, Attested(Scrubbed(
                WithLists(base[a], base[a].pay.lists \cup {Own(a)}))))
  /\ Purging(a, base[a])
  /\ UnchangedMain /\ UNCHANGED <<base, seen, tries, crossed, sent>>

\* rebase -X theirs on main; the contract is not attested again.
RebaseAutofill(a) ==
  /\ Rejected(a) /\ CountTry(a)
  /\ \E t \in Rebased(tree[a], base[a], main) : Make(a, t)
  /\ CheckOut(a, main)
  /\ crossed' = [crossed EXCEPT ![a] = @ \/ Bridge(base[a]) # Bridge(main)]
  /\ UnchangedMain /\ UNCHANGED <<pc, purged, sent>>

\* A delete/modify conflict: the lists are regenerated next hour.
YieldAutofill(a) ==
  /\ Rejected(a) /\ main # base[a]
  /\ End(a) /\ UnchangedMain

PushAutofill(a) == Push(a) /\ blended' = crossed[a]

Autofill(a) ==
  \/ Refill(a) \/ RebaseAutofill(a) \/ YieldAutofill(a)
  \/ PushAutofill(a) \/ GiveUp(a)

(***************************************************************************)
(* auto-bridge-fusion.yml                                                  *)
(***************************************************************************)

\* Mutant: after a rejected push the fusion runs on the stale checkout.
Fuse_OnBase(f) ==
  /\ \/ pc[f] = "queued" /\ GroupFree(f) /\ UNCHANGED tries
     \/ Rejected(f) /\ CountTry(f)
  /\ Become(f, "pushing")
  /\ seen' = [seen EXCEPT ![f] = version]
  /\ \E t \in Fusions(base[f], Own(f)) : Make(f, t)
  /\ Purging(f, base[f])
  /\ UnchangedMain /\ UNCHANGED <<base, crossed, sent>>

\* Checks main out, or resets to it after a rejected push, and fuses.
Fuse(f) ==
  /\ \/ pc[f] = "queued" /\ GroupFree(f) /\ UNCHANGED tries
     \/ Rejected(f) /\ CountTry(f)
  /\ Become(f, "pushing")
  /\ CheckOut(f, main)
  /\ \E t \in Fusions(main, Own(f)) : Make(f, t)
  /\ Purging(f, main)
  /\ UnchangedMain /\ UNCHANGED <<crossed, sent>>

PushFusion(f) == Push(f) /\ blended' = FALSE

FusionBot(f) == Fuse(f) \/ PushFusion(f) \/ GiveUp(f)

(***************************************************************************)
(* iran-vantage.yml                                                        *)
(***************************************************************************)
Measure(v) ==
  /\ pc[v] = "queued" /\ GroupFree(v)
  /\ Become(v, "pushing")
  /\ Make(v, [base[v] EXCEPT !.log = @ \cup {Own(v)}])
  /\ UnchangedMain /\ UNCHANGED <<base, seen, tries, crossed, purged, sent>>

\* Both sides append at the end of the log: the rebase applies only while
\* main's log is the one the commit was made on.
RebaseVantage(v) ==
  /\ Rejected(v) /\ CountTry(v)
  /\ main.log = base[v].log
  /\ Make(v, [main EXCEPT !.log = tree[v].log])
  /\ CheckOut(v, main)
  /\ UnchangedMain /\ UNCHANGED <<pc, crossed, purged, sent>>

ConflictVantage(v) ==
  /\ Rejected(v) /\ CountTry(v)
  /\ main.log # base[v].log
  /\ UnchangedMain /\ UNCHANGED <<pc, base, seen, tree, crossed, purged, sent>>

PushVantage(v) == Push(v) /\ UNCHANGED blended

Vantage(v) ==
  \/ Measure(v) \/ RebaseVantage(v) \/ ConflictVantage(v)
  \/ PushVantage(v) \/ GiveUp(v)

Step(r) ==
  \/ r \in HourlyRuns   /\ Hourly(r)
  \/ r \in AutofillRuns /\ Autofill(r)
  \/ r \in FusionRuns   /\ FusionBot(r)
  \/ r \in VantageRuns  /\ Vantage(r)

Next == \E r \in Runs : Trigger(r) \/ Abort(r) \/ Step(r)

Spec == Init /\ [][Next]_vars

-----------------------------------------------------------------------------
Where == {"idle", "queued", "collected", "published", "finalized", "guarded",
          "pushing", "done"}

\* The type of the state; a run's version never runs ahead of the branch's.
TypeOK ==
  /\ main \in Tree /\ version \in Nat /\ blended \in BOOLEAN
  /\ pc \in [Runs -> Where]
  /\ base \in [Runs -> Tree] /\ tree \in [Runs -> Tree]
  /\ seen \in [Runs -> Nat] /\ tries \in [Runs -> 0..(MaxTries - 1)]
  /\ crossed \in [Runs -> BOOLEAN] /\ purged \in [Runs -> SUBSET Work]
  /\ sent \in [Runs -> Archive \cup {NoZip}]

\* Whatever is pushed by whom and in which order, however often a fusion is
\* cut or a restore mixes two runs' files, what main holds is one
\* publication: every payload file matches the manifest, the ZIP and the hash
\* in the README.  The only tree that may not is the one an autofill pushed
\* after a rebase blended its files with another publication
\* (torshield-ir.yml Stage 11, publication_contract.sh --check).
AttestedUnlessBlended == ~blended => Contract(main)

Works(t) == t.log \cup t.pay.history \cup t.pay.lists

Dropped == (main.log \ main'.log)
             \cup (main.pay.history \ main'.pay.history)

\* What a push drops from main's history or from the append-only vantage log
\* is what the pushing run's own purges took out (HistoryStore::cleanup,
\* purge_conjure.sh), through every race of the bots.  Two pushes can drop
\* more: that of an hourly run whose checked out commit is no longer what main
\* holds, which restores whole directories from it (torshield-ir.yml Stage
\* 11), and that of an autofill which purged the history and was rebased with
\* -X theirs over another publication, which can take a record main gained in
\* the meantime along with the purged ones (bridge-pool-autofill.yml 162).
OnlyPurgesDrop ==
  [][Dropped # {} =>
       \E r \in Runs :
         /\ Push(r)
         /\ \/ Dropped \subseteq purged[r]
            \/ r \in HourlyRuns /\ base[r] # main
            \/ r \in AutofillRuns /\ crossed[r] /\ purged[r] # {}
               /\ main.log \subseteq main'.log]_vars

\* A push that is accepted has brought the run's own work to main: the line
\* merges of the autofill, the replays of the vantage and the restores of the
\* hourly run keep it, whatever the other bots pushed meanwhile.
OwnWorkArrives ==
  [][\A r \in Runs : Push(r) => Own(r) \in Works(main')]_vars

\* What the header of torshield-ir.yml (lines 36-39) says of a run: GitHub and
\* Telegram receive the same bytes.
SameBytes ==
  [][\A h \in HourlyRuns :
       PushHourly(h) /\ sent[h] # NoZip => main'.zip = sent[h]]_vars
=============================================================================

-------------------------- MODULE MainBranch_proofs --------------------------
(***************************************************************************)
(* Proofs about the bots on main.  The operations on a tree come first,    *)
(* then two frame lemmas: what one run does to its own tree cannot disturb *)
(* the others (StepOfOne), and what a push can (PushOfOne).  The actions   *)
(* then only have to show what they make of their own tree.  Last comes    *)
(* what a run delivered to Telegram against what it pushes.                *)
(***************************************************************************)
EXTENDS MainBranch, TLAPS

\* A tree is its five fields.
LEMMA TreeFields ==
  ASSUME NEW t \in Tree
  PROVE  /\ t = [pay |-> t.pay, man |-> t.man, zip |-> t.zip,
                 readme |-> t.readme, log |-> t.log]
         /\ t.pay \in Payload /\ t.man \in Payload /\ t.zip \in Archive
         /\ t.readme \in Archive /\ t.log \in SUBSET Work
BY SMT DEF Tree, Manifest

LEMMA PayloadFields ==
  ASSUME NEW p \in Payload
  PROVE  /\ p = [history |-> p.history, lists |-> p.lists]
         /\ p.history \in SUBSET Work /\ p.lists \in SUBSET Work
BY SMT DEF Payload

\* What the operations on the payload make of a tree.
LEMMA PayloadOps ==
  ASSUME NEW t \in Tree, NEW S \in SUBSET Work
  PROVE  /\ WithLists(t, S) \in Tree
         /\ WithLists(t, S).pay = [history |-> t.pay.history, lists |-> S]
         /\ WithLists(t, S).log = t.log
         /\ WithHistory(t, S) \in Tree
         /\ WithHistory(t, S).pay = [history |-> S, lists |-> t.pay.lists]
         /\ WithHistory(t, S).log = t.log
<1> DEFINE p == t.pay
<1>1. /\ p \in Payload /\ t.man \in Payload /\ t.zip \in Archive
      /\ t.readme \in Archive /\ t.log \in SUBSET Work
  BY TreeFields
<1>2. /\ p.history \in SUBSET Work /\ p.lists \in SUBSET Work
      /\ p = [history |-> p.history, lists |-> p.lists]
  BY <1>1, PayloadFields
<1>3. WithLists(t, S) = [pay |-> [history |-> p.history, lists |-> S],
        man |-> t.man, zip |-> t.zip, readme |-> t.readme, log |-> t.log]
  BY <1>2, TreeFields DEF WithLists
<1>4. WithHistory(t, S) = [pay |-> [history |-> S, lists |-> p.lists],
        man |-> t.man, zip |-> t.zip, readme |-> t.readme, log |-> t.log]
  BY <1>2, TreeFields DEF WithHistory
<1>5. [history |-> p.history, lists |-> S] \in Payload
      /\ [history |-> S, lists |-> p.lists] \in Payload
  BY <1>2 DEF Payload
<1> HIDE DEF p
<1> QED BY <1>1, <1>3, <1>4, <1>5 DEF Tree, Manifest, p

\* What a rebuild and its prefixes make of a tree: the payload and the log
\* stay, the ZIP is the old one or the contract's, and the whole of it attests
\* the payload.
LEMMA CutOps ==
  ASSUME NEW t \in Tree, NEW u \in CutRebuilds(t)
  PROVE  /\ u \in Tree /\ u.pay = t.pay /\ u.log = t.log
         /\ u.zip = t.zip \/ u.zip.by = "contract"
<1>1. /\ t.pay \in Payload /\ t.man \in Payload /\ t.zip \in Archive
      /\ t.readme \in Archive /\ t.log \in SUBSET Work
  BY TreeFields
<1> DEFINE zip == [by |-> "contract", pay |-> t.pay, man |-> t.pay]
<1>2. zip \in Archive
  BY <1>1 DEF Archive, Manifest, Builders
<1>3. WithManifest(t) = [pay |-> t.pay, man |-> t.pay, zip |-> t.zip,
                         readme |-> t.readme, log |-> t.log]
  BY TreeFields DEF WithManifest
<1>4. WithArchive(WithManifest(t), "contract") = [pay |-> t.pay, man |-> t.pay,
        zip |-> zip, readme |-> t.readme, log |-> t.log]
  BY <1>3 DEF WithArchive
<1>5. Attested(t) = [pay |-> t.pay, man |-> t.pay, zip |-> zip,
                     readme |-> zip, log |-> t.log]
  BY <1>4 DEF Attested, WithReadme
<1> HIDE DEF zip
<1>6. /\ WithManifest(t) \in Tree /\ Attested(t) \in Tree
      /\ WithArchive(WithManifest(t), "contract") \in Tree
  BY <1>1, <1>2, <1>3, <1>4, <1>5 DEF Tree, Manifest
<1>7. zip.by = "contract"
  BY DEF zip
<1> QED BY <1>3, <1>4, <1>5, <1>6, <1>7 DEF CutRebuilds

LEMMA AttestedOps ==
  ASSUME NEW t \in Tree
  PROVE  /\ Attested(t) \in Tree /\ Contract(Attested(t))
         /\ Attested(t).pay = t.pay /\ Attested(t).log = t.log
         /\ Attested(t).zip.by = "contract"
<1>1. Attested(t) \in CutRebuilds(t)
  BY DEF CutRebuilds
<1>2. Contract(Attested(t)) /\ Attested(t).zip.by = "contract"
  BY TreeFields DEF Attested, WithManifest, WithArchive, WithReadme, Contract,
    Verified
<1> QED BY <1>1, <1>2, CutOps

\* What the publisher makes of a tree.
LEMMA PublishOps ==
  ASSUME NEW t \in Tree
  PROVE  /\ Publish(t) \in Tree /\ Publish(t).log = t.log
         /\ Publish(t).pay = [history |-> t.pay.history,
                              lists |-> t.pay.history]
         /\ Publish(t).zip.by = "publisher"
<1> DEFINE u == WithLists(t, t.pay.history)
           zip == [by |-> "publisher", pay |-> u.pay, man |-> u.pay]
<1>1. /\ u \in Tree /\ u.log = t.log
      /\ u.pay = [history |-> t.pay.history, lists |-> t.pay.history]
  BY TreeFields, PayloadFields, PayloadOps
<1>2. Publish(t) = WithReadme(WithArchive(WithManifest(u), "publisher"))
  BY DEF Publish
<1> HIDE DEF u
<1>3. u.pay \in Payload /\ u.log \in SUBSET Work
  BY <1>1, TreeFields
<1>4. Publish(t) = [pay |-> u.pay, man |-> u.pay, zip |-> zip,
                    readme |-> zip, log |-> u.log]
  <2>1. WithManifest(u) = [pay |-> u.pay, man |-> u.pay, zip |-> u.zip,
                           readme |-> u.readme, log |-> u.log]
    BY <1>1, TreeFields DEF WithManifest
  <2>2. WithArchive(WithManifest(u), "publisher") = [pay |-> u.pay,
          man |-> u.pay, zip |-> zip, readme |-> u.readme, log |-> u.log]
    BY <2>1 DEF WithArchive
  <2> QED BY <1>2, <2>2 DEF WithReadme
<1>5. zip \in Archive
  BY <1>3 DEF Archive, Manifest, Builders
<1>6. Publish(t) \in Tree
  <2> HIDE DEF zip
  <2> QED BY <1>3, <1>4, <1>5 DEF Tree, Manifest
<1> QED BY <1>1, <1>4, <1>6

\* What a purge, whole, cut or failed, makes of a tree: conjure goes, and
\* nothing else.
LEMMA ScrubbedOps ==
  ASSUME NEW t \in Tree
  PROVE  /\ ScrubbedLists(t) \in Tree /\ ScrubbedLists(t).log = t.log
         /\ ScrubbedLists(t).pay.history = t.pay.history
         /\ ScrubbedLists(t).pay.lists = t.pay.lists \ Conjure
         /\ Scrubbed(t) \in Tree /\ Scrubbed(t).log = t.log
         /\ Scrubbed(t).pay.history = t.pay.history \ Conjure
         /\ Scrubbed(t).pay.lists = t.pay.lists \ Conjure
<1> DEFINE u == ScrubbedLists(t)
           H == t.pay.history \ Conjure
           L == t.pay.lists \ Conjure
<1>1. H \in SUBSET Work /\ L \in SUBSET Work
  BY TreeFields, PayloadFields
<1>2. /\ u \in Tree /\ u.log = t.log
      /\ u.pay = [history |-> t.pay.history, lists |-> L]
  BY <1>1, PayloadOps DEF ScrubbedLists
<1>3. Scrubbed(t) = WithHistory(u, H)
  BY DEF Scrubbed
<1> HIDE DEF u, H, L
<1>4. /\ WithHistory(u, H) \in Tree /\ WithHistory(u, H).log = u.log
      /\ WithHistory(u, H).pay = [history |-> H, lists |-> u.pay.lists]
  BY <1>1, <1>2, PayloadOps
<1>5. u.pay.lists = L
  BY <1>2
<1> QED BY <1>2, <1>3, <1>4, <1>5 DEF u, H, L

\* An operation on the payload does not touch the archive.
LEMMA ArchiveStays ==
  ASSUME NEW t \in Tree, NEW S
  PROVE  WithLists(t, S).zip = t.zip /\ WithHistory(t, S).zip = t.zip
BY TreeFields DEF WithLists, WithHistory

\* What the first half of the fusion makes of a tree.
LEMMA FusedListsOps ==
  ASSUME NEW t \in Tree, NEW w \in Work
  PROVE  /\ FusedLists(t, w) \in Tree /\ FusedLists(t, w).log = t.log
         /\ FusedLists(t, w).zip = t.zip
         /\ FusedLists(t, w).pay.history = t.pay.history
         /\ FusedLists(t, w).pay.lists = t.pay.lists \cup {w}
<1> DEFINE L == t.pay.lists \cup {w}
<1>1. L \in SUBSET Work
  BY TreeFields, PayloadFields
<1> HIDE DEF L
<1>2. /\ WithLists(t, L) \in Tree /\ WithLists(t, L).log = t.log
      /\ WithLists(t, L).pay = [history |-> t.pay.history, lists |-> L]
  BY <1>1, PayloadOps
<1>3. WithLists(t, L).zip = t.zip
  BY ArchiveStays
<1>4. FusedLists(t, w) = WithLists(t, L)
  BY DEF FusedLists, L
<1> QED BY <1>2, <1>3, <1>4 DEF L

\* What the fusion and the purge after it make of a tree.
LEMMA FusedOps ==
  ASSUME NEW t \in Tree, NEW w \in Work, w \notin Conjure,
         NEW u \in Purges(FusedPayload(t, w))
  PROVE  /\ u \in Tree /\ u.log = t.log /\ u.zip = t.zip
         /\ t.pay.history \ Conjure \subseteq u.pay.history
         /\ u.pay.history \subseteq t.pay.history \cup {w}
         /\ u.pay.lists \subseteq t.pay.lists \cup {w}
         /\ w \in u.pay.history
<1> DEFINE L == t.pay.lists \cup {w}
           H == t.pay.history \cup {w}
           f == FusedLists(t, w)
           g == FusedPayload(t, w)
<1>1. H \in SUBSET Work
  BY TreeFields, PayloadFields
<1>2. f \in Tree /\ f.log = t.log /\ f.zip = t.zip /\ f.pay.lists = L
  BY FusedListsOps
<1>3. g = WithHistory(f, H)
  BY DEF FusedPayload
<1> HIDE DEF f, g, L, H
<1>4. /\ g \in Tree /\ g.log = f.log
      /\ g.pay = [history |-> H, lists |-> f.pay.lists]
  BY <1>1, <1>2, <1>3, PayloadOps
<1>5. g.pay.history = H /\ g.pay.lists = L
  BY <1>2, <1>4
<1>6. g.zip = t.zip
  BY <1>2, <1>3, ArchiveStays
<1>7. ScrubbedLists(g).zip = t.zip
  BY <1>4, <1>6, ArchiveStays DEF ScrubbedLists
<1>8. /\ ScrubbedLists(g) \in Tree /\ ScrubbedLists(g).log = t.log
      /\ ScrubbedLists(g).pay.history = H
      /\ ScrubbedLists(g).pay.lists = L \ Conjure
  <2>1. g.log = t.log
    BY <1>2, <1>4
  <2> QED BY <1>4, <1>5, <2>1, ScrubbedOps
<1>9. /\ Scrubbed(g) \in Tree /\ Scrubbed(g).log = t.log
      /\ Scrubbed(g).pay.history = H \ Conjure
      /\ Scrubbed(g).pay.lists = L \ Conjure
  <2>1. g.log = t.log
    BY <1>2, <1>4
  <2> QED BY <1>4, <1>5, <2>1, ScrubbedOps
<1>10. Scrubbed(g).zip = t.zip
  BY <1>7, <1>8, ArchiveStays DEF Scrubbed
<1>11. u = g \/ u = ScrubbedLists(g) \/ u = Scrubbed(g)
  BY DEF Purges, g
<1>12. /\ u \in Tree /\ u.log = t.log /\ u.zip = t.zip
       /\ u.pay.history = H \/ u.pay.history = H \ Conjure
       /\ u.pay.lists = L \/ u.pay.lists = L \ Conjure
  BY <1>2, <1>4, <1>5, <1>6, <1>7, <1>8, <1>9, <1>10, <1>11
<1> QED BY <1>12 DEF H, L

LEMMA EmptyOps ==
  Empty \in Tree /\ Contract(Empty) /\ Works(Empty) = {}
BY SMTT(30) DEF Empty, Tree, Payload, Manifest, Archive, Builders, Contract,
  Verified, Works

\* The content of a tree.
LEMMA WorksOf ==
  ASSUME NEW t \in Tree
  PROVE  Works(t) \in SUBSET Work /\ t.pay.lists \subseteq Works(t)
         /\ t.pay.history \subseteq Works(t) /\ t.log \subseteq Works(t)
BY DEF Works, Tree, Payload

\* What run r can add to a tree.
New(r) == {Own(r), Fused(r), ConjureOf(r)}

\* The works of different runs differ, and only conjure is conjure.
LEMMA WorksDiffer ==
  ASSUME NEW r \in Runs
  PROVE  /\ Own(r) \in Work \ Conjure
         /\ \A q \in Runs \ {r} : Own(r) \notin New(q)
         /\ r \in HourlyRuns =>
              ConjureOf(r) \in Work /\ Fused(r) \in Work \ Conjure
BY DEF Own, Fused, ConjureOf, Conjure, New, Work

\* A line merge yields a tree with main's log; it keeps what mine adds to a
\* file, takes the history whole when mine did not change it, and brings in
\* nothing from elsewhere.
LEMMA RebasedOps ==
  ASSUME NEW mine \in Tree, NEW old \in Tree, NEW onto \in Tree,
         NEW t \in Rebased(mine, old, onto), NEW w \in Work,
         w \in mine.pay.lists, w \notin old.pay.lists
  PROVE  /\ t \in Tree /\ t.log = onto.log
         /\ mine.pay.history = old.pay.history =>
              t.pay.history = onto.pay.history
         /\ w \in t.pay.lists
         /\ t.pay.history \subseteq mine.pay.history \cup onto.pay.history
         /\ t.pay.lists \subseteq mine.pay.lists \cup onto.pay.lists
<1>1. PICK h \in MergedLines(mine.pay.history, old.pay.history,
                             onto.pay.history),
           l \in MergedLines(mine.pay.lists, old.pay.lists, onto.pay.lists) :
        t = [pay |-> [history |-> h, lists |-> l],
             man |-> [history |-> MergedValue(mine.man.history,
                                    old.man.history, onto.man.history),
                      lists |-> MergedValue(mine.man.lists, old.man.lists,
                                            onto.man.lists)],
             zip |-> MergedValue(mine.zip, old.zip, onto.zip),
             readme |-> MergedValue(mine.readme, old.readme, onto.readme),
             log |-> onto.log]
  BY DEF Rebased
<1>2. /\ mine.pay.history = old.pay.history => h = onto.pay.history
      /\ h \subseteq mine.pay.history \cup onto.pay.history
  <2>1. CASE mine.pay.history = old.pay.history
    BY <2>1 DEF MergedLines
  <2>2. CASE mine.pay.history # old.pay.history
    BY <2>2 DEF MergedLines
  <2> QED BY <2>1, <2>2
<1>3. PICK gone \in SUBSET ((mine.pay.lists \cap old.pay.lists)
                              \ onto.pay.lists),
           new \in SUBSET (onto.pay.lists
                             \ (mine.pay.lists \cup old.pay.lists)) :
        l = (mine.pay.lists \ gone) \cup new
  BY DEF MergedLines
<1>4. w \in l /\ l \subseteq mine.pay.lists \cup onto.pay.lists
  BY <1>3
<1>5. /\ mine.pay \in Payload /\ onto.pay \in Payload
      /\ mine.man \in Payload /\ onto.man \in Payload
      /\ mine.zip \in Archive /\ onto.zip \in Archive
      /\ mine.readme \in Archive /\ onto.readme \in Archive
      /\ onto.log \in SUBSET Work
  BY TreeFields
<1>6. /\ mine.pay.lists \in SUBSET Work /\ onto.pay.lists \in SUBSET Work
      /\ mine.pay.history \in SUBSET Work /\ onto.pay.history \in SUBSET Work
      /\ mine.man.history \in SUBSET Work /\ mine.man.lists \in SUBSET Work
      /\ onto.man.history \in SUBSET Work /\ onto.man.lists \in SUBSET Work
  BY <1>5, PayloadFields
<1>7. t.pay \in Payload
  <2>1. h \in SUBSET Work /\ l \in SUBSET Work
    BY <1>2, <1>4, <1>6
  <2> QED BY <1>1, <2>1 DEF Payload
<1>8. t.man \in Payload
  BY <1>1, <1>6 DEF Payload, MergedValue
<1>9. t.zip \in Archive /\ t.readme \in Archive /\ t.log \in SUBSET Work
  BY <1>1, <1>5 DEF MergedValue
<1>10. t = [pay |-> t.pay, man |-> t.man, zip |-> t.zip,
            readme |-> t.readme, log |-> t.log]
  BY <1>1
<1>11. t \in Tree
  BY <1>7, <1>8, <1>9, <1>10 DEF Tree, Manifest
<1> QED BY <1>1, <1>2, <1>4, <1>11

\* Replayed on a main that differs in the log only, a commit stays as it is.
LEMMA RebasedOnSame ==
  ASSUME NEW mine \in Tree, NEW old \in Tree, NEW onto \in Tree,
         NEW t \in Rebased(mine, old, onto), Bridge(old) = Bridge(onto),
         Contract(mine)
  PROVE  Contract(t) /\ t.pay = mine.pay /\ old.pay = onto.pay
<1>1. /\ old.pay = onto.pay /\ old.man = onto.man
      /\ old.zip = onto.zip /\ old.readme = onto.readme
  <2>1. \A u \in Tree : /\ Bridge(u).pay = u.pay /\ Bridge(u).man = u.man
                        /\ Bridge(u).zip = u.zip
                        /\ Bridge(u).readme = u.readme
    BY TreeFields DEF Bridge
  <2> QED BY <2>1
<1>2. \A m, o, l : l \in MergedLines(m, o, o) => l = m
  <2> SUFFICES ASSUME NEW m, NEW o, NEW l \in MergedLines(m, o, o), m # o
               PROVE  l = m
    BY DEF MergedLines
  <2>1. PICK gone \in SUBSET ((m \cap o) \ o),
             new \in SUBSET (o \ (m \cup o)) : l = (m \ gone) \cup new
    BY DEF MergedLines
  <2>2. gone = {} /\ new = {}
    OBVIOUS
  <2> QED BY <2>1, <2>2
<1>3. \A m, o : MergedValue(m, o, o) = m
  BY DEF MergedValue
<1>4. t = [pay |-> [history |-> mine.pay.history, lists |-> mine.pay.lists],
           man |-> [history |-> mine.man.history, lists |-> mine.man.lists],
           zip |-> mine.zip, readme |-> mine.readme, log |-> onto.log]
  <2>1. PICK h \in MergedLines(mine.pay.history, old.pay.history,
                               onto.pay.history),
             l \in MergedLines(mine.pay.lists, old.pay.lists,
                               onto.pay.lists) :
          t = [pay |-> [history |-> h, lists |-> l],
               man |-> [history |-> MergedValue(mine.man.history,
                                      old.man.history, onto.man.history),
                        lists |-> MergedValue(mine.man.lists,
                                      old.man.lists, onto.man.lists)],
               zip |-> MergedValue(mine.zip, old.zip, onto.zip),
               readme |-> MergedValue(mine.readme, old.readme, onto.readme),
               log |-> onto.log]
    BY DEF Rebased
  <2>2. h = mine.pay.history /\ l = mine.pay.lists
    BY <1>1, <1>2
  <2> QED BY <1>1, <1>3, <2>1, <2>2
<1>5. /\ mine.pay = [history |-> mine.pay.history, lists |-> mine.pay.lists]
      /\ mine.man = [history |-> mine.man.history, lists |-> mine.man.lists]
  BY TreeFields, PayloadFields
<1>6. /\ t.pay = mine.pay /\ t.man = mine.man /\ t.zip = mine.zip
      /\ t.readme = mine.readme
  BY <1>4, <1>5
<1> QED BY <1>1, <1>6 DEF Contract, Verified

-----------------------------------------------------------------------------
\* What run r has made of tree t on the commit b, where w says how far it is,
\* c whether t is blended and p what r purged: the history keeps what was not
\* purged, only the vantage adds to the log, and what is about to be pushed is
\* attested, unless it was blended.  A blended history is main's own as long
\* as the run purged nothing.
Worth(r, w, b, t, c, p) ==
  /\ r \in HourlyRuns =>
       /\ b.pay.history \ p \subseteq t.pay.history /\ t.log = b.log
       /\ Own(r) \in t.pay.history
       /\ w = "pushing" => Contract(t)
  /\ r \in AutofillRuns =>
       /\ t.log = b.log /\ Own(r) \in t.pay.lists
       /\ p = {} => t.pay.history = b.pay.history
       /\ ~c => Contract(t) /\ b.pay.history \ p \subseteq t.pay.history
  /\ r \in FusionRuns =>
       /\ b.pay.history \ p \subseteq t.pay.history /\ t.log = b.log
       /\ Own(r) \in t.pay.history
       /\ Contract(t)
  /\ r \in VantageRuns =>
       /\ t.pay = b.pay /\ t.man = b.man
       /\ t.zip = b.zip /\ t.readme = b.readme
       /\ b.log \subseteq t.log
       /\ Own(r) \in t.log

OwnTree(r) ==
  pc[r] \notin {"idle", "queued", "done"} =>
    Worth(r, pc[r], base[r], tree[r], crossed[r], purged[r])

\* A run whose push would be accepted was made on what main holds; an hourly
\* run's need not be, it only says so.
UpToDate(r) ==
  /\ seen[r] <= version
  /\ r \notin HourlyRuns /\ pc[r] \notin {"idle", "done"}
     /\ seen[r] = version => base[r] = main

\* Until a run has ended its work is on its own tree only.
OwnOnly(r) ==
  pc[r] # "done" =>
    /\ Own(r) \notin Works(main)
    /\ \A q \in Runs : Own(r) \notin Works(base[q])
    /\ \A q \in Runs \ {r} : Own(r) \notin Works(tree[q])

IInv ==
  /\ TypeOK /\ AttestedUnlessBlended
  /\ \A r \in Runs : OwnTree(r) /\ UpToDate(r) /\ OwnOnly(r)

LEMMA InitEstablishes == Init => IInv
<1> SUFFICES ASSUME Init PROVE IInv
  OBVIOUS
<1>1. TypeOK
  <2>1. 0 \in 0..(MaxTries - 1) /\ NoZip \in Archive \cup {NoZip}
    BY BranchAssumption
  <2>2. "idle" \in Where
    BY DEF Where
  <2> QED BY <2>1, <2>2, EmptyOps DEF Init, TypeOK
<1>2. AttestedUnlessBlended
  BY EmptyOps DEF Init, AttestedUnlessBlended
<1>3. ASSUME NEW r \in Runs PROVE OwnTree(r) /\ UpToDate(r) /\ OwnOnly(r)
  BY EmptyOps DEF Init, OwnTree, UpToDate, OwnOnly
<1> QED BY <1>1, <1>2, <1>3 DEF IInv

\* A step of run r that leaves main alone keeps the invariant when r's own
\* part of it holds and r took its tree from its checkout, from main or from
\* its own work.
LEMMA StepOfOne ==
  ASSUME IInv, NEW r \in Runs, UnchangedMain, TypeOK', pc[r] # "done",
         \A q \in Runs \ {r} :
           /\ pc'[q] = pc[q] /\ base'[q] = base[q] /\ seen'[q] = seen[q]
           /\ tree'[q] = tree[q] /\ crossed'[q] = crossed[q]
           /\ purged'[q] = purged[q],
         OwnTree(r)', UpToDate(r)',
         Works(base'[r]) \subseteq Works(base[r]) \cup Works(main),
         Works(tree'[r]) \subseteq Works(base[r]) \cup Works(main)
           \cup Works(tree[r]) \cup New(r)
  PROVE  IInv'
<1>1. AttestedUnlessBlended'
  BY DEF IInv, AttestedUnlessBlended, UnchangedMain
<1>2. ASSUME NEW q \in Runs \ {r} PROVE OwnTree(q)' /\ UpToDate(q)'
  <2>1. OwnTree(q)'
    BY <1>2 DEF IInv, OwnTree
  <2>2. UpToDate(q)'
    BY <1>2 DEF IInv, UpToDate, UnchangedMain
  <2> QED BY <2>1, <2>2
<1>3. OwnOnly(r)'
  BY DEF IInv, OwnOnly, UnchangedMain
<1>4. ASSUME NEW q \in Runs \ {r} PROVE OwnOnly(q)'
  <2> SUFFICES ASSUME pc[q] # "done" PROVE OwnOnly(q)'
    BY <1>4 DEF OwnOnly
  <2>1. /\ Own(q) \notin Works(main)
        /\ \A p \in Runs : Own(q) \notin Works(base[p])
        /\ \A p \in Runs \ {q} : Own(q) \notin Works(tree[p])
    BY <1>4 DEF IInv, OwnOnly
  <2>2. Own(q) \notin New(r)
    BY <1>4, WorksDiffer
  <2>3. Own(q) \notin Works(base'[r]) /\ Own(q) \notin Works(tree'[r])
    BY <1>4, <2>1, <2>2
  <2> QED BY <2>1, <2>3, <1>4 DEF OwnOnly, UnchangedMain
<1> QED BY <1>1, <1>2, <1>3, <1>4 DEF IInv

LEMMA EndKeeps ==
  ASSUME IInv, NEW r \in Runs, UnchangedMain, End(r), pc[r] # "done"
  PROVE  IInv'
<1>1. TypeOK'
  BY EmptyOps, BranchAssumption DEF IInv, TypeOK, End, Become, Make, Where, UnchangedMain
<1>2. \A q \in Runs \ {r} :
        /\ pc'[q] = pc[q] /\ base'[q] = base[q] /\ seen'[q] = seen[q]
        /\ tree'[q] = tree[q] /\ crossed'[q] = crossed[q]
        /\ purged'[q] = purged[q]
  BY DEF IInv, TypeOK, End, Become, Make
<1>3. pc'[r] = "done" /\ tree'[r] = Empty /\ base'[r] = Empty /\ seen'[r] = 0
  BY DEF IInv, TypeOK, End, Become, Make
<1>4. OwnTree(r)' /\ UpToDate(r)'
  BY <1>1, <1>3 DEF OwnTree, UpToDate, TypeOK
<1> QED BY <1>1, <1>2, <1>3, <1>4, EmptyOps, StepOfOne

\* A push keeps it too: the tree becomes main, the run's runner is discarded,
\* and no other run is up to date any more.
LEMMA PushOfOne ==
  ASSUME IInv, NEW r \in Runs, Push(r), blended' \in BOOLEAN,
         ~blended' => Contract(tree[r])
  PROVE  IInv'
<1>1. /\ main' = tree[r] /\ version' = version + 1 /\ pc[r] = "pushing"
      /\ End(r)
  BY DEF Push, Accepted
<1>2. TypeOK'
  BY <1>1, EmptyOps, BranchAssumption DEF IInv, TypeOK, End, Become, Make, Where
<1>3. AttestedUnlessBlended'
  BY <1>1 DEF AttestedUnlessBlended
<1>4. /\ pc'[r] = "done" /\ tree'[r] = Empty /\ base'[r] = Empty
      /\ seen'[r] = 0
  BY <1>1 DEF IInv, TypeOK, End, Become, Make
<1>5. \A q \in Runs \ {r} :
        /\ pc'[q] = pc[q] /\ base'[q] = base[q] /\ seen'[q] = seen[q]
        /\ tree'[q] = tree[q] /\ crossed'[q] = crossed[q]
        /\ purged'[q] = purged[q]
  BY <1>1 DEF IInv, TypeOK, End, Become, Make
<1>6. OwnTree(r)' /\ UpToDate(r)' /\ OwnOnly(r)'
  BY <1>1, <1>2, <1>4 DEF OwnTree, UpToDate, OwnOnly, TypeOK
<1>7. ASSUME NEW q \in Runs \ {r}
      PROVE  OwnTree(q)' /\ UpToDate(q)' /\ OwnOnly(q)'
  <2>1. OwnTree(q)'
    BY <1>5, <1>7 DEF IInv, OwnTree
  <2>2. seen[q] <= version /\ seen[q] \in Nat /\ version \in Nat
    BY <1>7 DEF IInv, UpToDate, TypeOK
  <2>3. UpToDate(q)'
    BY <1>1, <1>5, <1>7, <2>2 DEF UpToDate
  <2>4. OwnOnly(q)'
    BY <1>1, <1>4, <1>5, <1>7, EmptyOps DEF IInv, OwnOnly
  <2> QED BY <2>1, <2>3, <2>4
<1> QED BY <1>2, <1>3, <1>6, <1>7 DEF IInv

\* The kinds of runs are disjoint.
LEMMA Kinds ==
  /\ \A r \in HourlyRuns :
       r \in Runs /\ r \notin AutofillRuns \cup FusionRuns \cup VantageRuns
  /\ \A r \in AutofillRuns :
       r \in Runs /\ r \notin HourlyRuns \cup FusionRuns \cup VantageRuns
  /\ \A r \in FusionRuns :
       r \in Runs /\ r \notin HourlyRuns \cup AutofillRuns \cup VantageRuns
  /\ \A r \in VantageRuns :
       r \in Runs /\ r \notin HourlyRuns \cup AutofillRuns \cup FusionRuns
BY BranchAssumption DEF Runs

\* A step that makes tree t on commit b, seen at version n.
LEMMA Working ==
  ASSUME IInv, NEW r \in Runs, pc[r] # "done", UnchangedMain,
         NEW w \in Where \ {"idle", "queued", "done"},
         NEW t \in Tree, NEW b \in Tree, NEW n \in Nat, NEW c \in BOOLEAN,
         NEW p \in SUBSET Work, purged' = [purged EXCEPT ![r] = p],
         Become(r, w), Make(r, t),
         base' = [base EXCEPT ![r] = b], seen' = [seen EXCEPT ![r] = n],
         crossed' = [crossed EXCEPT ![r] = c],
         tries' \in [Runs -> 0..(MaxTries - 1)],
         sent' \in [Runs -> Archive \cup {NoZip}],
         n <= version, r \notin HourlyRuns /\ n = version => b = main,
         Worth(r, w, b, t, c, p),
         Works(b) \subseteq Works(base[r]) \cup Works(main),
         Works(t) \subseteq Works(base[r]) \cup Works(main)
           \cup Works(tree[r]) \cup New(r)
  PROVE  IInv'
<1>1. TypeOK'
  BY DEF IInv, TypeOK, Become, Make, UnchangedMain
<1>2. \A q \in Runs \ {r} :
        /\ pc'[q] = pc[q] /\ base'[q] = base[q] /\ seen'[q] = seen[q]
        /\ tree'[q] = tree[q] /\ crossed'[q] = crossed[q]
        /\ purged'[q] = purged[q]
  BY DEF IInv, TypeOK, Become, Make
<1>3. /\ pc'[r] = w /\ base'[r] = b /\ seen'[r] = n /\ tree'[r] = t
      /\ crossed'[r] = c /\ purged'[r] = p
  BY DEF IInv, TypeOK, Become, Make
<1>4. OwnTree(r)'
  BY <1>3 DEF OwnTree, Worth
<1>5. UpToDate(r)'
  BY <1>3 DEF UpToDate, UnchangedMain
<1> QED BY <1>1, <1>2, <1>3, <1>4, <1>5, StepOfOne

\* What the invariant says of one run, and leaving its values alone.
LEMMA OfRun ==
  ASSUME IInv, NEW r \in Runs
  PROVE  /\ base[r] \in Tree /\ tree[r] \in Tree /\ main \in Tree
         /\ seen[r] \in Nat /\ version \in Nat /\ seen[r] <= version
         /\ crossed[r] \in BOOLEAN
         /\ base = [base EXCEPT ![r] = base[r]]
         /\ seen = [seen EXCEPT ![r] = seen[r]]
         /\ tree = [tree EXCEPT ![r] = tree[r]]
         /\ crossed = [crossed EXCEPT ![r] = crossed[r]]
         /\ purged[r] \in SUBSET Work
         /\ purged = [purged EXCEPT ![r] = purged[r]]
         /\ pc = [pc EXCEPT ![r] = pc[r]]
         /\ tries \in [Runs -> 0..(MaxTries - 1)]
         /\ sent \in [Runs -> Archive \cup {NoZip}]
         /\ r \notin HourlyRuns /\ pc[r] \notin {"idle", "done"}
            /\ seen[r] = version => base[r] = main
BY DEF IInv, TypeOK, UpToDate

LEMMA CountKeepsType ==
  ASSUME IInv, NEW r \in Runs, CountTry(r)
  PROVE  tries' \in [Runs -> 0..(MaxTries - 1)]
<1>1. tries[r] \in 0..(MaxTries - 1) /\ MaxTries \in Nat
  BY BranchAssumption DEF IInv, TypeOK
<1>2. tries[r] + 1 \in 0..(MaxTries - 1)
  BY <1>1 DEF CountTry
<1> QED BY <1>2 DEF IInv, TypeOK, CountTry

\* An event only fixes the commit.
LEMMA TriggerKeeps ==
  ASSUME IInv, NEW r \in Runs, Trigger(r)
  PROVE  IInv'
<1>1. TypeOK'
  BY DEF IInv, TypeOK, Trigger, Become, CheckOut, UnchangedMain, Where
<1>2. \A q \in Runs \ {r} :
        /\ pc'[q] = pc[q] /\ base'[q] = base[q] /\ seen'[q] = seen[q]
        /\ tree'[q] = tree[q] /\ crossed'[q] = crossed[q]
        /\ purged'[q] = purged[q]
  BY DEF IInv, TypeOK, Trigger, Become, CheckOut
<1>3. /\ pc'[r] = "queued" /\ base'[r] = main /\ seen'[r] = version
      /\ tree'[r] = tree[r] /\ pc[r] # "done"
  BY DEF IInv, TypeOK, Trigger, Become, CheckOut
<1>4. OwnTree(r)'
  BY <1>3 DEF OwnTree
<1>5. UpToDate(r)'
  BY <1>3, OfRun DEF UpToDate, Trigger, UnchangedMain
<1> QED BY <1>1, <1>2, <1>3, <1>4, <1>5, StepOfOne DEF Trigger

-----------------------------------------------------------------------------
\* The steps of an hourly run on its own tree.
LEMMA HourlyWorking ==
  ASSUME IInv, NEW h \in HourlyRuns, pc[h] # "done", UnchangedMain,
         NEW w \in Where \ {"idle", "queued", "done"}, NEW t \in Tree,
         Become(h, w), Make(h, t), UNCHANGED <<base, crossed>>,
         NEW n \in Nat, seen' = [seen EXCEPT ![h] = n], n <= version,
         NEW p \in SUBSET Work, purged' = [purged EXCEPT ![h] = p],
         tries' \in [Runs -> 0..(MaxTries - 1)],
         sent' \in [Runs -> Archive \cup {NoZip}],
         base[h].pay.history \ p \subseteq t.pay.history, t.log = base[h].log,
         Own(h) \in t.pay.history, w = "pushing" => Contract(t),
         Works(t) \subseteq Works(base[h]) \cup Works(main)
           \cup Works(tree[h]) \cup New(h)
  PROVE  IInv'
<1>1. h \in Runs /\ h \notin AutofillRuns \cup FusionRuns \cup VantageRuns
  BY Kinds
<1>2. Worth(h, w, base[h], t, crossed[h], p)
  BY <1>1 DEF Worth
<1>3. /\ base' = [base EXCEPT ![h] = base[h]]
      /\ crossed' = [crossed EXCEPT ![h] = crossed[h]]
      /\ base[h] \in Tree /\ crossed[h] \in BOOLEAN
  BY <1>1, OfRun
<1> QED BY <1>1, <1>2, <1>3, Working

LEMMA HourlyTree ==
  ASSUME IInv, NEW h \in HourlyRuns, pc[h] \notin {"idle", "queued", "done"}
  PROVE  /\ base[h].pay.history \ purged[h] \subseteq tree[h].pay.history
         /\ tree[h].log = base[h].log /\ Own(h) \in tree[h].pay.history
         /\ purged[h] \in SUBSET Work
         /\ purged = [purged EXCEPT ![h] = purged[h]]
BY Kinds, OfRun DEF IInv, OwnTree, Worth

LEMMA CollectKeeps ==
  ASSUME IInv, NEW h \in HourlyRuns, Collect(h)
  PROVE  IInv'
<1> PICK old \in SUBSET base[h].pay.history,
         again \in SUBSET base[h].pay.lists,
         found \in {{Own(h)}, {Own(h), ConjureOf(h)}} :
      /\ Make(h, WithHistory(base[h],
                   (base[h].pay.history \ old) \cup again \cup found))
      /\ purged' = [purged EXCEPT ![h] = old \ again]
  BY DEF Collect
<1> DEFINE S == (base[h].pay.history \ old) \cup again \cup found
           t == WithHistory(base[h], S)
           p == old \ again
<1>1. h \in Runs /\ base[h] \in Tree
  BY Kinds, OfRun
<1>2. base[h].pay.history \in SUBSET Work /\ base[h].pay.lists \in SUBSET Work
  BY <1>1, TreeFields, PayloadFields
<1>3. found \in SUBSET Work /\ found \subseteq New(h) /\ Own(h) \in found
  BY <1>1, WorksDiffer DEF New
<1>4. S \in SUBSET Work /\ p \in SUBSET Work
  BY <1>2, <1>3
<1>5. /\ t \in Tree /\ t.log = base[h].log
      /\ t.pay = [history |-> S, lists |-> base[h].pay.lists]
  BY <1>1, <1>4, PayloadOps
<1>6. Works(t) \subseteq Works(base[h]) \cup New(h)
  BY <1>3, <1>5 DEF Works
<1>7. Make(h, t) /\ Become(h, "collected") /\ pc[h] = "queued"
  BY DEF Collect
<1>8. /\ seen[h] \in Nat /\ seen[h] <= version
      /\ seen' = [seen EXCEPT ![h] = seen[h]]
      /\ tries' \in [Runs -> 0..(MaxTries - 1)]
      /\ sent' \in [Runs -> Archive \cup {NoZip}]
      /\ purged' = [purged EXCEPT ![h] = p]
  BY <1>1, OfRun DEF Collect
<1>9. UnchangedMain /\ UNCHANGED <<base, crossed>>
  BY DEF Collect
<1>10. base[h].pay.history \ p \subseteq t.pay.history /\ Own(h) \in t.pay.history
  BY <1>3, <1>5
<1>11. "collected" \in Where \ {"idle", "queued", "done"}
  BY DEF Where
<1> HIDE DEF t, p
<1> QED BY <1>4, <1>5, <1>6, <1>7, <1>8, <1>9, <1>10, <1>11, HourlyWorking

LEMMA PublishKeeps ==
  ASSUME IInv, NEW h \in HourlyRuns, PublishAndDeliver(h)
  PROVE  IInv'
<1> DEFINE t == Publish(tree[h])
<1>1. /\ h \in Runs /\ tree[h] \in Tree /\ pc[h] = "collected"
      /\ tree[h].pay.history \in SUBSET Work
  BY Kinds, OfRun, TreeFields, PayloadFields DEF PublishAndDeliver
<1>2. /\ t \in Tree /\ t.log = tree[h].log
      /\ t.pay = [history |-> tree[h].pay.history,
                  lists |-> tree[h].pay.history]
  BY <1>1, PublishOps
<1>3. t.zip \in Archive
  BY <1>2, TreeFields
<1>4. Works(t) \subseteq Works(tree[h])
  BY <1>2 DEF Works
<1>5. /\ base[h].pay.history \ purged[h] \subseteq t.pay.history
      /\ t.log = base[h].log /\ Own(h) \in t.pay.history
      /\ purged[h] \in SUBSET Work /\ purged' = [purged EXCEPT ![h] = purged[h]]
  BY <1>1, <1>2, HourlyTree DEF PublishAndDeliver
<1>6. /\ seen[h] \in Nat /\ seen[h] <= version
      /\ seen' = [seen EXCEPT ![h] = seen[h]]
      /\ tries' \in [Runs -> 0..(MaxTries - 1)]
      /\ sent' \in [Runs -> Archive \cup {NoZip}]
  <2>1. PICK zip \in {NoZip, t.zip} : sent' = [sent EXCEPT ![h] = zip]
    BY DEF PublishAndDeliver
  <2>2. sent \in [Runs -> Archive \cup {NoZip}]
    BY <1>1, OfRun
  <2>3. sent' \in [Runs -> Archive \cup {NoZip}]
    BY <1>3, <2>1, <2>2
  <2> QED BY <1>1, <2>3, OfRun DEF PublishAndDeliver
<1>7. /\ Make(h, t) /\ Become(h, "published") /\ UnchangedMain
      /\ UNCHANGED <<base, crossed>>
  BY DEF PublishAndDeliver
<1>8. "published" \in Where \ {"idle", "queued", "done"}
  BY DEF Where
<1> HIDE DEF t
<1> QED BY <1>1, <1>2, <1>4, <1>5, <1>6, <1>7, <1>8, HourlyWorking

LEMMA FinalizeKeeps ==
  ASSUME IInv, NEW h \in HourlyRuns, Finalize(h)
  PROVE  IInv'
<1> PICK t \in CutFusion(tree[h], Fused(h)) : Make(h, t)
  BY DEF Finalize
<1> DEFINE p == purged[h] \cup (tree[h].pay.history \cap Conjure)
<1>1. /\ h \in Runs /\ tree[h] \in Tree /\ pc[h] = "published"
      /\ tree[h].pay.history \in SUBSET Work
  BY Kinds, OfRun, TreeFields, PayloadFields DEF Finalize
<1>2. Fused(h) \in Work \ Conjure /\ Own(h) \notin Conjure
  BY <1>1, WorksDiffer
<1>3. /\ t \in Tree /\ t.log = tree[h].log
      /\ tree[h].pay.history \ Conjure \subseteq t.pay.history
      /\ t.pay.history \subseteq tree[h].pay.history \cup {Fused(h)}
      /\ t.pay.lists \subseteq tree[h].pay.lists \cup {Fused(h)}
  <2>1. CASE t = tree[h]
    BY <1>1, <2>1
  <2>2. CASE t = FusedLists(tree[h], Fused(h))
    <3>1. /\ t \in Tree /\ t.log = tree[h].log
          /\ t.pay.history = tree[h].pay.history
          /\ t.pay.lists = tree[h].pay.lists \cup {Fused(h)}
      BY <1>1, <1>2, <2>2, FusedListsOps
    <3> QED BY <3>1
  <2>3. ASSUME NEW u \in Purges(FusedPayload(tree[h], Fused(h))),
               t \in CutRebuilds(u)
        PROVE  /\ t \in Tree /\ t.log = tree[h].log
               /\ tree[h].pay.history \ Conjure \subseteq t.pay.history
               /\ t.pay.history \subseteq tree[h].pay.history \cup {Fused(h)}
               /\ t.pay.lists \subseteq tree[h].pay.lists \cup {Fused(h)}
    <3>1. /\ u \in Tree /\ u.log = tree[h].log
          /\ tree[h].pay.history \ Conjure \subseteq u.pay.history
          /\ u.pay.history \subseteq tree[h].pay.history \cup {Fused(h)}
          /\ u.pay.lists \subseteq tree[h].pay.lists \cup {Fused(h)}
      BY <1>1, <1>2, <2>3, FusedOps
    <3>2. t \in Tree /\ t.log = u.log /\ t.pay = u.pay
      BY <2>3, <3>1, CutOps
    <3> QED BY <3>1, <3>2
  <2> QED BY <2>1, <2>2, <2>3 DEF CutFusion
<1>4. Works(t) \subseteq Works(tree[h]) \cup New(h)
  BY <1>3 DEF Works, New
<1>5. /\ base[h].pay.history \ p \subseteq t.pay.history /\ t.log = base[h].log
      /\ Own(h) \in t.pay.history
  BY <1>1, <1>2, <1>3, HourlyTree
<1>6. /\ seen[h] \in Nat /\ seen[h] <= version
      /\ seen' = [seen EXCEPT ![h] = seen[h]]
      /\ tries' \in [Runs -> 0..(MaxTries - 1)]
      /\ sent' \in [Runs -> Archive \cup {NoZip}]
  BY <1>1, OfRun DEF Finalize
<1>7. /\ Become(h, "finalized") /\ UnchangedMain /\ UNCHANGED <<base, crossed>>
  BY DEF Finalize
<1>8. "finalized" \in Where \ {"idle", "queued", "done"}
  BY DEF Where
<1>9. p \in SUBSET Work /\ purged' = [purged EXCEPT ![h] = p]
  BY <1>1, OfRun DEF Finalize, Purging
<1> HIDE DEF p
<1> QED BY <1>1, <1>3, <1>4, <1>5, <1>6, <1>7, <1>8, <1>9, HourlyWorking

LEMMA GuardKeeps ==
  ASSUME IInv, NEW h \in HourlyRuns, Guard(h)
  PROVE  IInv'
<1> PICK back \in SUBSET (base[h].pay.lists \ tree[h].pay.lists) :
      Make(h, IF back = {} THEN tree[h]
              ELSE Attested(WithLists(tree[h], tree[h].pay.lists \cup back)))
  BY DEF Guard
<1> DEFINE L == tree[h].pay.lists \cup back
           u == Attested(WithLists(tree[h], L))
           t == IF back = {} THEN tree[h] ELSE u
<1>1. /\ h \in Runs /\ tree[h] \in Tree /\ base[h] \in Tree
      /\ pc[h] = "finalized"
  BY Kinds, OfRun DEF Guard
<1>2. L \in SUBSET Work
  BY <1>1, TreeFields, PayloadFields
<1>3. /\ u \in Tree /\ u.log = tree[h].log
      /\ u.pay = [history |-> tree[h].pay.history, lists |-> L]
  <2>1. /\ WithLists(tree[h], L) \in Tree
        /\ WithLists(tree[h], L).log = tree[h].log
        /\ WithLists(tree[h], L).pay =
             [history |-> tree[h].pay.history, lists |-> L]
    BY <1>1, <1>2, PayloadOps
  <2> QED BY <2>1, AttestedOps
<1>4. /\ t \in Tree /\ t.log = tree[h].log
      /\ t.pay.history = tree[h].pay.history /\ t.pay.lists \subseteq L
  <2> HIDE DEF u
  <2> QED BY <1>1, <1>3
<1>5. Make(h, t)
  OBVIOUS
<1> HIDE DEF t
<1>6. Works(t) \subseteq Works(tree[h]) \cup Works(base[h])
  BY <1>4 DEF Works
<1>7. /\ base[h].pay.history \ purged[h] \subseteq t.pay.history
      /\ t.log = base[h].log /\ Own(h) \in t.pay.history
      /\ purged[h] \in SUBSET Work /\ purged' = [purged EXCEPT ![h] = purged[h]]
  BY <1>1, <1>4, HourlyTree DEF Guard
<1>8. /\ seen[h] \in Nat /\ seen[h] <= version
      /\ seen' = [seen EXCEPT ![h] = seen[h]]
      /\ tries' \in [Runs -> 0..(MaxTries - 1)]
      /\ sent' \in [Runs -> Archive \cup {NoZip}]
  BY <1>1, OfRun DEF Guard
<1>9. /\ Become(h, "guarded") /\ UnchangedMain /\ UNCHANGED <<base, crossed>>
  BY DEF Guard
<1>10. "guarded" \in Where \ {"idle", "queued", "done"}
  BY DEF Where
<1> QED BY <1>1, <1>4, <1>5, <1>6, <1>7, <1>8, <1>9, <1>10, HourlyWorking

LEMMA RestoreKeeps ==
  ASSUME IInv, NEW h \in HourlyRuns, Restore(h)
  PROVE  IInv'
<1>1. h \in Runs /\ pc[h] = "guarded" /\ Contract(tree[h])
  BY Kinds DEF Restore
<1>2. /\ tree[h] \in Tree /\ Make(h, tree[h]) /\ version \in Nat
      /\ seen' = [seen EXCEPT ![h] = version] /\ version <= version
      /\ tries' \in [Runs -> 0..(MaxTries - 1)]
      /\ sent' \in [Runs -> Archive \cup {NoZip}]
  BY <1>1, OfRun DEF Restore, Make
<1>3. /\ Become(h, "pushing") /\ UnchangedMain /\ UNCHANGED <<base, crossed>>
  BY DEF Restore
<1>4. "pushing" \in Where \ {"idle", "queued", "done"}
  BY DEF Where
<1>5. purged' = [purged EXCEPT ![h] = purged[h]]
  BY <1>1, HourlyTree DEF Restore
<1> QED BY <1>1, <1>2, <1>3, <1>4, <1>5, HourlyTree, HourlyWorking

LEMMA RetryKeeps ==
  ASSUME IInv, NEW h \in HourlyRuns, RetryHourly(h)
  PROVE  IInv'
<1>1. h \in Runs /\ pc[h] \in {"guarded", "pushing"}
  BY Kinds DEF RetryHourly, Conflict, Rejected
<1>2. /\ tree[h] \in Tree /\ Make(h, tree[h]) /\ seen[h] \in Nat
      /\ seen' = [seen EXCEPT ![h] = seen[h]] /\ seen[h] <= version
      /\ sent' \in [Runs -> Archive \cup {NoZip}]
  BY <1>1, OfRun DEF RetryHourly, Make
<1>3. /\ Become(h, "guarded") /\ UnchangedMain /\ UNCHANGED <<base, crossed>>
  BY DEF RetryHourly
<1>4. tries' \in [Runs -> 0..(MaxTries - 1)]
  BY <1>1, CountKeepsType DEF RetryHourly
<1>5. "guarded" \in Where \ {"idle", "queued", "done"}
  BY DEF Where
<1>6. purged' = [purged EXCEPT ![h] = purged[h]]
  BY <1>1, HourlyTree DEF RetryHourly
<1> QED BY <1>1, <1>2, <1>3, <1>4, <1>5, <1>6, HourlyTree, HourlyWorking

\* A run that is about to push, and whose push is accepted or not.
LEMMA Pushing ==
  ASSUME IInv, NEW r \in Runs, Accepted(r) \/ Rejected(r)
  PROVE  /\ pc[r] = "pushing"
         /\ Worth(r, "pushing", base[r], tree[r], crossed[r], purged[r])
         /\ r \notin HourlyRuns /\ Accepted(r) => base[r] = main
<1>1. pc[r] = "pushing"
  BY DEF Accepted, Rejected
<1> QED BY <1>1, OfRun DEF IInv, OwnTree, Accepted

LEMMA HourlyKeeps ==
  ASSUME IInv, NEW h \in HourlyRuns, Hourly(h)
  PROVE  IInv'
<1>1. h \in Runs
  BY Kinds
<1>2. CASE Refuse(h)
  BY <1>1, <1>2, EndKeeps DEF Refuse
<1>3. CASE GiveUpHourly(h)
  BY <1>1, <1>3, EndKeeps DEF GiveUpHourly, Conflict
<1>4. CASE GiveUp(h)
  BY <1>1, <1>4, EndKeeps DEF GiveUp, Rejected
<1>5. CASE PushHourly(h)
  <2>1. Contract(tree[h])
    BY <1>1, <1>5, Pushing DEF PushHourly, Push, Worth
  <2> QED BY <1>1, <1>5, <2>1, PushOfOne DEF PushHourly
<1> QED BY <1>2, <1>3, <1>4, <1>5, CollectKeeps, PublishKeeps, FinalizeKeeps,
      GuardKeeps, RestoreKeeps, RetryKeeps DEF Hourly

-----------------------------------------------------------------------------
LEMMA RefillKeeps ==
  ASSUME IInv, NEW a \in AutofillRuns, Refill(a)
  PROVE  IInv'
<1> DEFINE L == base[a].pay.lists \cup {Own(a)}
           u == WithLists(base[a], L)
           t == Attested(Scrubbed(u))
           p == purged[a] \cup (base[a].pay.history \cap Conjure)
<1>1. /\ a \in Runs /\ base[a] \in Tree
      /\ a \notin HourlyRuns \cup FusionRuns \cup VantageRuns
      /\ base[a].pay.history \in SUBSET Work /\ base[a].pay.lists \in SUBSET Work
  BY Kinds, OfRun, TreeFields, PayloadFields
<1>2. L \in SUBSET Work /\ Own(a) \notin Conjure
  BY <1>1, WorksDiffer
<1>3. /\ u \in Tree /\ u.log = base[a].log
      /\ u.pay.history = base[a].pay.history /\ u.pay.lists = L
  <2> HIDE DEF L
  <2>1. /\ u \in Tree /\ u.log = base[a].log
        /\ u.pay = [history |-> base[a].pay.history, lists |-> L]
    BY <1>1, <1>2, PayloadOps
  <2> HIDE DEF u
  <2> QED BY <2>1
<1>4. /\ Make(a, t) /\ Become(a, "pushing") /\ pc[a] = "queued"
      /\ UnchangedMain /\ UNCHANGED <<base, seen, tries, crossed, sent>>
      /\ Purging(a, base[a])
  BY DEF Refill
<1> HIDE DEF u
<1>5. /\ t \in Tree /\ t.log = base[a].log /\ Contract(t)
      /\ t.pay.history = base[a].pay.history \ Conjure
      /\ t.pay.lists = L \ Conjure
  BY <1>3, ScrubbedOps, AttestedOps
<1> HIDE DEF t
<1>6. Worth(a, "pushing", base[a], t, crossed[a], p)
  <2>1. Own(a) \in t.pay.lists /\ base[a].pay.history \ p \subseteq t.pay.history
    BY <1>2, <1>5
  <2>2. p = {} => t.pay.history = base[a].pay.history
    BY <1>5
  <2> QED BY <1>1, <1>5, <2>1, <2>2 DEF Worth
<1>7. Works(t) \subseteq Works(base[a]) \cup New(a)
  BY <1>5 DEF Works, New
<1>8. "pushing" \in Where \ {"idle", "queued", "done"}
  BY DEF Where
<1>9. /\ base' = [base EXCEPT ![a] = base[a]]
      /\ seen' = [seen EXCEPT ![a] = seen[a]]
      /\ crossed' = [crossed EXCEPT ![a] = crossed[a]]
      /\ seen[a] \in Nat /\ crossed[a] \in BOOLEAN /\ seen[a] <= version
      /\ seen[a] = version => base[a] = main
      /\ tries' \in [Runs -> 0..(MaxTries - 1)]
      /\ sent' \in [Runs -> Archive \cup {NoZip}]
  BY <1>1, <1>4, OfRun
<1>10. p \in SUBSET Work /\ purged' = [purged EXCEPT ![a] = p]
  BY <1>1, <1>4, OfRun DEF Purging
<1> HIDE DEF p, L
<1>11. /\ a \in Runs /\ base[a] \in Tree /\ t \in Tree /\ pc[a] # "done"
       /\ UnchangedMain /\ Become(a, "pushing") /\ Make(a, t)
  BY <1>1, <1>4, <1>5
<1> QED BY <1>6, <1>7, <1>8, <1>9, <1>10, <1>11, Working

LEMMA RebaseAutofillKeeps ==
  ASSUME IInv, NEW a \in AutofillRuns, RebaseAutofill(a)
  PROVE  IInv'
<1>1. /\ a \in Runs /\ base[a] \in Tree /\ tree[a] \in Tree
      /\ main \in Tree
      /\ a \notin HourlyRuns \cup FusionRuns \cup VantageRuns
  BY Kinds, OfRun
<1>2. PICK t \in Rebased(tree[a], base[a], main) : Make(a, t)
  BY DEF RebaseAutofill
<1> DEFINE c == crossed[a] \/ Bridge(base[a]) # Bridge(main)
<1>3. /\ pc[a] = "pushing"
      /\ Own(a) \in tree[a].pay.lists
      /\ purged[a] = {} => tree[a].pay.history = base[a].pay.history
      /\ ~crossed[a] => /\ Contract(tree[a])
                        /\ base[a].pay.history \ purged[a]
                             \subseteq tree[a].pay.history
  BY <1>1, Pushing DEF RebaseAutofill, Worth
<1>4. Own(a) \notin base[a].pay.lists /\ Own(a) \in Work
  <2>1. Own(a) \notin Works(base[a])
    BY <1>1, <1>3 DEF IInv, OwnOnly
  <2> QED BY <1>1, <2>1, WorksDiffer DEF Works
<1>5. /\ t \in Tree /\ t.log = main.log /\ Own(a) \in t.pay.lists
      /\ tree[a].pay.history = base[a].pay.history =>
           t.pay.history = main.pay.history
      /\ t.pay.history \subseteq tree[a].pay.history \cup main.pay.history
      /\ t.pay.lists \subseteq tree[a].pay.lists \cup main.pay.lists
  BY <1>1, <1>2, <1>3, <1>4, RebasedOps
<1>6. ~c => Contract(t) /\ main.pay.history \ purged[a] \subseteq t.pay.history
  <2> SUFFICES ASSUME ~crossed[a], Bridge(base[a]) = Bridge(main)
               PROVE  /\ Contract(t)
                      /\ main.pay.history \ purged[a] \subseteq t.pay.history
    OBVIOUS
  <2>1. Contract(t) /\ t.pay = tree[a].pay /\ base[a].pay = main.pay
    BY <1>1, <1>2, <1>3, RebasedOnSame
  <2> QED BY <1>3, <2>1
<1> HIDE DEF c
<1>7. Worth(a, "pushing", main, t, c, purged[a])
  BY <1>1, <1>3, <1>5, <1>6 DEF Worth
<1>8. Works(t) \subseteq Works(tree[a]) \cup Works(main)
  BY <1>5 DEF Works
<1>9. tries' \in [Runs -> 0..(MaxTries - 1)]
  BY <1>1, CountKeepsType DEF RebaseAutofill
<1>10. /\ base' = [base EXCEPT ![a] = main]
       /\ seen' = [seen EXCEPT ![a] = version]
       /\ crossed' = [crossed EXCEPT ![a] = c] /\ c \in BOOLEAN
       /\ UnchangedMain /\ sent' = sent /\ pc' = pc
       /\ purged[a] \in SUBSET Work
       /\ purged' = [purged EXCEPT ![a] = purged[a]]
  BY <1>1, OfRun DEF RebaseAutofill, CheckOut, c
<1>11. Become(a, "pushing") /\ version \in Nat /\ version <= version
       /\ sent' \in [Runs -> Archive \cup {NoZip}]
  BY <1>1, <1>3, <1>10, OfRun DEF Become
<1>12. "pushing" \in Where \ {"idle", "queued", "done"}
  BY DEF Where
<1>13. main = main /\ Works(main) \subseteq Works(base[a]) \cup Works(main)
  OBVIOUS
<1> QED BY <1>1, <1>2, <1>3, <1>5, <1>7, <1>8, <1>9, <1>10, <1>11, <1>12,
      <1>13, Working

LEMMA AutofillKeeps ==
  ASSUME IInv, NEW a \in AutofillRuns, Autofill(a)
  PROVE  IInv'
<1>1. a \in Runs
  BY Kinds
<1>2. CASE YieldAutofill(a)
  BY <1>1, <1>2, EndKeeps DEF YieldAutofill, Rejected
<1>3. CASE GiveUp(a)
  BY <1>1, <1>3, EndKeeps DEF GiveUp, Rejected
<1>4. CASE PushAutofill(a)
  <2>1. ~crossed[a] => Contract(tree[a])
    BY <1>1, <1>4, Pushing DEF PushAutofill, Push, Worth
  <2>2. crossed[a] \in BOOLEAN
    BY <1>1, OfRun
  <2> QED BY <1>1, <1>4, <2>1, <2>2, PushOfOne DEF PushAutofill
<1> QED BY <1>2, <1>3, <1>4, RefillKeeps, RebaseAutofillKeeps DEF Autofill

-----------------------------------------------------------------------------
LEMMA FuseKeeps ==
  ASSUME IInv, NEW f \in FusionRuns, Fuse(f)
  PROVE  IInv'
<1> PICK t \in Fusions(main, Own(f)) : Make(f, t)
  BY DEF Fuse
<1> DEFINE p == purged[f] \cup (main.pay.history \cap Conjure)
<1>1. /\ f \in Runs /\ main \in Tree /\ pc[f] \in {"queued", "pushing"}
      /\ f \notin HourlyRuns \cup AutofillRuns \cup VantageRuns
      /\ main.pay.history \in SUBSET Work
  BY Kinds, OfRun, TreeFields, PayloadFields DEF Fuse, Rejected
<1>2. Own(f) \in Work \ Conjure
  BY <1>1, WorksDiffer
<1>3. PICK u \in Purges(FusedPayload(main, Own(f))) : t = Attested(u)
  BY DEF Fusions
<1>4. /\ u \in Tree /\ u.log = main.log
      /\ main.pay.history \ Conjure \subseteq u.pay.history
      /\ u.pay.history \subseteq main.pay.history \cup {Own(f)}
      /\ u.pay.lists \subseteq main.pay.lists \cup {Own(f)}
      /\ Own(f) \in u.pay.history
  BY <1>1, <1>2, <1>3, FusedOps
<1>5. /\ t \in Tree /\ t.log = main.log /\ Contract(t) /\ t.pay = u.pay
  BY <1>3, <1>4, AttestedOps
<1>6. /\ Make(f, t) /\ Become(f, "pushing") /\ UnchangedMain
      /\ UNCHANGED <<crossed, sent>> /\ Purging(f, main)
      /\ base' = [base EXCEPT ![f] = main]
      /\ seen' = [seen EXCEPT ![f] = version]
  BY DEF Fuse, CheckOut
<1>7. Worth(f, "pushing", main, t, crossed[f], p)
  BY <1>1, <1>4, <1>5 DEF Worth
<1>8. Works(t) \subseteq Works(main) \cup New(f)
  BY <1>4, <1>5 DEF Works, New
<1>9. tries' \in [Runs -> 0..(MaxTries - 1)]
  <2>1. CASE UNCHANGED tries
    BY <1>1, <2>1, OfRun
  <2>2. CASE CountTry(f)
    BY <1>1, <2>2, CountKeepsType
  <2> QED BY <2>1, <2>2 DEF Fuse
<1>10. /\ crossed' = [crossed EXCEPT ![f] = crossed[f]]
       /\ crossed[f] \in BOOLEAN /\ version \in Nat /\ version <= version
       /\ sent' \in [Runs -> Archive \cup {NoZip}]
  BY <1>1, <1>6, OfRun
<1>11. "pushing" \in Where \ {"idle", "queued", "done"}
  BY DEF Where
<1>12. main = main /\ Works(main) \subseteq Works(base[f]) \cup Works(main)
  OBVIOUS
<1>13. p \in SUBSET Work /\ purged' = [purged EXCEPT ![f] = p]
  BY <1>1, <1>6, OfRun DEF Purging
<1> HIDE DEF p
<1> QED BY <1>1, <1>5, <1>6, <1>7, <1>8, <1>9, <1>10, <1>11, <1>12, <1>13,
      Working

LEMMA FusionBotKeeps ==
  ASSUME IInv, NEW f \in FusionRuns, FusionBot(f)
  PROVE  IInv'
<1>1. f \in Runs
  BY Kinds
<1>2. CASE GiveUp(f)
  BY <1>1, <1>2, EndKeeps DEF GiveUp, Rejected
<1>3. CASE PushFusion(f)
  <2>1. Contract(tree[f])
    BY <1>1, <1>3, Pushing DEF PushFusion, Push, Worth
  <2> QED BY <1>1, <1>3, <2>1, PushOfOne DEF PushFusion
<1> QED BY <1>2, <1>3, FuseKeeps DEF FusionBot

-----------------------------------------------------------------------------
\* A measurement, or its replay on main, changes the log only.
LEMMA VantageWorking ==
  ASSUME IInv, NEW v \in VantageRuns, pc[v] # "done", UnchangedMain,
         NEW b \in Tree, NEW n \in Nat, NEW log \in SUBSET Work,
         Become(v, "pushing"), Make(v, [b EXCEPT !.log = log]),
         base' = [base EXCEPT ![v] = b], seen' = [seen EXCEPT ![v] = n],
         UNCHANGED <<crossed, purged, sent>>,
         tries' \in [Runs -> 0..(MaxTries - 1)],
         n <= version, n = version => b = main,
         b.log \subseteq log, Own(v) \in log,
         Works(b) \subseteq Works(base[v]) \cup Works(main),
         log \subseteq Works(base[v]) \cup Works(main) \cup Works(tree[v])
           \cup {Own(v)}
  PROVE  IInv'
<1> DEFINE t == [b EXCEPT !.log = log]
<1>1. t = [pay |-> b.pay, man |-> b.man, zip |-> b.zip, readme |-> b.readme,
           log |-> log]
  BY TreeFields
<1>2. t \in Tree
  <2>1. /\ b.pay \in Payload /\ b.man \in Payload /\ b.zip \in Archive
        /\ b.readme \in Archive
    BY TreeFields
  <2> HIDE DEF t
  <2> QED BY <1>1, <2>1 DEF Tree, Manifest
<1>3. Make(v, t)
  OBVIOUS
<1> HIDE DEF t
<1>4. v \in Runs /\ v \notin HourlyRuns \cup AutofillRuns \cup FusionRuns
  BY Kinds
<1>5. Worth(v, "pushing", b, t, crossed[v], purged[v])
  BY <1>1, <1>4 DEF Worth
<1>6. Works(t) \subseteq Works(base[v]) \cup Works(main) \cup Works(tree[v])
        \cup New(v)
  <2>1. Works(t) \subseteq Works(b) \cup log
    BY <1>1 DEF Works
  <2> QED BY <2>1 DEF New
<1>7. /\ crossed' = [crossed EXCEPT ![v] = crossed[v]]
      /\ crossed[v] \in BOOLEAN /\ sent' \in [Runs -> Archive \cup {NoZip}]
      /\ purged[v] \in SUBSET Work
      /\ purged' = [purged EXCEPT ![v] = purged[v]]
  BY <1>4, OfRun
<1>8. "pushing" \in Where \ {"idle", "queued", "done"}
  BY DEF Where
<1> QED BY <1>2, <1>3, <1>4, <1>5, <1>6, <1>7, <1>8, Working

LEMMA MeasureKeeps ==
  ASSUME IInv, NEW v \in VantageRuns, Measure(v)
  PROVE  IInv'
<1> DEFINE all == base[v].log \cup {Own(v)}
<1>1. /\ v \in Runs /\ base[v] \in Tree /\ pc[v] = "queued"
      /\ v \notin HourlyRuns /\ UnchangedMain
  BY Kinds, OfRun DEF Measure
<1>2. all \in SUBSET Work /\ base[v].log \subseteq Works(base[v])
  BY <1>1, TreeFields, WorksDiffer, WorksOf
<1>3. Become(v, "pushing") /\ Make(v, [base[v] EXCEPT !.log = all])
  BY DEF Measure
<1>4. /\ base' = [base EXCEPT ![v] = base[v]]
      /\ seen' = [seen EXCEPT ![v] = seen[v]]
      /\ UNCHANGED <<crossed, purged, sent>>
      /\ tries' \in [Runs -> 0..(MaxTries - 1)] /\ seen[v] \in Nat
      /\ seen[v] <= version /\ (seen[v] = version => base[v] = main)
  BY <1>1, OfRun DEF Measure
<1>5. base[v].log \subseteq all /\ Own(v) \in all
  OBVIOUS
<1> HIDE DEF all
<1>6. all \subseteq Works(base[v]) \cup Works(main) \cup Works(tree[v])
        \cup {Own(v)}
  BY <1>2 DEF all
<1>7. Works(base[v]) \subseteq Works(base[v]) \cup Works(main) /\ pc[v] # "done"
  BY <1>1
<1> DEFINE b == base[v]
           n == seen[v]
<1>8. /\ b \in Tree /\ n \in Nat /\ n <= version /\ (n = version => b = main)
      /\ base' = [base EXCEPT ![v] = b] /\ seen' = [seen EXCEPT ![v] = n]
      /\ Make(v, [b EXCEPT !.log = all]) /\ b.log \subseteq all
      /\ Works(b) \subseteq Works(base[v]) \cup Works(main)
  BY <1>1, <1>3, <1>4, <1>5, <1>7
<1>9. /\ UNCHANGED <<crossed, purged, sent>> /\ tries' \in [Runs -> 0..(MaxTries - 1)]
      /\ Own(v) \in all /\ Become(v, "pushing") /\ all \in SUBSET Work
  BY <1>2, <1>3, <1>4, <1>5
<1> HIDE DEF b, n
<1> QED BY <1>1, <1>6, <1>7, <1>8, <1>9, VantageWorking

LEMMA RebaseVantageKeeps ==
  ASSUME IInv, NEW v \in VantageRuns, RebaseVantage(v)
  PROVE  IInv'
<1>1. /\ v \in Runs /\ tree[v] \in Tree /\ main \in Tree
      /\ UnchangedMain /\ main.log = base[v].log
      /\ v \notin HourlyRuns \cup AutofillRuns \cup FusionRuns
  BY Kinds, OfRun DEF RebaseVantage
<1>2. /\ pc[v] = "pushing" /\ base[v].log \subseteq tree[v].log
      /\ Own(v) \in tree[v].log
  BY <1>1, Pushing DEF RebaseVantage, Worth
<1>3. tree[v].log \in SUBSET Work /\ tree[v].log \subseteq Works(tree[v])
  BY <1>1, TreeFields, WorksOf
<1>4. /\ Make(v, [main EXCEPT !.log = tree[v].log])
      /\ base' = [base EXCEPT ![v] = main]
      /\ seen' = [seen EXCEPT ![v] = version]
      /\ UNCHANGED <<crossed, purged, sent>>
  BY DEF RebaseVantage, CheckOut
<1>5. Become(v, "pushing") /\ version \in Nat /\ version <= version
  BY <1>1, <1>2, OfRun DEF RebaseVantage, Become
<1>6. tries' \in [Runs -> 0..(MaxTries - 1)]
  BY <1>1, CountKeepsType DEF RebaseVantage
<1>7. main = main /\ Works(main) \subseteq Works(base[v]) \cup Works(main)
  OBVIOUS
<1> QED BY <1>1, <1>2, <1>3, <1>4, <1>5, <1>6, <1>7, VantageWorking

LEMMA ConflictVantageKeeps ==
  ASSUME IInv, NEW v \in VantageRuns, ConflictVantage(v)
  PROVE  IInv'
<1>1. /\ v \in Runs /\ UnchangedMain
      /\ UNCHANGED <<pc, base, seen, tree, crossed, purged, sent>>
  BY Kinds DEF ConflictVantage
<1>2. tries' \in [Runs -> 0..(MaxTries - 1)]
  BY <1>1, CountKeepsType DEF ConflictVantage
<1>3. TypeOK'
  BY <1>1, <1>2 DEF IInv, TypeOK, UnchangedMain
<1>4. AttestedUnlessBlended'
  BY <1>1 DEF IInv, AttestedUnlessBlended, UnchangedMain
<1>5. ASSUME NEW r \in Runs PROVE OwnTree(r)' /\ UpToDate(r)' /\ OwnOnly(r)'
  BY <1>1, <1>5 DEF IInv, OwnTree, UpToDate, OwnOnly, UnchangedMain
<1> QED BY <1>3, <1>4, <1>5 DEF IInv

LEMMA VantageKeeps ==
  ASSUME IInv, NEW v \in VantageRuns, Vantage(v)
  PROVE  IInv'
<1>1. v \in Runs /\ v \notin HourlyRuns \cup AutofillRuns \cup FusionRuns
  BY Kinds
<1>2. CASE GiveUp(v)
  BY <1>1, <1>2, EndKeeps DEF GiveUp, Rejected
<1>3. CASE PushVantage(v)
  <2>1. /\ base[v] = main /\ tree[v].pay = main.pay
        /\ tree[v].man = main.man /\ tree[v].zip = main.zip
        /\ tree[v].readme = main.readme
    BY <1>1, <1>3, Pushing DEF PushVantage, Push, Worth
  <2>2. ~blended => Contract(tree[v])
    BY <2>1 DEF IInv, AttestedUnlessBlended, Contract, Verified
  <2>3. blended' = blended /\ blended \in BOOLEAN /\ Push(v)
    BY <1>3 DEF PushVantage, IInv, TypeOK
  <2> QED BY <1>1, <2>2, <2>3, PushOfOne
<1> QED BY <1>2, <1>3, MeasureKeeps, RebaseVantageKeeps, ConflictVantageKeeps
      DEF Vantage

-----------------------------------------------------------------------------
LEMMA NextKeeps == IInv /\ [Next]_vars => IInv'
<1> SUFFICES ASSUME IInv, [Next]_vars PROVE IInv'
  OBVIOUS
<1>1. CASE UNCHANGED vars
  <2>1. TypeOK' /\ AttestedUnlessBlended'
    BY <1>1 DEF IInv, TypeOK, AttestedUnlessBlended, vars, runVars
  <2>2. ASSUME NEW r \in Runs PROVE OwnTree(r)' /\ UpToDate(r)' /\ OwnOnly(r)'
    BY <1>1, <2>2 DEF IInv, OwnTree, UpToDate, OwnOnly, vars, runVars
  <2> QED BY <2>1, <2>2 DEF IInv
<1>2. ASSUME NEW r \in Runs, Trigger(r) PROVE IInv'
  BY <1>2, TriggerKeeps
<1>3. ASSUME NEW r \in Runs, Abort(r) PROVE IInv'
  BY <1>3, EndKeeps DEF Abort
<1>4. ASSUME NEW r \in Runs, Step(r) PROVE IInv'
  BY <1>4, HourlyKeeps, AutofillKeeps, FusionBotKeeps, VantageKeeps DEF Step
<1> QED BY <1>1, <1>2, <1>3, <1>4 DEF Next

LEMMA IInvHolds == Spec => []IInv
BY InitEstablishes, NextKeeps, PTL DEF Spec

\* The state is well-typed: what every run makes of its tree is a tree.
THEOREM TypeCorrect == Spec => []TypeOK
<1>1. IInv => TypeOK
  BY DEF IInv
<1> QED BY <1>1, IInvHolds, PTL

\* Main holds one attested publication unless an autofill blended it, for any
\* number of runs, groups and attempts.
THEOREM AttestedUnlessBlendedHolds == Spec => []AttestedUnlessBlended
<1>1. IInv => AttestedUnlessBlended
  BY DEF IInv
<1> QED BY <1>1, IInvHolds, PTL

\* A push is a step of the run that pushes, or main is left alone.
LEMMA PushOrSame ==
  ASSUME [Next]_vars
  PROVE  \/ main' = main
         \/ \E r \in Runs : Push(r) /\ (r \in HourlyRuns => PushHourly(r))
<1>1. CASE UNCHANGED vars
  BY <1>1 DEF vars
<1>2. ASSUME NEW r \in Runs, Trigger(r) \/ Abort(r) PROVE main' = main
  BY <1>2 DEF Trigger, Abort, UnchangedMain
<1>3. ASSUME NEW r \in Runs, Step(r)
      PROVE  \/ main' = main
             \/ Push(r) /\ (r \in HourlyRuns => PushHourly(r))
  <2>1. CASE r \in HourlyRuns /\ Hourly(r)
    <3>1. Collect(r) \/ PublishAndDeliver(r) \/ Finalize(r) => UnchangedMain
      BY DEF Collect, PublishAndDeliver, Finalize
    <3>2. Guard(r) \/ Restore(r) \/ Refuse(r) => UnchangedMain
      BY DEF Guard, Restore, Refuse
    <3>3. RetryHourly(r) \/ GiveUpHourly(r) \/ GiveUp(r) => UnchangedMain
      BY DEF RetryHourly, GiveUpHourly, GiveUp
    <3>4. CASE PushHourly(r)
      BY <3>4 DEF PushHourly
    <3>5. UnchangedMain => main' = main
      BY DEF UnchangedMain
    <3> QED BY <2>1, <3>1, <3>2, <3>3, <3>4, <3>5 DEF Hourly
  <2>2. CASE r \in AutofillRuns /\ Autofill(r)
    <3>1. r \notin HourlyRuns
      BY <2>2, Kinds
    <3> QED BY <2>2, <3>1 DEF Autofill, Refill, RebaseAutofill, YieldAutofill,
          PushAutofill, GiveUp, UnchangedMain
  <2>3. CASE r \in FusionRuns /\ FusionBot(r)
    <3>1. r \notin HourlyRuns
      BY <2>3, Kinds
    <3> QED BY <2>3, <3>1 DEF FusionBot, Fuse, PushFusion, GiveUp, UnchangedMain
  <2>4. CASE r \in VantageRuns /\ Vantage(r)
    <3>1. r \notin HourlyRuns
      BY <2>4, Kinds
    <3> QED BY <2>4, <3>1 DEF Vantage, Measure, RebaseVantage, ConflictVantage,
          PushVantage, GiveUp, UnchangedMain
  <2> QED BY <1>3, <2>1, <2>2, <2>3, <2>4 DEF Step
<1> QED BY <1>1, <1>2, <1>3 DEF Next

\* What a push drops from the history or from the vantage log is what the
\* pushing run purged, but for the two pushes the property names, for any
\* number of runs, groups and attempts.
THEOREM OnlyPurgesDropHolds == Spec => OnlyPurgesDrop
<1>1. IInv /\ [Next]_vars =>
        [Dropped # {} =>
           \E r \in Runs :
             /\ Push(r)
             /\ \/ Dropped \subseteq purged[r]
                \/ r \in HourlyRuns /\ base[r] # main
                \/ r \in AutofillRuns /\ crossed[r] /\ purged[r] # {}
                   /\ main.log \subseteq main'.log]_vars
  <2> SUFFICES ASSUME IInv, [Next]_vars, Dropped # {}
               PROVE  \E r \in Runs :
                        /\ Push(r)
                        /\ \/ Dropped \subseteq purged[r]
                           \/ r \in HourlyRuns /\ base[r] # main
                           \/ r \in AutofillRuns /\ crossed[r] /\ purged[r] # {}
                              /\ main.log \subseteq main'.log
    OBVIOUS
  <2>1. PICK r \in Runs : Push(r)
    BY PushOrSame DEF Dropped
  <2>2. /\ main' = tree[r] /\ (r \notin HourlyRuns => base[r] = main)
        /\ Worth(r, "pushing", base[r], tree[r], crossed[r], purged[r])
    BY <2>1, Pushing DEF Push
  <2>3. CASE base[r] # main
    BY <2>1, <2>2, <2>3
  <2>4. CASE base[r] = main /\ r \in AutofillRuns
    <3>1. /\ main.log = main'.log
          /\ purged[r] = {} => main'.pay.history = main.pay.history
          /\ ~crossed[r] => main.pay.history \ purged[r] \subseteq main'.pay.history
      BY <2>2, <2>4 DEF Worth
    <3>2. purged[r] # {} \/ Dropped = {}
      BY <3>1 DEF Dropped
    <3>3. ~crossed[r] => Dropped \subseteq purged[r]
      BY <3>1 DEF Dropped
    <3> QED BY <2>1, <2>4, <3>1, <3>2, <3>3
  <2>5. CASE base[r] = main /\ r \notin AutofillRuns
    <3>1. /\ main.log \subseteq main'.log
          /\ main.pay.history \ purged[r] \subseteq main'.pay.history
      BY <2>2, <2>5 DEF Worth, Runs
    <3>2. Dropped \subseteq purged[r]
      BY <3>1 DEF Dropped
    <3> QED BY <2>1, <3>2
  <2> QED BY <2>3, <2>4, <2>5
<1> QED BY <1>1, IInvHolds, PTL DEF Spec, OnlyPurgesDrop

\* An accepted push has brought the run's own work to main.
THEOREM OwnWorkArrivesHolds == Spec => OwnWorkArrives
<1>1. IInv /\ [Next]_vars =>
        [\A r \in Runs : Push(r) => Own(r) \in Works(main')]_vars
  <2> SUFFICES ASSUME IInv, NEW r \in Runs, Push(r)
               PROVE  Own(r) \in Works(main')
    OBVIOUS
  <2>1. main' = tree[r] /\ Worth(r, "pushing", base[r], tree[r], crossed[r],
                                  purged[r])
    BY Pushing DEF Push
  <2> QED BY <2>1 DEF Worth, Works, Runs
<1> QED BY <1>1, IInvHolds, PTL DEF Spec, OwnWorkArrives

-----------------------------------------------------------------------------
\* A run that has delivered is between its publication and its push, and as
\* long as its tree has an archive of the publisher, it is the delivered one.
DeliveredInv ==
  \A h \in HourlyRuns :
    sent[h] # NoZip =>
      /\ pc[h] \in {"published", "finalized", "guarded", "pushing"}
      /\ sent[h].by = "publisher"
      /\ tree[h].zip.by = "publisher" => tree[h].zip = sent[h]

\* A step that leaves the values of the other hourly runs alone.
LEMMA DeliveredOfOne ==
  ASSUME DeliveredInv, NEW r \in Runs,
         \A h \in HourlyRuns \ {r} :
           sent'[h] = sent[h] /\ pc'[h] = pc[h] /\ tree'[h] = tree[h],
         r \in HourlyRuns =>
           \/ sent'[r] = NoZip
           \/ /\ pc'[r] \in {"published", "finalized", "guarded", "pushing"}
              /\ sent'[r].by = "publisher"
              /\ tree'[r].zip.by = "publisher" => tree'[r].zip = sent'[r]
  PROVE  DeliveredInv'
BY DEF DeliveredInv

LEMMA EndDelivered ==
  ASSUME TypeOK, DeliveredInv, NEW r \in Runs, End(r)
  PROVE  DeliveredInv'
<1>1. /\ sent'[r] = NoZip
      /\ \A h \in Runs \ {r} :
           sent'[h] = sent[h] /\ pc'[h] = pc[h] /\ tree'[h] = tree[h]
  BY DEF TypeOK, End, Become, Make
<1>2. HourlyRuns \subseteq Runs
  BY DEF Runs
<1> QED BY <1>1, <1>2, DeliveredOfOne

\* A step of an hourly run that delivers nothing: the archive of its tree stays
\* or is the contract's.
LEMMA StepDelivered ==
  ASSUME TypeOK, DeliveredInv, NEW h \in HourlyRuns, UNCHANGED sent,
         NEW w, NEW t, Become(h, w), Make(h, t),
         \/ pc[h] = "queued"
         \/ /\ w \in {"published", "finalized", "guarded", "pushing"}
            /\ t.zip = tree[h].zip \/ t.zip.by = "contract"
  PROVE  DeliveredInv'
<1>1. /\ pc'[h] = w /\ tree'[h] = t
      /\ \A q \in Runs \ {h} : pc'[q] = pc[q] /\ tree'[q] = tree[q]
      /\ HourlyRuns \subseteq Runs /\ h \in Runs
  BY DEF TypeOK, Become, Make, Runs
<1>2. CASE pc[h] = "queued"
  <2>1. sent[h] = NoZip
    BY <1>2 DEF DeliveredInv
  <2> QED BY <1>1, <2>1, DeliveredOfOne
<1>3. CASE /\ w \in {"published", "finalized", "guarded", "pushing"}
           /\ t.zip = tree[h].zip \/ t.zip.by = "contract"
  <2>1. sent[h] # NoZip => /\ sent[h].by = "publisher"
                           /\ t.zip.by = "publisher" => t.zip = sent[h]
    BY <1>3 DEF DeliveredInv
  <2> QED BY <1>1, <1>3, <2>1, DeliveredOfOne
<1> QED BY <1>2, <1>3

LEMMA HourlyDelivered ==
  ASSUME IInv, DeliveredInv, NEW h \in HourlyRuns, Hourly(h)
  PROVE  DeliveredInv'
<1>1. h \in Runs /\ TypeOK /\ tree[h] \in Tree /\ tree = [tree EXCEPT ![h] = tree[h]]
  BY Kinds, OfRun DEF IInv
<1>2. CASE Collect(h)
  BY <1>1, <1>2, StepDelivered DEF Collect
<1>3. CASE PublishAndDeliver(h)
  <2> DEFINE t == Publish(tree[h])
  <2>1. PICK zip \in {NoZip, t.zip} : sent' = [sent EXCEPT ![h] = zip]
    BY <1>3 DEF PublishAndDeliver
  <2>2. t.zip.by = "publisher"
    BY <1>1, PublishOps
  <2>3. Become(h, "published") /\ Make(h, t)
    BY <1>3 DEF PublishAndDeliver
  <2> HIDE DEF t
  <2>4. /\ sent'[h] = zip /\ pc'[h] = "published" /\ tree'[h] = t
        /\ \A q \in Runs \ {h} :
             sent'[q] = sent[q] /\ pc'[q] = pc[q] /\ tree'[q] = tree[q]
        /\ HourlyRuns \subseteq Runs
    BY <1>1, <2>1, <2>3 DEF TypeOK, Become, Make, Runs
  <2> QED BY <1>1, <2>1, <2>2, <2>4, DeliveredOfOne
<1>4. CASE Finalize(h)
  <2>1. PICK t \in CutFusion(tree[h], Fused(h)) : Make(h, t)
    BY <1>4 DEF Finalize
  <2>2. t.zip = tree[h].zip \/ t.zip.by = "contract"
    <3>1. Fused(h) \in Work \ Conjure
      BY <1>1, WorksDiffer
    <3>2. ASSUME NEW u \in Purges(FusedPayload(tree[h], Fused(h))),
                 t \in CutRebuilds(u)
          PROVE  t.zip = tree[h].zip \/ t.zip.by = "contract"
      <4>1. u \in Tree /\ u.zip = tree[h].zip
        BY <1>1, <3>1, FusedOps
      <4> QED BY <3>2, <4>1, CutOps
    <3>3. FusedLists(tree[h], Fused(h)).zip = tree[h].zip
      BY <1>1, <3>1, FusedListsOps
    <3> QED BY <2>1, <3>2, <3>3 DEF CutFusion
  <2> QED BY <1>1, <1>4, <2>1, <2>2, StepDelivered DEF Finalize
<1>5. CASE Guard(h)
  <2>1. PICK back \in SUBSET (base[h].pay.lists \ tree[h].pay.lists) :
          Make(h, IF back = {} THEN tree[h]
                  ELSE Attested(WithLists(tree[h], tree[h].pay.lists \cup back)))
    BY <1>5 DEF Guard
  <2> DEFINE u == WithLists(tree[h], tree[h].pay.lists \cup back)
             t == IF back = {} THEN tree[h] ELSE Attested(u)
  <2>2. u \in Tree
    <3>1. tree[h].pay.lists \cup back \in SUBSET Work
      BY <1>1, OfRun, TreeFields, PayloadFields
    <3> QED BY <1>1, <3>1, PayloadOps
  <2> HIDE DEF u
  <2>3. t.zip = tree[h].zip \/ t.zip.by = "contract"
    BY <2>2, AttestedOps
  <2>4. Make(h, t)
    BY <2>1 DEF u
  <2> HIDE DEF t
  <2> QED BY <1>1, <1>5, <2>3, <2>4, StepDelivered DEF Guard
<1>6. CASE Restore(h) \/ RetryHourly(h)
  <2>1. UNCHANGED <<sent, tree>> /\ (Become(h, "pushing") \/ Become(h, "guarded"))
    BY <1>6 DEF Restore, RetryHourly
  <2>2. Make(h, tree[h])
    BY <1>1, <2>1 DEF Make
  <2>3. UNCHANGED sent
    BY <2>1
  <2>4. CASE Become(h, "pushing")
    BY <1>1, <2>2, <2>3, <2>4, StepDelivered
  <2>5. CASE Become(h, "guarded")
    BY <1>1, <2>2, <2>3, <2>5, StepDelivered
  <2> QED BY <2>1, <2>4, <2>5
<1>7. Refuse(h) \/ GiveUpHourly(h) \/ PushHourly(h) \/ GiveUp(h) => End(h)
  BY DEF Refuse, GiveUpHourly, PushHourly, Push, GiveUp
<1> QED BY <1>1, <1>2, <1>3, <1>4, <1>5, <1>6, <1>7, EndDelivered DEF Hourly

\* The other bots deliver nothing and touch their own trees only.
LEMMA OthersDelivered ==
  ASSUME IInv, DeliveredInv, NEW r \in Runs, r \notin HourlyRuns,
         Autofill(r) \/ FusionBot(r) \/ Vantage(r)
  PROVE  DeliveredInv'
<1>1. TypeOK
  BY DEF IInv
<1>2. CASE End(r)
  BY <1>1, <1>2, EndDelivered
<1>3. CASE /\ sent' = sent
           /\ \A q \in Runs \ {r} : pc'[q] = pc[q] /\ tree'[q] = tree[q]
  <2>1. HourlyRuns \subseteq Runs
    BY DEF Runs
  <2> QED BY <1>3, <2>1, DeliveredOfOne
<1>4. /\ Autofill(r) => \/ End(r) \/ Refill(r) \/ RebaseAutofill(r)
      /\ FusionBot(r) => End(r) \/ Fuse(r)
      /\ Vantage(r) => \/ End(r) \/ Measure(r) \/ RebaseVantage(r)
                       \/ ConflictVantage(r)
  BY DEF Autofill, FusionBot, Vantage, YieldAutofill, PushAutofill, PushFusion,
    PushVantage, Push, GiveUp
<1>5. CASE Refill(r) \/ RebaseAutofill(r)
  BY <1>1, <1>3, <1>5 DEF Refill, RebaseAutofill, Make, Become, TypeOK
<1>6. CASE Fuse(r)
  BY <1>1, <1>3, <1>6 DEF Fuse, Make, Become, TypeOK
<1>7. CASE Measure(r) \/ RebaseVantage(r) \/ ConflictVantage(r)
  BY <1>1, <1>3, <1>7 DEF Measure, RebaseVantage, ConflictVantage, Make, Become,
    TypeOK
<1> QED BY <1>2, <1>4, <1>5, <1>6, <1>7

LEMMA DeliveredKept ==
  ASSUME IInv, DeliveredInv, [Next]_vars
  PROVE  DeliveredInv'
<1>1. TypeOK
  BY DEF IInv
<1>2. CASE UNCHANGED vars
  BY <1>2 DEF DeliveredInv, vars, runVars
<1>3. ASSUME NEW r \in Runs, Trigger(r) PROVE DeliveredInv'
  <2>1. /\ sent' = sent /\ tree' = tree /\ pc[r] = "idle"
        /\ \A q \in Runs \ {r} : pc'[q] = pc[q]
    BY <1>1, <1>3 DEF Trigger, Become, TypeOK
  <2>2. r \in HourlyRuns => sent[r] = NoZip
    BY <2>1 DEF DeliveredInv
  <2>3. HourlyRuns \subseteq Runs
    BY DEF Runs
  <2> QED BY <1>3, <2>1, <2>2, <2>3, DeliveredOfOne
<1>4. ASSUME NEW r \in Runs, Abort(r) PROVE DeliveredInv'
  BY <1>1, <1>4, EndDelivered DEF Abort
<1>5. ASSUME NEW r \in Runs, Step(r) PROVE DeliveredInv'
  BY <1>5, Kinds, HourlyDelivered, OthersDelivered DEF Step
<1> QED BY <1>2, <1>3, <1>4, <1>5 DEF Next

LEMMA DeliveredHolds == Spec => []DeliveredInv
<1>1. Init => DeliveredInv
  BY DEF Init, DeliveredInv, Runs
<1> QED BY <1>1, DeliveredKept, IInvHolds, PTL DEF Spec

\* What is left of the header of torshield-ir.yml (lines 36-39): the ZIP an
\* hourly run pushes is the one it delivered exactly when nothing built an
\* archive after Stage 9 - the fusion of Stage 8p2 and the guard do - and in
\* that case the pushed payload is the delivered one.  Retries, restores and
\* the pushes of the other bots never come between.
THEOREM SameBytesUnlessRebuilt ==
  Spec => [][\A h \in HourlyRuns :
               PushHourly(h) /\ sent[h] # NoZip =>
                 /\ main'.zip = sent[h] <=> tree[h].zip.by = "publisher"
                 /\ main'.zip = sent[h] => main'.pay = sent[h].pay]_vars
<1>1. IInv /\ DeliveredInv /\ [Next]_vars =>
        [\A h \in HourlyRuns :
           PushHourly(h) /\ sent[h] # NoZip =>
             /\ main'.zip = sent[h] <=> tree[h].zip.by = "publisher"
             /\ main'.zip = sent[h] => main'.pay = sent[h].pay]_vars
  <2> SUFFICES ASSUME IInv, DeliveredInv, NEW h \in HourlyRuns, PushHourly(h),
                      sent[h] # NoZip
               PROVE  /\ main'.zip = sent[h] <=> tree[h].zip.by = "publisher"
                      /\ main'.zip = sent[h] => main'.pay = sent[h].pay
    OBVIOUS
  <2>1. h \in Runs /\ main' = tree[h] /\ Accepted(h)
    BY Kinds DEF PushHourly, Push
  <2>2. Contract(tree[h])
    BY <2>1, Pushing DEF Worth
  <2>3. tree[h].zip.pay = tree[h].pay
    BY <2>2 DEF Contract, Verified
  <2>4. /\ sent[h].by = "publisher"
        /\ tree[h].zip.by = "publisher" => tree[h].zip = sent[h]
    BY DEF DeliveredInv
  <2> QED BY <2>1, <2>3, <2>4
<1> QED BY <1>1, IInvHolds, DeliveredHolds, PTL DEF Spec
=============================================================================

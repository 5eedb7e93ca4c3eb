------------------------- MODULE CollectorRun_proofs -------------------------
(***************************************************************************)
(* For every number of lists and lines, every path order in which a list's *)
(* archive comes before its other files, and every cut of a run: TypeOK,   *)
(* SubsetsOfArchive, ArchivesOnlyGrow, DamagedHistoryKept, FirstSeenFixed  *)
(* and ZipMatchesDirectory hold, and only fronted lists depend on the      *)
(* order the tasks end in.  FreshOnlyOnEvidence holds if the history comes *)
(* before the archives and until a purge.                                  *)
(***************************************************************************)
EXTENDS CollectorRun, FiniteSetTheorems, TLAPS

-----------------------------------------------------------------------------
(* The operators the actions are built from are well typed.                *)

\* An observation keeps a history a history (observe_discovered).
LEMMA ObserveType ==
  ASSUME NEW h, IsHistory(h), NEW S \in SUBSET Lines, now \in Nat
  PROVE  IsHistory(Observe(h, S))
<1> DEFINE g == Observe(h, S)
<1>1. DOMAIN g = DOMAIN h \cup S
  BY DEF Observe
<1>2. ASSUME NEW x \in DOMAIN g PROVE g[x] \in Stamp
  <2>1. x \in DOMAIN h => h[x].first \in Nat /\ h[x].last \in Nat
    BY DEF IsHistory, Stamp
  <2>2. g[x] = [first |-> IF x \in DOMAIN h THEN h[x].first ELSE now,
                last  |-> IF x \in S THEN now ELSE h[x].last]
    BY <1>2 DEF Observe
  <2> QED BY <1>1, <2>1, <2>2 DEF Stamp
<1>3. g = [x \in DOMAIN g |-> g[x]]
  BY DEF Observe
<1> QED BY <1>1, <1>2, <1>3 DEF IsHistory

\* A purge keeps a history a history (cleanup).
LEMMA CleanupType ==
  ASSUME NEW h, IsHistory(h)
  PROVE  IsHistory(Cleanup(h))
BY DEF IsHistory, Cleanup

\* What the merge hands to publish_staged is well typed, file by file.
LEMMA StagedType ==
  ASSUME TypeOK
  PROVE  /\ Stats \in [Lists -> Nat]
         /\ IsHistory(Cleanup(Merged(NLists)))
         /\ DOMAIN StagedText \subseteq TextFiles
         /\ \A f \in DOMAIN StagedText : StagedText[f] \in SUBSET Lines
         /\ ZipOf(StagedText) \in [TextFiles -> SUBSET Lines]
         /\ DOMAIN StagedFiles \subseteq Published
         /\ \A f \in DOMAIN StagedFiles : ContentOK(f, StagedFiles[f])
<1>1. ASSUME NEW l \in Lists, HasOutcome(l)
      PROVE  LastOutcome(l) \in Outcomes
  <2>1. outcomes[l] \in Seq(Outcomes)
    BY DEF TypeOK
  <2>2. Len(outcomes[l]) \in DOMAIN outcomes[l]
    BY <1>1, <2>1 DEF HasOutcome
  <2> QED BY <2>1, <2>2 DEF LastOutcome
<1>2. ASSUME NEW l \in Lists PROVE Observed(l) \in SUBSET Lines
  <2>1. outcomes[l] \in Seq(Outcomes)
    BY DEF TypeOK
  <2>2. \A i \in DOMAIN outcomes[l] : outcomes[l][i] \in Outcomes
    BY <2>1
  <2>3. \A i \in DOMAIN outcomes[l] : outcomes[l][i].observed \subseteq Lines
    BY <2>2 DEF Outcomes
  <2> QED BY <2>3 DEF Observed
<1>3. IsHistory(Merged(NLists))
  <2>1. UNION {Observed(k) : k \in 1..NLists} \in SUBSET Lines
    BY <1>2 DEF Lists
  <2> QED BY <2>1, ObserveType DEF Merged, TypeOK
<1>4. Stats \in [Lists -> Nat]
  <2>1. ASSUME NEW S \in SUBSET Lines PROVE Cardinality(S) \in Nat
    BY CollectorAssumption, FS_Subset, FS_CardinalityType DEF CollectorAssumption
  <2> QED BY <1>1, <2>1 DEF Stats, Outcomes
<1>5. DOMAIN StagedText \subseteq TextFiles
  BY DEF StagedText
<1>6. ASSUME NEW f \in DOMAIN StagedText
      PROVE  StagedText[f] \in SUBSET Lines
  <2>1. /\ f \in TextFiles /\ f[1] \in {"archive", "recent", "tested"}
        /\ f[2] \in Lists /\ HasOutcome(f[2])
    BY <1>6 DEF StagedText, TextFiles
  <2>2. LastOutcome(f[2]) \in Outcomes
    BY <1>1, <2>1
  <2>3. RecentOf(f[2], LastOutcome(f[2]).archive) \in SUBSET Lines
    BY <2>2 DEF RecentOf, Outcomes
  <2> QED BY <1>6, <2>1, <2>2, <2>3 DEF StagedText, Outcomes
<1>7. ZipOf(StagedText) \in [TextFiles -> SUBSET Lines]
  <2>1. \A f \in TextFiles : disk[f] \in SUBSET Lines
    BY DEF TypeOK, ContentOK, Files, Published
  <2> QED BY <1>6, <2>1 DEF ZipOf
<1>8. DOMAIN StagedFiles \subseteq Published
  BY <1>5 DEF StagedFiles, Published, HistoryFile
<1>9. ASSUME NEW f \in DOMAIN StagedFiles
      PROVE  ContentOK(f, StagedFiles[f])
  <2>1. f \in DOMAIN StagedText \cup {Readme, ZipFile, History}
    BY <1>9 DEF StagedFiles, HistoryFile
  <2>2. /\ History \notin TextFiles /\ Readme \notin TextFiles
        /\ ZipFile \notin TextFiles /\ Dashboard \notin TextFiles
        /\ History # Readme /\ History # ZipFile /\ Readme # ZipFile
        /\ History # Dashboard /\ ZipFile # Dashboard
    BY DEF TextFiles, History, Readme, ZipFile, Dashboard
  <2>3. CASE f = Readme
    BY <1>4, <1>9, <2>2, <2>3 DEF StagedFiles, ContentOK
  <2>4. CASE f = ZipFile
    BY <1>7, <1>9, <2>2, <2>4 DEF StagedFiles, ContentOK
  <2>5. CASE f = History
    BY <1>3, CleanupType, <1>9, <2>2, <2>5 DEF StagedFiles, ContentOK
  <2>6. CASE f \in DOMAIN StagedText
    BY <1>5, <1>6, <1>9, <2>2, <2>6 DEF StagedFiles, ContentOK
  <2> QED BY <2>1, <2>3, <2>4, <2>5, <2>6
<1> QED BY <1>3, <1>4, <1>5, <1>6, <1>7, <1>8, <1>9, CleanupType

-----------------------------------------------------------------------------
(* Type correctness.                                                       *)

\* A run that ends forgets its memory (EndRun of run).
LEMMA EndRunType ==
  ASSUME TypeOK, NEW r \in {"ok", "error", "deadline", "killed"}, EndRun(r),
         UNCHANGED <<disk, now, dryRun, deadline>>
  PROVE  TypeOK'
<1>1. 1 \in 1..(Len(PublishOrder) + 1)
  BY CollectorAssumption DEF CollectorAssumption
<1>2. [l \in Lists |-> <<>>] \in [Lists -> Seq(Outcomes)]
  OBVIOUS
<1>3. IsHistory(EmptyHistory)
  BY DEF IsHistory, EmptyHistory
<1>4. DOMAIN staged' = {}
  BY DEF EndRun
<1> QED BY <1>1, <1>2, <1>3, <1>4 DEF TypeOK, EndRun, ContentOK, IsHistory

\* The initial files are empty and well typed.
LEMMA InitType == Init => TypeOK
<1> SUFFICES ASSUME Init PROVE TypeOK
  OBVIOUS
<1>1. 1 \in 1..(Len(PublishOrder) + 1)
  BY CollectorAssumption DEF CollectorAssumption
<1>2. IsHistory(EmptyHistory)
  BY DEF IsHistory, EmptyHistory
<1>3. ASSUME NEW f \in Files PROVE ContentOK(f, disk[f])
  <2>1. /\ History \notin TextFiles /\ Readme \notin TextFiles
        /\ ZipFile \notin TextFiles /\ Dashboard \notin TextFiles
        /\ History # Readme /\ History # ZipFile /\ Readme # ZipFile
        /\ History # Dashboard /\ ZipFile # Dashboard
    BY DEF TextFiles, History, Readme, ZipFile, Dashboard
  <2>2. NoText \in [TextFiles -> SUBSET Lines]
    BY DEF NoText
  <2>3. CASE f = History
    BY <1>2, <2>1, <2>3 DEF Init, ContentOK
  <2>4. CASE f \in {Readme, Dashboard}
    BY <2>1, <2>4 DEF Init, ContentOK
  <2>5. CASE f = ZipFile
    BY <2>1, <2>2, <2>5 DEF Init, ContentOK
  <2>6. CASE f \in TextFiles
    BY <2>1, <2>6 DEF Init, ContentOK
  <2> QED BY <2>3, <2>4, <2>5, <2>6 DEF Files, Published
<1>4. DOMAIN disk = Files
  BY DEF Init
<1>5. [l \in Lists |-> <<>>] \in [Lists -> Seq(Outcomes)]
  OBVIOUS
<1>6. DOMAIN staged = {}
  BY DEF Init
<1> QED BY <1>1, <1>2, <1>3, <1>4, <1>5, <1>6 DEF Init, TypeOK

\* Every step keeps every variable in its type.
LEMMA NextType == TypeOK /\ [Next]_vars => TypeOK'
<1> SUFFICES ASSUME TypeOK, [Next]_vars PROVE TypeOK'
  OBVIOUS
<1> USE DEF runVars, taskVars, pubVars
<1>0. 1 \in 1..(Len(PublishOrder) + 1)
  BY CollectorAssumption DEF CollectorAssumption
<1>1. CASE StartRun
  <2>1. IsHistory(hist')
    <3>1. ContentOK(History, disk[History])
      BY DEF TypeOK, Files, Published
    <3>2. IsHistory(EmptyHistory)
      BY DEF IsHistory, EmptyHistory
    <3> QED BY <1>1, <3>1, <3>2 DEF StartRun, ContentOK
  <2>2. writable' \in BOOLEAN
    BY <1>1 DEF StartRun, TypeOK, ContentOK, Files, Published
  <2>3. now' \in Nat /\ pc' = "fetch" /\ result' = "none"
    BY <1>1 DEF StartRun, TypeOK
  <2>4. dryRun' \in BOOLEAN /\ deadline' \in BOOLEAN
    BY <1>1 DEF StartRun
  <2>5. UNCHANGED <<disk, acquired, jobs, outcomes, staged, next>>
    BY <1>1 DEF StartRun
  <2> QED BY <2>1, <2>2, <2>3, <2>4, <2>5 DEF TypeOK
<1>2. ASSUME NEW l \in Lists, Fetch(l) PROVE TypeOK'
  <2>1. acquired' \in SUBSET Acquisitions
    <3>1. LinesOf[l] \subseteq Lines
      BY CollectorAssumption DEF CollectorAssumption
    <3>2. PICK a \in Acquisitions : acquired' = acquired \cup {a}
      BY <1>2, <3>1 DEF Fetch, Acquisitions
    <3> QED BY <3>2 DEF TypeOK
  <2> QED BY <1>2, <2>1 DEF Fetch, TypeOK, ContentOK, IsHistory
<1>3. CASE BuildJobs
  <2>1. ASSUME NEW a \in acquired PROVE JobsOf(a) \subseteq Jobs
    <3>1. a.list \in Lists /\ a.lines \in SUBSET Lines
      BY DEF TypeOK, Acquisitions
    <3>2. DefaultLines[a.list] \in SUBSET Lines
      BY <3>1, CollectorAssumption DEF CollectorAssumption
    <3> QED BY <3>1, <3>2 DEF JobsOf, Job, Jobs
  <2>2. jobs' \in SUBSET Jobs
    BY <1>3, <2>1 DEF BuildJobs
  <2> QED BY <1>3, <2>2 DEF BuildJobs, TypeOK, ContentOK, IsHistory
<1>4. ASSUME NEW j \in jobs, CollectNothing(j) PROVE TypeOK'
  BY <1>4 DEF CollectNothing, TypeOK, ContentOK, IsHistory
<1>5. ASSUME NEW j \in jobs, CollectOutcome(j) PROVE TypeOK'
  <2> DEFINE A == ArchiveOf(j.list, j.lines)
  <2>1. j.list \in Lists /\ j.lines \in SUBSET Lines
    BY <1>5 DEF TypeOK, Jobs
  <2>2. A \in SUBSET Lines
    BY <2>1 DEF ArchiveOf, TypeOK, ContentOK, Files, Published, TextFiles, Archive
  <2>3. PICK C \in Candidates(A) : \E up \in SUBSET C :
          \E T \in TestedSets(j.list, up) :
            outcomes' = [outcomes EXCEPT ![j.list] = Append(@,
              [archive |-> A, observed |-> j.lines \cup C, tested |-> T])]
    BY <1>5 DEF CollectOutcome
  <2>a. PICK up \in SUBSET C : \E T \in TestedSets(j.list, up) :
          outcomes' = [outcomes EXCEPT ![j.list] = Append(@,
            [archive |-> A, observed |-> j.lines \cup C, tested |-> T])]
    BY <2>3
  <2>4. PICK T \in TestedSets(j.list, up) :
          outcomes' = [outcomes EXCEPT ![j.list] = Append(@,
            [archive |-> A, observed |-> j.lines \cup C, tested |-> T])]
    BY <2>a
  <2>5. C \subseteq A
    BY DEF Candidates
  <2>6. T \subseteq C
    BY DEF TestedSets
  <2>7. [archive |-> A, observed |-> j.lines \cup C, tested |-> T] \in Outcomes
    BY <2>1, <2>2, <2>5, <2>6 DEF Outcomes
  <2>8. outcomes' \in [Lists -> Seq(Outcomes)]
    BY <2>1, <2>4, <2>7 DEF TypeOK
  <2>9. jobs' \in SUBSET Jobs
    BY <1>5 DEF CollectOutcome, TypeOK
  <2> QED BY <1>5, <2>8, <2>9 DEF CollectOutcome, TypeOK, ContentOK, IsHistory
<1>6. ASSUME NEW j \in jobs, CollectPanic(j) PROVE TypeOK'
  BY <1>6, EndRunType DEF CollectPanic
<1>7. CASE Merge
  <2>1. CASE EndRun("error") /\ UNCHANGED <<disk, now, dryRun, deadline>>
    BY <2>1, EndRunType
  <2>2. CASE /\ staged' = StagedFiles
             /\ next' = 1 /\ hist' = Cleanup(Merged(NLists)) /\ pc' = "publish"
             /\ disk' = IF dryRun THEN disk ELSE [disk EXCEPT ![Dashboard] = Stats]
             /\ UNCHANGED <<now, dryRun, deadline, writable, taskVars, result>>
    <3>2. DOMAIN disk' = Files
      BY <2>2 DEF TypeOK
    <3>3. ASSUME NEW f \in Files PROVE ContentOK(f, disk'[f])
      <4>1. ContentOK(f, disk[f])
        BY DEF TypeOK
      <4>2. Dashboard # History /\ Dashboard # ZipFile /\ Dashboard \notin TextFiles
        BY DEF Dashboard, History, ZipFile, TextFiles
      <4>3. ContentOK(Dashboard, Stats)
        BY <4>2, StagedType DEF ContentOK
      <4> QED BY <2>2, <4>1, <4>3 DEF TypeOK
    <3>4. /\ DOMAIN staged' \subseteq Published
          /\ \A f \in DOMAIN staged' : ContentOK(f, staged'[f])
      BY <2>2, StagedType
    <3>5. IsHistory(hist')
      BY <2>2, StagedType
    <3> QED BY <1>0, <2>2, <3>2, <3>3, <3>4, <3>5 DEF TypeOK, ContentOK, IsHistory
  <2> QED BY <1>7, <2>1, <2>2 DEF Merge
<1>8. CASE PublishFile
  <2>1. next' \in 1..(Len(PublishOrder) + 1)
    BY <1>8, CollectorAssumption DEF PublishFile, TypeOK, CollectorAssumption
  <2>2. DOMAIN disk' = Files
    BY <1>8 DEF PublishFile, TypeOK
  <2>3. ASSUME NEW g \in Files PROVE ContentOK(g, disk'[g])
    BY <1>8 DEF PublishFile, TypeOK, MustWrite
  <2> QED BY <1>8, <2>1, <2>2, <2>3 DEF PublishFile, TypeOK, ContentOK, IsHistory
<1>9. CASE PublishError
  BY <1>9, EndRunType DEF PublishError
<1>10. CASE PublishEnd
  <2>1. CASE EndRun(IF deadline THEN "deadline" ELSE "ok")
             /\ UNCHANGED <<disk, now, dryRun, deadline>>
    BY <2>1, EndRunType
  <2>2. CASE pc' = "upload" /\ UNCHANGED <<disk, now, runVars, taskVars, pubVars, result>>
    BY <2>2 DEF TypeOK, ContentOK, IsHistory
  <2> QED BY <1>10, <2>1, <2>2 DEF PublishEnd
<1>11. CASE Upload
  BY <1>11, EndRunType DEF Upload
<1>12. CASE Deadline
  <2>1. /\ DOMAIN staged' \subseteq TextFiles
        /\ \A f \in DOMAIN staged' : staged'[f] = disk[f]
    BY <1>12 DEF Deadline, ExistingArchives
  <2>2. /\ DOMAIN staged' \subseteq Published
        /\ \A f \in DOMAIN staged' : ContentOK(f, staged'[f])
    BY <2>1 DEF TypeOK, Published, Files
  <2>3. [l \in Lists |-> <<>>] \in [Lists -> Seq(Outcomes)]
    OBVIOUS
  <2>4. IsHistory(EmptyHistory)
    BY DEF IsHistory, EmptyHistory
  <2> QED BY <1>0, <1>12, <2>2, <2>3, <2>4 DEF Deadline, TypeOK, ContentOK, IsHistory
<1>13. CASE Kill
  BY <1>13, EndRunType DEF Kill
<1>14. CASE DamageHistory
  <2>1. DOMAIN disk' = Files
    BY <1>14 DEF DamageHistory, TypeOK
  <2>2. ASSUME NEW g \in Files PROVE ContentOK(g, disk'[g])
    <3>1. CASE g = History
      <4>1. disk'[g].readable = FALSE /\ disk'[g].entries = disk[g].entries
        BY <1>14, <3>1 DEF DamageHistory, TypeOK, ContentOK
      <4> QED BY <3>1, <4>1 DEF TypeOK, ContentOK, History, TextFiles, Readme,
                               Dashboard, ZipFile
    <3>2. CASE g # History
      BY <1>14, <3>2 DEF DamageHistory, TypeOK
    <3> QED BY <3>1, <3>2
  <2> QED BY <1>14, <2>1, <2>2 DEF DamageHistory, TypeOK, ContentOK, IsHistory
<1>15. CASE UNCHANGED vars
  BY <1>15 DEF vars, TypeOK, ContentOK, IsHistory
<1> QED
  BY <1>1, <1>2, <1>3, <1>4, <1>5, <1>6, <1>7, <1>8, <1>9, <1>10, <1>11, <1>12,
     <1>13, <1>14, <1>15 DEF Next

\* The collector never leaves its types, in memory or on disk.
THEOREM TypeCorrect == Spec => []TypeOK
<1> QED BY InitType, NextType, PTL DEF Spec

-----------------------------------------------------------------------------
(* The archives.                                                           *)

\* The files of the lists are text files, all different, and none of the
\* others.
LEMMA FileNames ==
  /\ \A l \in Lists : {Archive(l), Recent(l), Tested(l)} \subseteq TextFiles
  /\ \A k, l \in Lists : Archive(k) = Archive(l) => k = l
  /\ \A k, l \in Lists : Archive(k) \notin {Recent(l), Tested(l)}
  /\ {History, Readme, ZipFile, Dashboard} \cap TextFiles = {}
BY DEF Archive, Recent, Tested, TextFiles, History, Readme, ZipFile, Dashboard

\* An ended run keeps the invariant: it only drops what was in memory.
LEMMA EndRunPublication ==
  ASSUME PublicationInv, TypeOK', NEW r, EndRun(r), UNCHANGED disk
  PROVE  PublicationInv'
<1>1. pc' = "idle" /\ \A l \in Lists : outcomes'[l] = <<>>
  BY DEF EndRun
<1> QED BY <1>1 DEF PublicationInv, SubsetsOfArchive, OutcomesExtendDisk,
                    StagedExtendsDisk, PrefixPublished

\* The merge stages files that extend the disk (run_inner).
LEMMA MergePublication ==
  ASSUME PublicationInv, Merge, TypeOK'
  PROVE  PublicationInv'
<1>1. CASE EndRun("error") /\ UNCHANGED <<disk, now, dryRun, deadline>>
  BY <1>1, EndRunPublication
<1>2. CASE /\ staged' = StagedFiles /\ next' = 1 /\ pc' = "publish"
           /\ disk' = IF dryRun THEN disk ELSE [disk EXCEPT ![Dashboard] = Stats]
  <2>1. \A f \in TextFiles : disk'[f] = disk[f]
    BY <1>2, FileNames DEF PublicationInv, TypeOK, Files, Published
  <2>2. \A f \in TextFiles : f \in DOMAIN staged' <=> HasOutcome(f[2])
    BY <1>2, FileNames DEF StagedFiles, StagedText, HistoryFile
  <2>3. \A f \in TextFiles : f \in DOMAIN staged' => staged'[f] = StagedText[f]
    BY <1>2, FileNames DEF StagedFiles
  <2>4. ASSUME NEW l \in Lists, HasOutcome(l)
        PROVE  /\ StagedText[Archive(l)] = LastOutcome(l).archive
               /\ StagedText[Recent(l)] = RecentOf(l, LastOutcome(l).archive)
               /\ StagedText[Tested(l)] = LastOutcome(l).tested
    BY <2>4, FileNames DEF StagedText, Archive, Recent, Tested
  <2>5. ASSUME NEW l \in Lists, HasOutcome(l)
        PROVE  /\ disk[Archive(l)] \subseteq LastOutcome(l).archive
               /\ LastOutcome(l).tested \subseteq LastOutcome(l).archive
    <3>1. outcomes[l] \in Seq(Outcomes)
      BY DEF PublicationInv, TypeOK
    <3>2. Len(outcomes[l]) \in DOMAIN outcomes[l]
      BY <2>5, <3>1 DEF HasOutcome
    <3> QED BY <3>2 DEF PublicationInv, OutcomesExtendDisk, Merge, LastOutcome
  <2>6. \A l \in Lists : Archive(l)[2] = l /\ Recent(l)[2] = l /\ Tested(l)[2] = l
    BY DEF Archive, Recent, Tested
  <2>7. StagedExtendsDisk'
    <3> SUFFICES ASSUME NEW l \in Lists, HasOutcome(l)
        PROVE /\ disk'[Archive(l)] \subseteq staged'[Archive(l)]
              /\ staged'[Recent(l)] \subseteq staged'[Archive(l)]
              /\ staged'[Tested(l)] \subseteq staged'[Archive(l)]
      BY <2>2, <2>6, FileNames DEF StagedExtendsDisk
    <3>1. {Archive(l), Recent(l), Tested(l)} \subseteq DOMAIN staged'
      BY <2>2, <2>6, FileNames
    <3>2. disk'[Archive(l)] = disk[Archive(l)]
      BY <2>1, FileNames
    <3> QED BY <2>3, <2>4, <2>5, <3>1, <3>2, FileNames DEF RecentOf
  <2>8. SubsetsOfArchive'
    BY <2>1, FileNames DEF PublicationInv, SubsetsOfArchive
  <2>9. PrefixPublished'
    BY <1>2 DEF PrefixPublished
  <2> QED BY <1>2, <2>7, <2>8, <2>9 DEF PublicationInv, OutcomesExtendDisk
<1> QED BY <1>1, <1>2 DEF Merge

\* One path of publish_staged: a list's other files are written only after
\* its archive, so they never get ahead of it.
LEMMA PublishFilePublication ==
  ASSUME PublicationInv, PublishFile, TypeOK'
  PROVE  PublicationInv' /\ \A l \in Lists : disk[Archive(l)] \subseteq disk'[Archive(l)]
<1> DEFINE p == PublishOrder[next]
<1>1. /\ next \in DOMAIN PublishOrder /\ p \in Published /\ p \in Files
      /\ next \in Nat
  BY CollectorAssumption DEF CollectorAssumption, PublishFile, PublicationInv, TypeOK, Files
<1>2. /\ pc = "publish" /\ pc' = "publish" /\ staged' = staged /\ next' = next + 1
      /\ dryRun' = dryRun
  BY DEF PublishFile, runVars
<1>3. CASE ~MustWrite(p)
  <2>1. disk' = disk
    BY <1>3 DEF PublishFile
  <2>2. ~dryRun /\ p \in DOMAIN staged => disk[p] = staged[p]
    BY <1>3 DEF MustWrite
  <2>3. PrefixPublished'
    BY <1>1, <1>2, <2>1, <2>2 DEF PrefixPublished, PublicationInv
  <2> QED BY <1>2, <2>1, <2>3 DEF PublicationInv, SubsetsOfArchive,
                                 OutcomesExtendDisk, StagedExtendsDisk
<1>4. CASE MustWrite(p)
  <2>1. /\ p \in DOMAIN staged /\ ~dryRun
        /\ disk' = [disk EXCEPT ![p] = staged[p]]
    BY <1>4 DEF PublishFile, MustWrite
  <2>2. /\ disk'[p] = staged[p]
        /\ \A f \in Files : f # p => disk'[f] = disk[f]
    BY <1>1, <2>1 DEF PublicationInv, TypeOK
  <2>3. ASSUME NEW l \in Lists
        PROVE  disk[Archive(l)] \subseteq disk'[Archive(l)]
    <3>1. Archive(l) \in Files
      BY FileNames DEF Files, Published
    <3> QED BY <1>2, <2>1, <2>2, <3>1 DEF PublicationInv, StagedExtendsDisk
  <2>4. ASSUME NEW l \in Lists, NEW f \in {Recent(l), Tested(l)}
        PROVE  disk'[f] \subseteq disk'[Archive(l)]
    <3>1. f \in Files /\ Archive(l) \in Published
      BY FileNames DEF Files, Published
    <3>2. disk[f] \subseteq disk[Archive(l)]
      BY <2>4 DEF PublicationInv, SubsetsOfArchive
    <3>3. CASE f # p
      BY <2>2, <2>3, <3>1, <3>2, <3>3
    <3>4. CASE f = p
      <4>1. /\ Archive(l) \in DOMAIN staged
            /\ staged[f] \subseteq staged[Archive(l)]
        BY <1>2, <2>1, <2>4, <3>4 DEF PublicationInv, StagedExtendsDisk
      <4>2. PICK i \in DOMAIN PublishOrder : PublishOrder[i] = Archive(l)
        BY <3>1, CollectorAssumption DEF CollectorAssumption
      <4>3. i < next /\ i \in Nat /\ i >= 1
        BY <1>1, <2>4, <3>4, <4>2, CollectorAssumption DEF CollectorAssumption
      <4>4. i \in 1..(next - 1)
        BY <1>1, <4>3
      <4>5. disk[Archive(l)] = staged[Archive(l)]
        BY <1>2, <2>1, <4>1, <4>2, <4>4 DEF PublicationInv, PrefixPublished
      <4> QED BY <2>2, <2>3, <3>4, <4>1, <4>5
    <3> QED BY <3>3, <3>4
  <2>5. SubsetsOfArchive'
    BY <2>4 DEF SubsetsOfArchive
  <2>6. StagedExtendsDisk'
    <3> SUFFICES ASSUME NEW l \in Lists, Archive(l) \in DOMAIN staged
        PROVE  disk'[Archive(l)] \subseteq staged[Archive(l)]
      BY <1>2 DEF PublicationInv, StagedExtendsDisk
    <3>1. Archive(l) \in Files
      BY FileNames DEF Files, Published
    <3> QED BY <1>2, <2>2, <3>1 DEF PublicationInv, StagedExtendsDisk
  <2>7. PrefixPublished'
    <3> SUFFICES ASSUME NEW i \in 1..next, PublishOrder[i] \in DOMAIN staged
        PROVE  disk'[PublishOrder[i]] = staged[PublishOrder[i]]
      BY <1>1, <1>2 DEF PrefixPublished
    <3>1. CASE i = next
      BY <2>2, <3>1
    <3>2. CASE i # next
      <4>1. i \in 1..(next - 1) /\ i \in DOMAIN PublishOrder
        BY <1>1, <3>2, CollectorAssumption DEF CollectorAssumption
      <4>2. PublishOrder[i] # p /\ PublishOrder[i] \in Files
        BY <1>1, <3>2, <4>1, CollectorAssumption DEF CollectorAssumption, Files
      <4>3. disk[PublishOrder[i]] = staged[PublishOrder[i]]
        BY <1>2, <2>1, <4>1 DEF PublicationInv, PrefixPublished
      <4> QED BY <2>2, <4>2, <4>3
    <3> QED BY <3>1, <3>2
  <2> QED BY <1>2, <2>3, <2>5, <2>6, <2>7 DEF PublicationInv, OutcomesExtendDisk
<1> QED BY <1>3, <1>4

\* Every step keeps the invariant and no step shrinks an archive.
LEMMA PublicationStep ==
  ASSUME PublicationInv, [Next]_vars
  PROVE  /\ PublicationInv'
         /\ \A l \in Lists : disk[Archive(l)] \subseteq disk'[Archive(l)]
<1> USE DEF runVars, taskVars, pubVars
<1>0. TypeOK'
  BY NextType DEF PublicationInv
<1> DEFINE Grows == \A l \in Lists : disk[Archive(l)] \subseteq disk'[Archive(l)]
<1>1. ASSUME disk' = disk,
             \/ pc' = "upload"
             \/ UNCHANGED <<pc, dryRun, outcomes, staged, next>>
             \/ /\ {pc, pc'} \subseteq {"idle", "fetch", "collect"}
                /\ UNCHANGED outcomes
      PROVE  PublicationInv' /\ Grows
  BY <1>0, <1>1 DEF PublicationInv, SubsetsOfArchive, OutcomesExtendDisk,
                    StagedExtendsDisk, PrefixPublished
<1>2. ASSUME NEW r, EndRun(r), disk' = disk PROVE PublicationInv' /\ Grows
  BY <1>0, <1>2, EndRunPublication
<1>3. CASE StartRun
  BY <1>1, <1>3 DEF StartRun
<1>4. ASSUME NEW l \in Lists, Fetch(l) PROVE PublicationInv' /\ Grows
  BY <1>1, <1>4 DEF Fetch
<1>5. CASE BuildJobs
  BY <1>1, <1>5 DEF BuildJobs
<1>6. ASSUME NEW j \in jobs, CollectNothing(j) PROVE PublicationInv' /\ Grows
  BY <1>1, <1>6 DEF CollectNothing
<1>7. ASSUME NEW j \in jobs, CollectOutcome(j) PROVE PublicationInv' /\ Grows
  <2> DEFINE A == ArchiveOf(j.list, j.lines)
  <2>1. j.list \in Lists
    BY <1>7 DEF PublicationInv, TypeOK, Jobs
  <2>2. PICK C \in Candidates(A) : \E up \in SUBSET C :
          \E T \in TestedSets(j.list, up) :
            outcomes' = [outcomes EXCEPT ![j.list] = Append(@,
              [archive |-> A, observed |-> j.lines \cup C, tested |-> T])]
    BY <1>7 DEF CollectOutcome
  <2>3. PICK up \in SUBSET C : \E T \in TestedSets(j.list, up) :
          outcomes' = [outcomes EXCEPT ![j.list] = Append(@,
            [archive |-> A, observed |-> j.lines \cup C, tested |-> T])]
    BY <2>2
  <2>4. PICK T \in TestedSets(j.list, up) :
          outcomes' = [outcomes EXCEPT ![j.list] = Append(@,
            [archive |-> A, observed |-> j.lines \cup C, tested |-> T])]
    BY <2>3
  <2>5. disk[Archive(j.list)] \subseteq A /\ T \subseteq A
    BY DEF ArchiveOf, TestedSets, Candidates
  <2>6. pc = "collect" /\ pc' = "collect" /\ disk' = disk
    BY <1>7 DEF CollectOutcome
  <2>7. ASSUME NEW l \in Lists, NEW i \in DOMAIN outcomes'[l]
        PROVE  /\ disk[Archive(l)] \subseteq outcomes'[l][i].archive
               /\ outcomes'[l][i].tested \subseteq outcomes'[l][i].archive
    <3> DEFINE o == [archive |-> A, observed |-> j.lines \cup C, tested |-> T]
    <3>1. outcomes[l] \in Seq(Outcomes)
      BY DEF PublicationInv, TypeOK
    <3>2. i \in DOMAIN outcomes[l] =>
            /\ disk[Archive(l)] \subseteq outcomes[l][i].archive
            /\ outcomes[l][i].tested \subseteq outcomes[l][i].archive
      BY <2>6 DEF PublicationInv, OutcomesExtendDisk
    <3>3. CASE l # j.list
      <4>1. outcomes'[l] = outcomes[l]
        BY <2>1, <2>4, <3>3 DEF PublicationInv, TypeOK
      <4> QED BY <3>2, <4>1
    <3>4. CASE l = j.list
      <4>1. outcomes'[l] = Append(outcomes[l], o)
        BY <2>1, <2>4, <3>4 DEF PublicationInv, TypeOK
      <4>2. \/ i \in DOMAIN outcomes[l] /\ outcomes'[l][i] = outcomes[l][i]
            \/ outcomes'[l][i] = o
        BY <2>7, <3>1, <4>1
      <4>3. disk[Archive(l)] \subseteq o.archive /\ o.tested \subseteq o.archive
        BY <2>5, <3>4
      <4> QED BY <3>2, <4>2, <4>3
    <3> QED BY <3>3, <3>4
  <2>8. OutcomesExtendDisk'
    BY <2>6, <2>7 DEF OutcomesExtendDisk
  <2> QED BY <1>0, <2>6, <2>8 DEF PublicationInv, SubsetsOfArchive,
                                  StagedExtendsDisk, PrefixPublished
<1>8. ASSUME NEW j \in jobs, CollectPanic(j) PROVE PublicationInv' /\ Grows
  BY <1>2, <1>8 DEF CollectPanic
<1>9. CASE Merge
  <2>1. Grows
    BY <1>9, FileNames DEF Merge, EndRun, PublicationInv, TypeOK, Files, Published
  <2> QED BY <1>0, <1>9, <2>1, MergePublication
<1>10. CASE PublishFile
  BY <1>0, <1>10, PublishFilePublication
<1>11. CASE PublishError
  BY <1>2, <1>11 DEF PublishError
<1>12. CASE PublishEnd
  BY <1>1, <1>2, <1>12 DEF PublishEnd
<1>13. CASE Upload
  BY <1>2, <1>13 DEF Upload
<1>14. CASE Deadline
  <2>1. /\ pc' = "publish" /\ disk' = disk /\ next' = 1 /\ dryRun' = dryRun
        /\ \A f \in DOMAIN staged' : f \in ExistingArchives /\ staged'[f] = disk[f]
    BY <1>14 DEF Deadline
  <2>2. \A l \in Lists : {Recent(l), Tested(l)} \cap DOMAIN staged' = {}
    BY <2>1 DEF ExistingArchives, Recent, Tested
  <2>3. StagedExtendsDisk'
    BY <2>1, <2>2 DEF StagedExtendsDisk
  <2> QED BY <1>0, <2>1, <2>3 DEF PublicationInv, SubsetsOfArchive,
                                  OutcomesExtendDisk, PrefixPublished
<1>15. CASE Kill
  BY <1>2, <1>15 DEF Kill
<1>16. CASE DamageHistory
  <2>1. \A f \in TextFiles : disk'[f] = disk[f]
    BY <1>16, FileNames DEF DamageHistory, PublicationInv, TypeOK, Files, Published
  <2>2. pc = "idle" /\ pc' = "idle" /\ outcomes' = outcomes
    BY <1>16 DEF DamageHistory
  <2> QED BY <1>0, <2>1, <2>2, FileNames DEF PublicationInv, SubsetsOfArchive,
             OutcomesExtendDisk, StagedExtendsDisk, PrefixPublished
<1>17. CASE UNCHANGED vars
  BY <1>1, <1>17 DEF vars
<1> QED
  BY <1>3, <1>4, <1>5, <1>6, <1>7, <1>8, <1>9, <1>10, <1>11, <1>12, <1>13,
     <1>14, <1>15, <1>16, <1>17 DEF Next
\* Init establishes the invariant: every list is empty.
LEMMA PublicationInit == Init => PublicationInv
<1> SUFFICES ASSUME Init PROVE PublicationInv
  OBVIOUS
<1>1. \A f \in TextFiles : disk[f] = {}
  BY FileNames DEF Init, Files, Published
<1>2. pc = "idle" /\ \A l \in Lists : outcomes[l] = <<>>
  BY DEF Init
<1> QED BY <1>1, <1>2, InitType, FileNames DEF PublicationInv, SubsetsOfArchive,
           OutcomesExtendDisk, StagedExtendsDisk, PrefixPublished

\* The strengthened invariant holds in every reachable state.
THEOREM PublicationInvariant == Spec => []PublicationInv
<1> QED BY PublicationInit, PublicationStep, PTL DEF Spec

\* What a list recommends is in its archive, at every moment.
THEOREM SubsetsOfArchiveHolds == Spec => []SubsetsOfArchive
<1>1. PublicationInv => SubsetsOfArchive
  BY DEF PublicationInv
<1> QED BY <1>1, PublicationInvariant, PTL

\* No step of any run, complete or cut, removes a line from an archive.
THEOREM ArchivesOnlyGrowHolds == Spec => ArchivesOnlyGrow
<1>1. PublicationInv /\ [Next]_vars
        => [\A l \in Lists : disk[Archive(l)] \subseteq disk'[Archive(l)]]_vars
  BY PublicationStep
<1> QED BY <1>1, PublicationInvariant, PTL DEF Spec, ArchivesOnlyGrow

-----------------------------------------------------------------------------
(* What a run must not write.                                              *)

\* The inductive reason for DamagedHistoryKept: the flag a run took from the
\* file it loaded stays true to the file, for nobody else writes it during
\* the run, without the flag the history is not staged, and a staged history
\* can be read again.
HistoryInv ==
  /\ pc # "idle" /\ writable => disk[History].readable
  /\ pc = "publish" /\ ~disk[History].readable => History \notin DOMAIN staged
  /\ pc = "publish" /\ History \in DOMAIN staged => staged[History].readable

\* A step that leaves the history file alone and stages nothing keeps it.
LEMMA HistoryQuiet ==
  ASSUME HistoryInv, disk'[History] = disk[History],
         pc' = "idle" \/ (pc # "idle" /\ (writable' => writable)),
         pc' = "publish" => pc = "publish" /\ staged' = staged
  PROVE  HistoryInv'
BY DEF HistoryInv

\* A step of the collector keeps HistoryInv, and a damaged history as it is.
LEMMA NextHistory ==
  ASSUME TypeOK, HistoryInv, [Next]_vars
  PROVE  /\ HistoryInv'
         /\ ~disk[History].readable => disk'[History] = disk[History]
<1> USE DEF runVars, taskVars, pubVars
<1>1. CASE StartRun
  BY <1>1 DEF StartRun, HistoryInv
<1>2. CASE \E l \in Lists : Fetch(l)
  BY <1>2, HistoryQuiet DEF Fetch
<1>3. CASE BuildJobs
  BY <1>3, HistoryQuiet DEF BuildJobs
<1>4. CASE \E j \in jobs : CollectNothing(j) \/ CollectOutcome(j) \/ CollectPanic(j)
  BY <1>4, HistoryQuiet DEF CollectNothing, CollectOutcome, CollectPanic, EndRun
<1>5. CASE Merge
  <2>1. CASE EndRun("error") /\ UNCHANGED disk
    BY <2>1, HistoryQuiet DEF EndRun
  <2>2. CASE /\ staged' = StagedFiles /\ pc' = "publish" /\ writable' = writable
             /\ disk' = IF dryRun THEN disk ELSE [disk EXCEPT ![Dashboard] = Stats]
    <3>0. History \in DOMAIN staged' => staged'[History].readable
      BY <2>2, FileNames DEF StagedFiles, StagedText, HistoryFile, History, Readme, ZipFile
    <3>1. disk'[History] = disk[History]
      BY <2>2 DEF TypeOK, History, Dashboard
    <3>2. ~writable => History \notin DOMAIN staged'
      BY <2>2, FileNames DEF StagedFiles, StagedText, HistoryFile, History, Readme, ZipFile
    <3> QED BY <1>5, <2>2, <3>0, <3>1, <3>2 DEF Merge, HistoryInv
  <2> QED BY <1>5, <2>1, <2>2 DEF Merge
<1>6. CASE PublishFile
  <2> DEFINE p == PublishOrder[next]
  <2>1. CASE p = History /\ MustWrite(p)
    <3>1. disk[History].readable
      BY <1>6, <2>1 DEF PublishFile, MustWrite, HistoryInv
    <3>2. disk'[History].readable
      BY <1>6, <2>1 DEF PublishFile, MustWrite, HistoryInv, TypeOK, Files, Published
    <3> QED BY <1>6, <3>1, <3>2 DEF PublishFile, HistoryInv
  <2>2. CASE ~(p = History /\ MustWrite(p))
    <3>1. disk'[History] = disk[History]
      BY <1>6, <2>2 DEF PublishFile, TypeOK
    <3> QED BY <1>6, <3>1, HistoryQuiet DEF PublishFile
  <2> QED BY <2>1, <2>2
<1>7. CASE PublishError \/ Upload \/ Kill
  BY <1>7, HistoryQuiet DEF PublishError, Upload, Kill, EndRun
<1>8. CASE PublishEnd
  BY <1>8, HistoryQuiet DEF PublishEnd, EndRun
<1>9. CASE Deadline
  BY <1>9, FileNames DEF Deadline, ExistingArchives, HistoryInv
<1>10. CASE DamageHistory
  BY <1>10 DEF DamageHistory, HistoryInv
<1>11. CASE UNCHANGED vars
  BY <1>11 DEF vars, HistoryInv
<1> QED BY <1>1, <1>2, <1>3, <1>4, <1>5, <1>6, <1>7, <1>8, <1>9, <1>10, <1>11
        DEF Next

\* Every run keeps HistoryInv.
LEMMA HistoryInvariant == Spec => []HistoryInv
<1>1. Init => HistoryInv
  BY DEF Init, HistoryInv
<1> QED BY <1>1, NextHistory, TypeCorrect, PTL DEF Spec

\* A history the collector could not load stays as it was found, whatever
\* the run does and wherever it ends.
THEOREM DamagedHistoryKeptHolds == Spec => DamagedHistoryKept
<1> QED BY HistoryInvariant, NextHistory, TypeCorrect, PTL
        DEF Spec, DamagedHistoryKept

-----------------------------------------------------------------------------
(* The ZIP.                                                                *)

\* The ZIP a run stages is the directory as the publication will leave it:
\* every staged text file, and for the others what is on disk
\* (existing_zip_entries overlaid with the staged files).
ZipStaged ==
  pc = "publish" /\ ~deadline =>
    /\ ZipFile \in DOMAIN staged
    /\ \A f \in TextFiles :
         staged[ZipFile][f] = IF f \in DOMAIN staged THEN staged[f] ELSE disk[f]

\* The inductive strengthening of ZipMatchesDirectory.
ZipInv == ZipStaged /\ ZipMatchesDirectory

\* The ZIP of the merge is that of the staged files (run_inner).
LEMMA MergeZip ==
  ASSUME TypeOK, ZipInv, Merge
  PROVE  ZipInv'
<1>1. CASE EndRun("error")
  BY <1>1 DEF EndRun, ZipInv, ZipStaged, ZipMatchesDirectory
<1>2. CASE /\ staged' = StagedFiles /\ pc' = "publish"
           /\ disk' = IF dryRun THEN disk ELSE [disk EXCEPT ![Dashboard] = Stats]
  <2>1. \A f \in TextFiles : disk'[f] = disk[f]
    BY <1>2, FileNames DEF TypeOK
  <2>2. /\ ZipFile \in DOMAIN StagedFiles
        /\ StagedFiles[ZipFile] = ZipOf(StagedText)
    BY DEF StagedFiles, ZipFile, Readme, History
  <2>3. ASSUME NEW f \in TextFiles
        PROVE  /\ f \in DOMAIN StagedFiles <=> f \in DOMAIN StagedText
               /\ f \in DOMAIN StagedText => StagedFiles[f] = StagedText[f]
    BY FileNames DEF StagedFiles, HistoryFile
  <2>4. ASSUME NEW f \in TextFiles
        PROVE  ZipOf(StagedText)[f] =
                 IF f \in DOMAIN StagedFiles THEN StagedFiles[f] ELSE disk'[f]
    BY <2>1, <2>3 DEF ZipOf
  <2>5. ZipStaged'
    BY <1>2, <2>2, <2>4 DEF ZipStaged
  <2> QED BY <1>2, <2>5 DEF ZipInv, ZipMatchesDirectory
<1> QED BY <1>1, <1>2 DEF Merge

\* Writing a staged path does not change what the ZIP has to say.
LEMMA PublishFileZip ==
  ASSUME TypeOK, ZipInv, PublishFile
  PROVE  ZipInv'
<1>1. /\ pc = "publish" /\ pc' = "publish" /\ staged' = staged
      /\ deadline' = deadline
  BY DEF PublishFile, runVars
<1>2. ASSUME NEW f \in TextFiles, f \notin DOMAIN staged
      PROVE  disk'[f] = disk[f]
  BY <1>2 DEF PublishFile, MustWrite, TypeOK
<1>3. ZipStaged'
  BY <1>1, <1>2 DEF ZipInv, ZipStaged
<1> QED BY <1>1, <1>3 DEF ZipInv, ZipMatchesDirectory

\* At the end of publish_staged the whole directory is what the ZIP says.
LEMMA PublishedZip ==
  ASSUME TypeOK, PrefixPublished, ZipStaged,
         pc = "publish", next > Len(PublishOrder), ~deadline, ~dryRun
  PROVE  disk[ZipFile] = [f \in TextFiles |-> disk[f]]
<1>1. ASSUME NEW f \in Published, f \in DOMAIN staged
      PROVE  disk[f] = staged[f]
  <2>1. PICK i \in DOMAIN PublishOrder : PublishOrder[i] = f
    BY CollectorAssumption DEF CollectorAssumption
  <2>2. i \in 1..(next - 1)
    BY CollectorAssumption DEF CollectorAssumption, TypeOK
  <2> QED BY <1>1, <2>1, <2>2 DEF PrefixPublished
<1>2. ZipFile \in Published /\ TextFiles \subseteq Published
  BY DEF Published
<1>3. disk[ZipFile] = staged[ZipFile]
  BY <1>1, <1>2 DEF ZipStaged
<1>4. ASSUME NEW f \in TextFiles PROVE disk[ZipFile][f] = disk[f]
  BY <1>1, <1>2, <1>3 DEF ZipStaged
<1>5. disk[ZipFile] \in [TextFiles -> SUBSET Lines]
  BY <1>2 DEF TypeOK, ContentOK, Files
<1> QED BY <1>4, <1>5

\* Every step keeps ZipInv.
LEMMA NextZip ==
  ASSUME TypeOK, PrefixPublished, ZipInv, [Next]_vars
  PROVE  ZipInv'
<1> USE DEF runVars, taskVars, pubVars
<1>1. ASSUME pc' \notin {"publish", "upload"},
             pc' = "idle" => result' # "ok" \/ dryRun'
      PROVE  ZipInv'
  BY <1>1 DEF ZipInv, ZipStaged, ZipMatchesDirectory
<1>2. CASE StartRun
  BY <1>1, <1>2 DEF StartRun
<1>3. CASE BuildJobs \/ \E l \in Lists : Fetch(l)
  BY <1>1, <1>3 DEF BuildJobs, Fetch
<1>4. CASE \E j \in jobs : CollectNothing(j) \/ CollectOutcome(j) \/ CollectPanic(j)
  BY <1>1, <1>4 DEF CollectNothing, CollectOutcome, CollectPanic, EndRun
<1>5. CASE Merge
  BY <1>5, MergeZip
<1>6. CASE PublishFile
  BY <1>6, PublishFileZip
<1>7. CASE PublishError \/ Kill
  BY <1>1, <1>7 DEF PublishError, Kill, EndRun
<1>8. CASE PublishEnd
  <2>1. CASE deadline \/ dryRun
    BY <1>1, <1>8, <2>1 DEF PublishEnd, EndRun, TypeOK
  <2>2. CASE ~deadline /\ ~dryRun
    <3>1. disk[ZipFile] = [f \in TextFiles |-> disk[f]]
      BY <1>8, <2>2, PublishedZip DEF PublishEnd, ZipInv
    <3>2. disk' = disk /\ pc' # "publish"
      BY <1>8 DEF PublishEnd, EndRun
    <3> QED BY <3>1, <3>2 DEF ZipInv, ZipStaged, ZipMatchesDirectory
  <2> QED BY <2>1, <2>2 DEF TypeOK
<1>9. CASE Upload
  BY <1>9 DEF Upload, EndRun, ZipInv, ZipStaged, ZipMatchesDirectory
<1>10. CASE Deadline
  BY <1>10 DEF Deadline, ZipInv, ZipStaged, ZipMatchesDirectory
<1>11. CASE DamageHistory
  <2>1. \A f \in TextFiles \cup {ZipFile} : disk'[f] = disk[f]
    BY <1>11, FileNames DEF DamageHistory, TypeOK, History, ZipFile
  <2>2. [f \in TextFiles |-> disk'[f]] = [f \in TextFiles |-> disk[f]]
    BY <2>1
  <2>3. UNCHANGED <<pc, result, dryRun>> /\ pc = "idle"
    BY <1>11 DEF DamageHistory
  <2> QED BY <2>1, <2>2, <2>3 DEF ZipInv, ZipStaged, ZipMatchesDirectory
<1>12. CASE UNCHANGED vars
  BY <1>12 DEF vars, ZipInv, ZipStaged, ZipMatchesDirectory
<1> QED BY <1>2, <1>3, <1>4, <1>5, <1>6, <1>7, <1>8, <1>9, <1>10, <1>11, <1>12
        DEF Next

\* A run that published everything leaves a ZIP with the very files of the
\* directory, whatever mixture an earlier cut run had left.
THEOREM ZipMatchesDirectoryHolds == Spec => []ZipMatchesDirectory
<1>1. Init => ZipInv
  BY DEF Init, ZipInv, ZipStaged, ZipMatchesDirectory
<1>2. PublicationInv => TypeOK /\ PrefixPublished
  BY DEF PublicationInv
<1>3. ZipInv => ZipMatchesDirectory
  BY DEF ZipInv
<1> QED BY <1>1, <1>2, <1>3, NextZip, PublicationInvariant, PTL DEF Spec

-----------------------------------------------------------------------------
(* The observations the history holds.                                     *)

\* Every line was last observed by a run that has happened.
Dated(h) == \A x \in DOMAIN h : 1 <= h[x].last /\ h[x].last <= now

\* What history h says of the lines of history g is no older.
Continues(g, h) ==
  \A x \in DOMAIN g \cap DOMAIN h :
    h[x].first = g[x].first /\ h[x].last >= g[x].last

\* A run holds the history it loaded, and writes it only if it could.
Loaded ==
  pc \in {"fetch", "collect"} =>
    /\ writable <=> disk[History].readable
    /\ writable => hist = disk[History].entries

StagedContinues ==
  pc = "publish" /\ History \in DOMAIN staged =>
    /\ Dated(staged[History].entries)
    /\ Continues(disk[History].entries, staged[History].entries)

\* The inductive reason for FirstSeenFixed: the history that is published
\* continues the one on disk, for it was made from it.
StampInv ==
  /\ now <= MaxRuns /\ (pc # "idle" => now >= 1)
  /\ Dated(disk[History].entries) /\ Loaded /\ StagedContinues

\* Observing lines and purging continues a history (observe_discovered,
\* record_probe, cleanup).
LEMMA ObserveContinues ==
  ASSUME NEW h, NEW S \in SUBSET Lines, IsHistory(h), Dated(h),
         now \in Nat, now >= 1
  PROVE  /\ Dated(Cleanup(Observe(h, S)))
         /\ Continues(h, Cleanup(Observe(h, S)))
<1> DEFINE g == Observe(h, S)
<1>1. DOMAIN g = DOMAIN h \cup S
  BY DEF Observe
<1>2. ASSUME NEW x \in DOMAIN g
      PROVE  /\ 1 <= g[x].last /\ g[x].last <= now
             /\ x \in DOMAIN h => g[x].first = h[x].first /\ g[x].last >= h[x].last
  <2>1. x \in DOMAIN h => /\ h[x].last \in Nat
                          /\ 1 <= h[x].last /\ h[x].last <= now
    BY DEF IsHistory, Stamp, Dated
  <2>2. g[x] = [first |-> IF x \in DOMAIN h THEN h[x].first ELSE now,
                last  |-> IF x \in S THEN now ELSE h[x].last]
    BY <1>2 DEF Observe
  <2>3. g[x].last = (IF x \in S THEN now ELSE h[x].last)
        /\ (x \in DOMAIN h => g[x].first = h[x].first)
    BY <2>2
  <2> QED BY <1>1, <2>1, <2>3
<1> HIDE DEF g
<1>3. DOMAIN Cleanup(g) \subseteq DOMAIN g
      /\ \A x \in DOMAIN Cleanup(g) : Cleanup(g)[x] = g[x]
  BY DEF Cleanup
<1>4. Dated(Cleanup(g)) /\ Continues(h, Cleanup(g))
  BY <1>2, <1>3 DEF Dated, Continues
<1> QED BY <1>4 DEF g

\* What the lists observed are lines.
LEMMA ObservedLines ==
  ASSUME TypeOK
  PROVE  UNION {Observed(k) : k \in 1..NLists} \in SUBSET Lines
<1>1. ASSUME NEW l \in Lists PROVE Observed(l) \in SUBSET Lines
  <2>1. outcomes[l] \in Seq(Outcomes)
    BY DEF TypeOK
  <2>2. \A i \in DOMAIN outcomes[l] : outcomes[l][i] \in Outcomes
    BY <2>1
  <2>3. \A i \in DOMAIN outcomes[l] : outcomes[l][i].observed \subseteq Lines
    BY <2>2 DEF Outcomes
  <2> QED BY <2>3 DEF Observed
<1> QED BY <1>1 DEF Lists

\* The history on disk is one.
LEMMA DiskHistory ==
  ASSUME TypeOK
  PROVE  /\ History \in Files /\ IsHistory(disk[History].entries)
         /\ disk[History].readable \in BOOLEAN
BY DEF TypeOK, ContentOK, Files, Published

\* The history the merge stages is made of what it loaded.
LEMMA StagedHistory ==
  /\ History \in DOMAIN StagedFiles <=> writable
  /\ History \in DOMAIN StagedFiles =>
       StagedFiles[History].entries = Cleanup(Merged(NLists))
BY FileNames DEF StagedFiles, StagedText, HistoryFile, History, Readme, ZipFile

\* The merge writes the dashboard at most.
LEMMA MergeDisk ==
  ASSUME TypeOK, Merge
  PROVE  \A f \in Published : disk'[f] = disk[f]
<1>1. disk' \in {disk, [disk EXCEPT ![Dashboard] = Stats]}
  BY DEF Merge
<1>2. Dashboard \notin Published
  BY DEF Published, TextFiles, Dashboard, History, Readme, ZipFile
<1>3. CASE disk' = disk
  BY <1>3
<1>4. CASE disk' = [disk EXCEPT ![Dashboard] = Stats]
  BY <1>2, <1>4 DEF TypeOK, Files
<1> QED BY <1>1, <1>3, <1>4

\* The history files of before and after the merge agree (run_inner).
LEMMA MergeStamps ==
  ASSUME TypeOK, HistoryInv, StampInv, Merge
  PROVE  StampInv'
<1>0. disk'[History] = disk[History] /\ now' = now
  BY MergeDisk DEF Merge, Published
<1>1. CASE EndRun("error")
  BY <1>0, <1>1 DEF EndRun, StampInv, Dated, Loaded, StagedContinues
<1>2. CASE staged' = StagedFiles /\ pc' = "publish"
  <2>1. ASSUME writable
        PROVE  /\ Dated(StagedFiles[History].entries)
               /\ Continues(disk[History].entries, StagedFiles[History].entries)
    <3>1. hist = disk[History].entries /\ now >= 1 /\ now \in Nat
      BY <2>1 DEF Merge, StampInv, Loaded, TypeOK
    <3>2. Dated(hist) /\ IsHistory(hist)
      BY <3>1 DEF StampInv, TypeOK
    <3> QED BY <2>1, <3>1, <3>2, ObservedLines, ObserveContinues, StagedHistory
            DEF Merged
  <2>2. StagedContinues'
    BY <1>0, <1>2, <2>1, StagedHistory DEF StagedContinues, Dated, Continues
  <2> QED BY <1>0, <1>2, <2>2 DEF Merge, StampInv, Dated, Loaded
<1> QED BY <1>1, <1>2 DEF Merge

\* A step that leaves the history file, the clock and what is staged alone.
LEMMA StampsQuiet ==
  ASSUME StampInv, disk'[History] = disk[History], now' = now,
         \/ pc' \in {"idle", "upload"} /\ pc # "idle"
         \/ UNCHANGED <<pc, hist, writable, staged>>
         \/ {pc, pc'} = {"fetch", "collect"} /\ UNCHANGED <<hist, writable>>
         \/ pc # "idle" /\ pc' = "publish" /\ History \notin DOMAIN staged'
  PROVE  StampInv'
BY DEF StampInv, Dated, Loaded, StagedContinues, Continues

\* publish_staged replaces the history by one that continues it.
LEMMA PublishFileStamps ==
  ASSUME TypeOK, StampInv, PublishFile
  PROVE  /\ StampInv'
         /\ Continues(disk[History].entries, disk'[History].entries)
<1>0. /\ pc = "publish" /\ pc' = "publish" /\ staged' = staged /\ now' = now
      /\ IsHistory(disk[History].entries)
      /\ UNCHANGED <<hist, writable>>
  BY DiskHistory DEF PublishFile, runVars
<1>1. CASE disk'[History] = disk[History]
  <2>1. Continues(disk[History].entries, disk[History].entries)
    BY <1>0 DEF Continues, IsHistory, Stamp
  <2> QED BY <1>0, <1>1, <2>1, StampsQuiet
<1>2. CASE disk'[History] # disk[History]
  <2>1. History \in DOMAIN staged /\ disk'[History] = staged[History]
    BY <1>2, DiskHistory DEF PublishFile, MustWrite, TypeOK
  <2>2. IsHistory(staged[History].entries)
    BY <2>1 DEF TypeOK, ContentOK
  <2>3. Continues(staged[History].entries, staged[History].entries)
    BY <2>2 DEF Continues, IsHistory, Stamp
  <2>4. StampInv'
    BY <1>0, <2>1, <2>3 DEF StampInv, Dated, Loaded, StagedContinues, Continues
  <2> QED BY <1>0, <2>1, <2>4 DEF StampInv, StagedContinues
<1> QED BY <1>1, <1>2

\* Every step keeps StampInv, and what it writes continues what was there.
LEMMA NextStamps ==
  ASSUME TypeOK, HistoryInv, StampInv, [Next]_vars
  PROVE  /\ StampInv'
         /\ disk'[History].readable =>
              Continues(disk[History].entries, disk'[History].entries)
<1> USE DEF runVars, taskVars, pubVars
<1>0. Continues(disk[History].entries, disk[History].entries)
  BY DiskHistory DEF Continues, IsHistory, Stamp
<1>1. CASE StartRun
  <2>1. /\ disk' = disk /\ now' = now + 1 /\ now' <= MaxRuns /\ now' >= 1
        /\ pc' = "fetch" /\ now \in Nat
    BY <1>1, CollectorAssumption DEF StartRun, TypeOK, CollectorAssumption
  <2>2. Loaded'
    BY <1>1, DiskHistory DEF StartRun, Loaded
  <2>3. ASSUME NEW x \in DOMAIN disk[History].entries
        PROVE  /\ 1 <= disk[History].entries[x].last
               /\ disk[History].entries[x].last <= now'
    <3>1. disk[History].entries[x].last \in Nat
      BY DiskHistory DEF IsHistory, Stamp
    <3> QED BY <2>1, <3>1 DEF StampInv, Dated
  <2>4. Dated(disk[History].entries)'
    BY <2>1, <2>3 DEF Dated
  <2> QED BY <1>0, <2>1, <2>2, <2>4 DEF StampInv, StagedContinues
<1>2. CASE \E l \in Lists : Fetch(l)
  BY <1>0, <1>2, StampsQuiet DEF Fetch
<1>3. CASE BuildJobs
  BY <1>0, <1>3, StampsQuiet DEF BuildJobs
<1>4. CASE \E j \in jobs : CollectNothing(j) \/ CollectOutcome(j) \/ CollectPanic(j)
  BY <1>0, <1>4, StampsQuiet DEF CollectNothing, CollectOutcome, CollectPanic, EndRun
<1>5. CASE Merge
  <2>1. disk'[History] = disk[History]
    BY <1>5, MergeDisk DEF Published
  <2> QED BY <1>0, <1>5, <2>1, MergeStamps
<1>6. CASE PublishFile
  BY <1>6, PublishFileStamps
<1>7. CASE PublishError \/ Upload \/ Kill
  BY <1>0, <1>7, StampsQuiet DEF PublishError, Upload, Kill, EndRun
<1>8. CASE PublishEnd
  BY <1>0, <1>8, StampsQuiet DEF PublishEnd, EndRun
<1>9. CASE Deadline
  <2>1. History \notin DOMAIN staged'
    BY <1>9, FileNames DEF Deadline, ExistingArchives
  <2> QED BY <1>0, <1>9, <2>1, StampsQuiet DEF Deadline, AtAwait
<1>10. CASE DamageHistory
  <2>1. /\ disk'[History].entries = disk[History].entries
        /\ UNCHANGED <<pc, now, hist, writable, staged>> /\ pc = "idle"
    BY <1>10, DiskHistory DEF DamageHistory, TypeOK
  <2> QED BY <1>0, <2>1 DEF StampInv, Dated, Loaded, StagedContinues
<1>11. CASE UNCHANGED vars
  BY <1>0, <1>11, StampsQuiet DEF vars
<1> QED BY <1>1, <1>2, <1>3, <1>4, <1>5, <1>6, <1>7, <1>8, <1>9, <1>10, <1>11
        DEF Next

\* Every run keeps StampInv.
LEMMA StampInvariant == Spec => []StampInv
<1>1. Init => StampInv
  <2> SUFFICES ASSUME Init PROVE StampInv
    OBVIOUS
  <2>1. History \in Files
    BY DEF Files, Published
  <2>2. disk[History] = [readable |-> TRUE, entries |-> EmptyHistory]
    <3>1. History \notin {Readme, Dashboard, ZipFile}
      BY DEF History, Readme, Dashboard, ZipFile
    <3> QED BY <2>1, <3>1 DEF Init
  <2>3. DOMAIN disk[History].entries = {}
    BY <2>2 DEF EmptyHistory
  <2>4. now = 0 /\ pc = "idle" /\ MaxRuns >= 0
    BY CollectorAssumption DEF Init, CollectorAssumption
  <2> QED BY <2>3, <2>4 DEF StampInv, Dated, Loaded, StagedContinues
<1> QED BY <1>1, NextStamps, HistoryInvariant, TypeCorrect, PTL DEF Spec

\* While a line stays in a readable history file its first observation does
\* not move and its last one never goes back.
THEOREM FirstSeenFixedHolds == Spec => FirstSeenFixed
<1>1. TypeOK /\ HistoryInv /\ StampInv /\ [Next]_vars
        => [disk[History].readable /\ disk'[History].readable =>
              \A x \in DOMAIN disk[History].entries \cap DOMAIN disk'[History].entries :
                /\ disk'[History].entries[x].first = disk[History].entries[x].first
                /\ disk'[History].entries[x].last >= disk[History].entries[x].last]_vars
  BY NextStamps DEF Continues
<1> QED BY <1>1, StampInvariant, HistoryInvariant, TypeCorrect, PTL
        DEF Spec, FirstSeenFixed

-----------------------------------------------------------------------------
(* The evidence for what is fresh.                                         *)

\* The run whose merge was the last to write: the current one's is to come.
Settled == IF pc \in {"fetch", "collect"} THEN now - 1 ELSE now

\* Every archived line has an entry in the history file.
Witnessed ==
  \A l \in Lists : disk[Archive(l)] \subseteq DOMAIN disk[History].entries

\* The staged history drops no line, and has those the staged archives add.
StagedWitnessed ==
  pc = "publish" =>
    /\ History \in DOMAIN staged =>
         DOMAIN disk[History].entries \subseteq DOMAIN staged[History].entries
    /\ \A l \in Lists : Archive(l) \in DOMAIN staged =>
         \A x \in staged[Archive(l)] :
           \/ x \in DOMAIN disk[History].entries
           \/ History \in DOMAIN staged /\ x \in DOMAIN staged[History].entries

\* What a task adds to an archive, it hands to the history (collect_list).
OutcomesObserved ==
  pc \in {"idle", "fetch", "collect"} =>
    \A l \in Lists : \A i \in DOMAIN outcomes[l] :
      outcomes[l][i].archive \subseteq disk[Archive(l)] \cup outcomes[l][i].observed

\* The inductive reason for FreshOnlyOnEvidence: until a purge or damage, no
\* archived line is without an entry, at whatever path a publication is cut.
EvidenceInv ==
  /\ OutcomesObserved
  /\ disk[History].readable /\ Settled <= Retention => Witnessed /\ StagedWitnessed

\* The clock of the last merge does not go back while a run goes on.
LEMMA SettledGrows ==
  ASSUME TypeOK, now' = now
  PROVE  /\ Settled \in Int /\ Settled' \in Int
         /\ pc \in {"fetch", "collect"} \/ pc' \notin {"fetch", "collect"}
              => Settled <= Settled'
BY DEF TypeOK, Settled

\* A step that writes none of the staged paths and stages nothing keeps it.
LEMMA EvidenceQuiet ==
  ASSUME TypeOK, EvidenceInv, now' = now,
         \A f \in Published : disk'[f] = disk[f],
         pc \in {"fetch", "collect"} \/ pc' \notin {"fetch", "collect"},
         pc' = "publish" => pc = "publish" /\ staged' = staged,
         \/ \A l \in Lists : outcomes'[l] = <<>>
         \/ pc' \in {"publish", "upload"}
         \/ pc \in {"idle", "fetch", "collect"} /\ outcomes' = outcomes
  PROVE  EvidenceInv'
<1>1. /\ disk'[History] = disk[History]
      /\ \A l \in Lists : disk'[Archive(l)] = disk[Archive(l)]
  BY FileNames DEF Published
<1>2. OutcomesObserved'
  BY <1>1 DEF EvidenceInv, OutcomesObserved
<1>3. Settled' <= Retention => Settled <= Retention
  BY SettledGrows, CollectorAssumption DEF CollectorAssumption
<1>4. Witnessed => Witnessed'
  BY <1>1 DEF Witnessed
<1>5. StagedWitnessed => StagedWitnessed'
  BY <1>1 DEF StagedWitnessed
<1> QED BY <1>1, <1>2, <1>3, <1>4, <1>5 DEF EvidenceInv

\* Before the retention is over nothing is purged (cleanup).
LEMMA NothingPurged ==
  ASSUME NEW h, NEW S \in SUBSET Lines, IsHistory(h), Dated(h),
         now \in Nat, now >= 1, now <= Retention
  PROVE  DOMAIN Cleanup(Observe(h, S)) = DOMAIN h \cup S
<1>1. ASSUME NEW x \in DOMAIN h \cup S
      PROVE  Observe(h, S)[x].last > now - Retention
  <2>1. x \in DOMAIN h => h[x].last \in Nat /\ 1 <= h[x].last
    BY DEF IsHistory, Stamp, Dated
  <2>2. Observe(h, S)[x] =
          [first |-> IF x \in DOMAIN h THEN h[x].first ELSE now,
           last  |-> IF x \in S THEN now ELSE h[x].last]
    BY <1>1 DEF Observe
  <2>3. Observe(h, S)[x].last = IF x \in S THEN now ELSE h[x].last
    BY <2>2
  <2> QED BY <1>1, <2>1, <2>3, CollectorAssumption DEF CollectorAssumption
<1>2. DOMAIN Observe(h, S) = DOMAIN h \cup S
  BY DEF Observe
<1> QED BY <1>1, <1>2 DEF Cleanup

\* A staged archive is the one of the list's last outcome, and the lines it
\* adds are observed.
LEMMA StagedArchive ==
  ASSUME TypeOK, OutcomesObserved, pc = "collect",
         NEW l \in Lists, Archive(l) \in DOMAIN StagedFiles,
         NEW x \in StagedFiles[Archive(l)]
  PROVE  x \in disk[Archive(l)] \cup UNION {Observed(k) : k \in 1..NLists}
<1> DEFINE n == Len(outcomes[l])
<1>1. Archive(l) \in TextFiles /\ Archive(l)[1] = "archive" /\ Archive(l)[2] = l
  BY FileNames DEF Archive
<1>2. Archive(l) \in DOMAIN StagedText
      /\ StagedFiles[Archive(l)] = StagedText[Archive(l)]
  BY <1>1, FileNames DEF StagedFiles, HistoryFile
<1>3. HasOutcome(l) /\ StagedText[Archive(l)] = LastOutcome(l).archive
  BY <1>1, <1>2 DEF StagedText
<1>4. n \in DOMAIN outcomes[l]
  <2>1. outcomes[l] \in Seq(Outcomes)
    BY DEF TypeOK
  <2> QED BY <1>3, <2>1 DEF HasOutcome
<1>5. x \in disk[Archive(l)] \cup outcomes[l][n].observed
  BY <1>2, <1>3, <1>4 DEF OutcomesObserved, LastOutcome
<1>6. outcomes[l][n].observed \subseteq Observed(l)
  BY <1>4 DEF Observed
<1>7. l \in 1..NLists
  BY DEF Lists
<1> QED BY <1>5, <1>6, <1>7

\* The merge stages the evidence together with the archives (run_inner).
LEMMA MergeEvidence ==
  ASSUME TypeOK, StampInv, EvidenceInv, Merge
  PROVE  EvidenceInv'
<1>0. now' = now /\ pc = "collect" /\ now \in Nat
  BY DEF Merge, TypeOK
<1>1. CASE EndRun("error")
  BY <1>0, <1>1, MergeDisk, EvidenceQuiet DEF EndRun
<1>2. CASE staged' = StagedFiles /\ pc' = "publish"
  <2>1. /\ disk'[History] = disk[History]
        /\ \A l \in Lists : disk'[Archive(l)] = disk[Archive(l)]
    BY MergeDisk, FileNames DEF Published
  <2>2. OutcomesObserved'
    BY <1>2 DEF OutcomesObserved
  <2>3. ASSUME disk'[History].readable, Settled' <= Retention
        PROVE  Witnessed' /\ StagedWitnessed'
    <3> DEFINE O == UNION {Observed(k) : k \in 1..NLists}
    <3>1. now <= Retention
      BY <1>0, <1>2, <2>3 DEF Settled
    <3>2. Settled <= Retention
      BY <1>0, <3>1, CollectorAssumption DEF Settled, CollectorAssumption
    <3>3. Witnessed /\ Witnessed'
      BY <2>1, <2>3, <3>2 DEF EvidenceInv, Witnessed
    <3>4. writable /\ hist = disk[History].entries /\ now >= 1
      BY <1>0, <2>1, <2>3 DEF StampInv, Loaded
    <3>5. IsHistory(hist) /\ Dated(hist)
      BY <3>4 DEF TypeOK, StampInv
    <3>6. History \in DOMAIN StagedFiles
          /\ DOMAIN StagedFiles[History].entries = DOMAIN disk[History].entries \cup O
      BY <1>0, <3>1, <3>4, <3>5, ObservedLines, NothingPurged, StagedHistory DEF Merged
    <3> HIDE DEF O
    <3>7. ASSUME NEW l \in Lists, Archive(l) \in DOMAIN StagedFiles,
                 NEW x \in StagedFiles[Archive(l)]
          PROVE  x \in DOMAIN StagedFiles[History].entries
      <4>1. x \in disk[Archive(l)] \cup O
        BY <1>0, <3>7, StagedArchive DEF EvidenceInv, O
      <4> QED BY <3>3, <3>6, <4>1 DEF Witnessed
    <3>8. StagedWitnessed'
      BY <1>2, <2>1, <3>6, <3>7 DEF StagedWitnessed
    <3> QED BY <3>3, <3>8
  <2> QED BY <2>2, <2>3 DEF EvidenceInv
<1> QED BY <1>1, <1>2 DEF Merge

\* One path of publish_staged: the history comes before the archives, so no
\* archive ever gets a line the history file does not have.
LEMMA PublishFileEvidence ==
  ASSUME HistoryFirst, TypeOK, PrefixPublished, HistoryInv, EvidenceInv, PublishFile
  PROVE  EvidenceInv'
<1> DEFINE p == PublishOrder[next]
<1>1. /\ next \in DOMAIN PublishOrder /\ p \in Published /\ p \in Files
      /\ next \in Nat
  BY CollectorAssumption DEF CollectorAssumption, PublishFile, TypeOK, Files
<1>2. /\ pc = "publish" /\ pc' = "publish" /\ staged' = staged /\ now' = now
  BY DEF PublishFile, runVars
<1>3. CASE ~MustWrite(p)
  <2>1. disk' = disk
    BY <1>3 DEF PublishFile
  <2> QED BY <1>2, <2>1, EvidenceQuiet
<1>4. CASE MustWrite(p)
  <2>1. p \in DOMAIN staged /\ ~dryRun
    BY <1>4 DEF MustWrite
  <2>2. /\ disk'[p] = staged[p]
        /\ \A f \in Files : f # p => disk'[f] = disk[f]
    BY <1>1, <1>4 DEF PublishFile, TypeOK
  <2>3. OutcomesObserved'
    BY <1>2 DEF OutcomesObserved
  <2>4. ASSUME disk'[History].readable, Settled' <= Retention
        PROVE  Witnessed' /\ StagedWitnessed'
    <3>2. History \in Files /\ \A l \in Lists : Archive(l) \in Files
      BY FileNames DEF Files, Published
    <3>5. disk[History].readable
      BY <1>2, <2>1, <2>2, <2>4, <3>2 DEF HistoryInv
    <3>1. Witnessed /\ StagedWitnessed
      BY <1>2, <2>4, <3>5 DEF EvidenceInv, Settled
    <3>3. CASE p = History
      <4>1. /\ History \in DOMAIN staged /\ disk'[History] = staged[History]
            /\ DOMAIN disk[History].entries \subseteq DOMAIN disk'[History].entries
        BY <1>2, <2>1, <2>2, <3>1, <3>3 DEF StagedWitnessed
      <4>2. \A l \in Lists : disk'[Archive(l)] = disk[Archive(l)]
        BY <2>2, <3>2, <3>3, FileNames
      <4> QED BY <1>2, <3>1, <4>1, <4>2 DEF Witnessed, StagedWitnessed
    <3>4. CASE p # History
      <4>1. disk'[History] = disk[History]
        BY <2>2, <3>2, <3>4
      <4>2. StagedWitnessed'
        BY <1>2, <3>1, <4>1 DEF StagedWitnessed
      <4>3. ASSUME NEW l \in Lists, p = Archive(l), History \in DOMAIN staged
            PROVE  disk[History] = staged[History]
        <5>1. PICK i \in DOMAIN PublishOrder : PublishOrder[i] = History
          BY CollectorAssumption DEF CollectorAssumption, Published
        <5>2. i < next
          BY <1>1, <4>3, <5>1 DEF HistoryFirst
        <5>3. i \in 1..(next - 1)
          BY <1>1, <5>2, CollectorAssumption DEF CollectorAssumption
        <5> QED BY <1>2, <2>1, <4>3, <5>1, <5>3 DEF PrefixPublished
      <4>4. ASSUME NEW l \in Lists
            PROVE  disk'[Archive(l)] \subseteq DOMAIN disk[History].entries
        <5>1. CASE p = Archive(l)
          BY <1>2, <2>1, <2>2, <3>1, <4>3, <5>1 DEF StagedWitnessed
        <5>2. CASE p # Archive(l)
          BY <2>2, <3>1, <3>2, <5>2 DEF Witnessed
        <5> QED BY <5>1, <5>2
      <4> QED BY <4>1, <4>2, <4>4 DEF Witnessed
    <3> QED BY <3>3, <3>4
  <2> QED BY <2>3, <2>4 DEF EvidenceInv
<1> QED BY <1>3, <1>4

\* A list task adds to the archive what it hands to the history.
LEMMA CollectEvidence ==
  ASSUME TypeOK, EvidenceInv, NEW j \in jobs, CollectOutcome(j)
  PROVE  EvidenceInv'
<1> DEFINE A == ArchiveOf(j.list, j.lines)
<1>1. j.list \in Lists
  BY DEF TypeOK, Jobs
<1>2. PICK C \in Candidates(A) : \E up \in SUBSET C :
        \E T \in TestedSets(j.list, up) :
          outcomes' = [outcomes EXCEPT ![j.list] = Append(@,
            [archive |-> A, observed |-> j.lines \cup C, tested |-> T])]
  BY DEF CollectOutcome
<1>3. PICK up \in SUBSET C : \E T \in TestedSets(j.list, up) :
        outcomes' = [outcomes EXCEPT ![j.list] = Append(@,
          [archive |-> A, observed |-> j.lines \cup C, tested |-> T])]
  BY <1>2
<1>4. PICK T \in TestedSets(j.list, up) :
        outcomes' = [outcomes EXCEPT ![j.list] = Append(@,
          [archive |-> A, observed |-> j.lines \cup C, tested |-> T])]
  BY <1>3
<1> DEFINE o == [archive |-> A, observed |-> j.lines \cup C, tested |-> T]
<1>5. o.archive \subseteq disk[Archive(j.list)] \cup o.observed
  BY DEF ArchiveOf
<1> HIDE DEF o
<1>6. pc = "collect" /\ pc' = "collect" /\ disk' = disk /\ now' = now
  BY DEF CollectOutcome
<1>7. ASSUME NEW l \in Lists, NEW i \in DOMAIN outcomes'[l]
      PROVE  outcomes'[l][i].archive
               \subseteq disk[Archive(l)] \cup outcomes'[l][i].observed
  <2>1. outcomes[l] \in Seq(Outcomes)
    BY DEF TypeOK
  <2>2. i \in DOMAIN outcomes[l] =>
          outcomes[l][i].archive \subseteq disk[Archive(l)] \cup outcomes[l][i].observed
    BY <1>6 DEF EvidenceInv, OutcomesObserved
  <2>3. CASE l # j.list
    <3>1. outcomes'[l] = outcomes[l]
      BY <1>1, <1>4, <2>3 DEF TypeOK
    <3> QED BY <1>7, <2>2, <3>1
  <2>4. CASE l = j.list
    <3>1. outcomes'[l] = Append(outcomes[l], o)
      BY <1>1, <1>4, <2>4 DEF TypeOK, o
    <3>2. \/ i \in DOMAIN outcomes[l] /\ outcomes'[l][i] = outcomes[l][i]
          \/ outcomes'[l][i] = o
      BY <1>7, <2>1, <3>1
    <3> QED BY <1>5, <2>2, <2>4, <3>2
  <2> QED BY <2>3, <2>4
<1>8. OutcomesObserved'
  BY <1>6, <1>7 DEF OutcomesObserved
<1> QED BY <1>6, <1>8 DEF EvidenceInv, Witnessed, StagedWitnessed, Settled

\* Every step keeps EvidenceInv.
LEMMA NextEvidence ==
  ASSUME HistoryFirst, TypeOK, PrefixPublished, HistoryInv, StampInv, EvidenceInv,
         [Next]_vars
  PROVE  EvidenceInv'
<1> USE DEF runVars, taskVars, pubVars
<1>1. CASE StartRun
  <2>1. /\ disk' = disk /\ outcomes' = outcomes /\ pc = "idle" /\ pc' = "fetch"
        /\ now' = now + 1 /\ now \in Nat
    BY <1>1 DEF StartRun, TypeOK
  <2>2. Settled' = Settled
    BY <2>1 DEF Settled
  <2> QED BY <2>1, <2>2 DEF EvidenceInv, OutcomesObserved, Witnessed, StagedWitnessed
<1>2. CASE \E l \in Lists : Fetch(l)
  BY <1>2, EvidenceQuiet DEF Fetch
<1>3. CASE BuildJobs
  BY <1>3, EvidenceQuiet DEF BuildJobs
<1>4. ASSUME NEW j \in jobs, CollectNothing(j) \/ CollectPanic(j) PROVE EvidenceInv'
  BY <1>4, EvidenceQuiet DEF CollectNothing, CollectPanic, EndRun
<1>5. ASSUME NEW j \in jobs, CollectOutcome(j) PROVE EvidenceInv'
  BY <1>5, CollectEvidence
<1>6. CASE Merge
  BY <1>6, MergeEvidence
<1>7. CASE PublishFile
  BY <1>7, PublishFileEvidence
<1>8. CASE PublishError \/ Upload \/ Kill
  BY <1>8, EvidenceQuiet DEF PublishError, Upload, Kill, EndRun
<1>9. CASE PublishEnd
  BY <1>9, EvidenceQuiet DEF PublishEnd, EndRun
<1>10. CASE Deadline
  <2>1. /\ pc' = "publish" /\ disk' = disk /\ now' = now
        /\ History \notin DOMAIN staged'
        /\ \A f \in DOMAIN staged' : staged'[f] = disk[f]
    BY <1>10, FileNames DEF Deadline, ExistingArchives
  <2>2. Settled' <= Retention => Settled <= Retention
    BY <2>1, SettledGrows, CollectorAssumption DEF CollectorAssumption
  <2>3. Witnessed => Witnessed' /\ StagedWitnessed'
    BY <2>1 DEF Witnessed, StagedWitnessed
  <2> QED BY <2>1, <2>2, <2>3 DEF EvidenceInv, OutcomesObserved
<1>11. CASE DamageHistory
  <2>1. /\ ~disk'[History].readable
        /\ \A l \in Lists : disk'[Archive(l)] = disk[Archive(l)]
        /\ UNCHANGED <<pc, outcomes>>
    BY <1>11, DiskHistory, FileNames DEF DamageHistory, TypeOK
  <2> QED BY <2>1 DEF EvidenceInv, OutcomesObserved
<1>12. CASE UNCHANGED vars
  BY <1>12 DEF vars, EvidenceInv, OutcomesObserved, Witnessed, StagedWitnessed, Settled
<1> QED BY <1>1, <1>2, <1>3, <1>4, <1>5, <1>6, <1>7, <1>8, <1>9, <1>10, <1>11, <1>12
        DEF Next

\* Init establishes it: nothing is archived.
LEMMA EvidenceInit == Init => EvidenceInv
<1> SUFFICES ASSUME Init PROVE EvidenceInv
  OBVIOUS
<1>1. \A f \in TextFiles : disk[f] = {}
  BY FileNames DEF Init, Files, Published
<1>2. pc = "idle" /\ \A l \in Lists : outcomes[l] = <<>>
  BY DEF Init
<1> QED BY <1>1, <1>2, FileNames
        DEF EvidenceInv, OutcomesObserved, Witnessed, StagedWitnessed

\* A merge calls an archived line fresh by the entry it already had.
LEMMA MergeFresh ==
  ASSUME NoPurgeBetween, TypeOK, StampInv, EvidenceInv, Merge, pc' = "publish",
         disk[History].readable, NEW l \in Lists, HasOutcome(l),
         NEW x \in staged'[Recent(l)] \cap disk[Archive(l)]
  PROVE  /\ x \in DOMAIN disk[History].entries
         /\ disk[History].entries[x].first > now - RecentHours
<1>1. /\ pc = "collect" /\ staged' = StagedFiles /\ hist = disk[History].entries
      /\ now \in Nat /\ now <= MaxRuns
  BY DEF Merge, EndRun, StampInv, Loaded, TypeOK
<1>2. Settled <= Retention
  BY <1>1, CollectorAssumption DEF Settled, NoPurgeBetween, CollectorAssumption
<1>3. x \in DOMAIN hist
  BY <1>1, <1>2 DEF EvidenceInv, Witnessed
<1>4. Recent(l) \in TextFiles /\ Recent(l)[1] = "recent" /\ Recent(l)[2] = l
  BY FileNames DEF Recent
<1>5. Recent(l) \in DOMAIN StagedText /\ StagedFiles[Recent(l)] = StagedText[Recent(l)]
  BY <1>4, FileNames DEF StagedFiles, StagedText, HistoryFile
<1>6. StagedText[Recent(l)] = RecentOf(l, LastOutcome(l).archive)
  BY <1>4, <1>5 DEF StagedText
<1>7. IsRecent(Merged(l), x)
  BY <1>1, <1>5, <1>6 DEF RecentOf
<1>8. Merged(l)[x].first = hist[x].first
  BY <1>3 DEF Merged, Observe
<1> QED BY <1>1, <1>3, <1>7, <1>8 DEF IsRecent

\* Of the archived lines, a merge marks as fresh only those that the history
\* file says were first seen inside the window, whatever cut earlier runs.
THEOREM FreshOnlyOnEvidenceHolds ==
  ASSUME HistoryFirst, NoPurgeBetween
  PROVE  Spec => FreshOnlyOnEvidence
<1>1. PublicationInv => TypeOK /\ PrefixPublished
  BY DEF PublicationInv
<1>2. TypeOK /\ PrefixPublished /\ HistoryInv /\ StampInv /\ EvidenceInv /\ [Next]_vars
        => EvidenceInv'
  BY NextEvidence
<1>3. TypeOK /\ StampInv /\ EvidenceInv /\ [Next]_vars
        => [Merging /\ disk[History].readable =>
              \A l \in Lists : HasOutcome(l) =>
                \A x \in staged'[Recent(l)] \cap disk[Archive(l)] :
                  /\ x \in DOMAIN disk[History].entries
                  /\ disk[History].entries[x].first > now - RecentHours]_vars
  <2> SUFFICES ASSUME TypeOK, StampInv, EvidenceInv, Next, Merging,
                      disk[History].readable
               PROVE  Merge
    BY MergeFresh DEF Merging
  <2> QED BY DEF Next, Merging, StartRun, Fetch, BuildJobs, CollectNothing,
                 CollectOutcome, CollectPanic, PublishFile, PublishError, PublishEnd,
                 Upload, Deadline, Kill, DamageHistory, EndRun
<1> QED BY <1>1, <1>2, <1>3, EvidenceInit, PublicationInvariant, HistoryInvariant,
           StampInvariant, PTL DEF Spec, FreshOnlyOnEvidence

-----------------------------------------------------------------------------
(* What depends on the order in which the list tasks end.                  *)

\* A list that is not fronted has one task at most, or what came of it.
OneTask(l) ==
  /\ \A i, j \in jobs : i.list = l /\ j.list = l => i = j
  /\ Len(outcomes[l]) <= 1
  /\ outcomes[l] # <<>> => \A j \in jobs : j.list # l

TasksInv ==
  /\ \A a, b \in acquired : a.list = b.list => a = b
  /\ pc \in {"idle", "fetch"} => jobs = {} /\ \A l \in Lists : outcomes[l] = <<>>
  /\ \A l \in Lists \ Fronted : OneTask(l)

\* A run that ends, or is cut, drops its tasks.
LEMMA NoTasks ==
  ASSUME acquired' = {}, jobs' = {}, outcomes' = [l \in Lists |-> <<>>]
  PROVE  TasksInv'
BY DEF TasksInv, OneTask

\* Tasks end and are not made.
LEMMA FewerTasks ==
  ASSUME TasksInv, jobs' \subseteq jobs, acquired' = acquired, outcomes' = outcomes,
         pc' \in {"idle", "fetch"} => pc' = pc
  PROVE  TasksInv'
BY DEF TasksInv, OneTask

LEMMA NextTasks ==
  ASSUME TypeOK, TasksInv, [Next]_vars
  PROVE  TasksInv'
<1> USE DEF runVars, taskVars, pubVars
<1>1. CASE StartRun
  <2>1. UNCHANGED <<acquired, jobs, outcomes>> /\ pc = "idle"
    BY <1>1 DEF StartRun
  <2> QED BY <2>1 DEF TasksInv, OneTask
<1>2. ASSUME NEW l \in Lists, Fetch(l) PROVE TasksInv'
  <2>1. PICK a \in [list : {l}, lines : SUBSET Lines, lost : BOOLEAN] :
          acquired' = acquired \cup {a}
    <3>1. LinesOf[l] \subseteq Lines
      BY CollectorAssumption DEF CollectorAssumption
    <3> QED BY <1>2, <3>1 DEF Fetch
  <2>2. \A b \in acquired : b.list # l
    BY <1>2 DEF Fetch
  <2>3. \A b, c \in acquired' : b.list = c.list => b = c
    BY <2>1, <2>2 DEF TasksInv
  <2>4. UNCHANGED <<pc, jobs, outcomes>>
    BY <1>2 DEF Fetch
  <2> QED BY <2>3, <2>4 DEF TasksInv, OneTask
<1>3. CASE BuildJobs
  <2>1. /\ jobs' = UNION {JobsOf(a) : a \in acquired} /\ acquired' = {}
        /\ outcomes' = outcomes /\ pc = "fetch" /\ pc' = "collect"
    BY <1>3 DEF BuildJobs
  <2>2. ASSUME NEW l \in Lists \ Fronted, NEW j \in jobs', j.list = l
        PROVE  \E a \in acquired : a.list = l /\ j = Job(l, a.lines, "sources")
    <3>1. PICK a \in acquired : j \in JobsOf(a)
      BY <2>1, <2>2
    <3>2. a.list = l
      BY <2>2, <3>1 DEF JobsOf, Job
    <3> QED BY <2>2, <3>1, <3>2 DEF JobsOf, Job
  <2>3. ASSUME NEW l \in Lists \ Fronted, NEW i \in jobs', NEW j \in jobs',
               i.list = l, j.list = l
        PROVE  i = j
    BY <2>2, <2>3 DEF TasksInv
  <2>4. \A l \in Lists : outcomes'[l] = <<>>
    BY <2>1 DEF TasksInv
  <2>5. ASSUME NEW l \in Lists \ Fronted PROVE OneTask(l)'
    BY <2>3, <2>4 DEF OneTask
  <2> QED BY <2>1, <2>5 DEF TasksInv
<1>4. ASSUME NEW j \in jobs, CollectNothing(j) PROVE TasksInv'
  BY <1>4, FewerTasks DEF CollectNothing
<1>5. ASSUME NEW j \in jobs, CollectOutcome(j) PROVE TasksInv'
  <2>1. PICK o : outcomes' = [outcomes EXCEPT ![j.list] = Append(@, o)]
    BY <1>5 DEF CollectOutcome
  <2>2. /\ jobs' = jobs \ {j} /\ acquired' = acquired
        /\ pc = "collect" /\ pc' = "collect"
    BY <1>5 DEF CollectOutcome
  <2>3. ASSUME NEW l \in Lists \ Fronted PROVE OneTask(l)'
    <3>1. OneTask(l) /\ outcomes[l] \in Seq(Outcomes)
      BY DEF TasksInv, TypeOK
    <3>2. CASE l # j.list
      <4>1. outcomes'[l] = outcomes[l]
        BY <2>1, <3>2 DEF TypeOK
      <4> QED BY <2>2, <3>1, <4>1 DEF OneTask
    <3>3. CASE l = j.list
      <4>1. outcomes[l] = <<>> /\ \A i \in jobs' : i.list # l
        BY <2>2, <3>1, <3>3 DEF OneTask
      <4>2. outcomes'[l] = <<o>>
        BY <2>1, <3>3, <4>1 DEF TypeOK
      <4> QED BY <4>1, <4>2 DEF OneTask
    <3> QED BY <3>2, <3>3
  <2> QED BY <2>2, <2>3 DEF TasksInv
<1>6. ASSUME NEW j \in jobs, CollectPanic(j) PROVE TasksInv'
  BY <1>6, NoTasks DEF CollectPanic, EndRun
<1>7. CASE Merge
  BY <1>7, NoTasks, FewerTasks DEF Merge, EndRun
<1>8. CASE PublishFile
  BY <1>8, FewerTasks DEF PublishFile
<1>9. CASE PublishError \/ Upload \/ Kill
  BY <1>9, NoTasks DEF PublishError, Upload, Kill, EndRun
<1>10. CASE PublishEnd
  BY <1>10, NoTasks, FewerTasks DEF PublishEnd, EndRun
<1>11. CASE Deadline
  BY <1>11, NoTasks DEF Deadline
<1>12. CASE DamageHistory
  BY <1>12, FewerTasks DEF DamageHistory
<1>13. CASE UNCHANGED vars
  BY <1>13, FewerTasks DEF vars
<1> QED BY <1>1, <1>2, <1>3, <1>4, <1>5, <1>6, <1>7, <1>8, <1>9, <1>10, <1>11,
           <1>12, <1>13 DEF Next

\* Only a fronted list, which may have a second task for its built-in lines,
\* can be published differently depending on which task ends last: every
\* other list satisfies what DeterministicPublication asks of all.
THEOREM OnlyFrontedVary ==
  Spec => [](\A l \in Lists \ Fronted : \A i, j \in DOMAIN outcomes[l] :
               /\ outcomes[l][i].archive = outcomes[l][j].archive
               /\ outcomes[l][i].tested = outcomes[l][j].tested)
<1>1. Init => TasksInv
  BY DEF Init, TasksInv, OneTask
<1>2. TypeOK /\ TasksInv
        => \A l \in Lists \ Fronted : \A i, j \in DOMAIN outcomes[l] :
             /\ outcomes[l][i].archive = outcomes[l][j].archive
             /\ outcomes[l][i].tested = outcomes[l][j].tested
  <2> SUFFICES ASSUME TypeOK, TasksInv, NEW l \in Lists \ Fronted,
                      NEW i \in DOMAIN outcomes[l], NEW j \in DOMAIN outcomes[l]
               PROVE  i = j
    OBVIOUS
  <2>1. outcomes[l] \in Seq(Outcomes) /\ Len(outcomes[l]) <= 1
    BY DEF TypeOK, TasksInv, OneTask
  <2> QED BY <2>1
<1> QED BY <1>1, <1>2, NextTasks, TypeCorrect, PTL DEF Spec
=============================================================================

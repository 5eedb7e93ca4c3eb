--------------------------- MODULE ProbeEngine_proofs ---------------------------
(***************************************************************************)
(* For every number of lists, candidates, workers and fronts: TypeOK,      *)
(* BlockedIffFailing, FailuresCoverHits, ResultsCounted and StormBounded.  *)
(***************************************************************************)
EXTENDS ProbeEngine, FiniteSetTheorems, FunctionTheorems, TLAPS

-----------------------------------------------------------------------------
(* Types.  An unfinished probe has an attempt left.                        *)

PcStates == Running \cup Ended \cup {"queued"}

AttemptsLeft ==
  \A p \in Probes : pc[p] \in Running \cup {"queued"} => attempt[p] < MaxRetries

TypeInv == TypeOK /\ AttemptsLeft

LEMMA ProbesFinite == IsFiniteSet(Probes)
<1>1. IsFiniteSet(Lists) /\ IsFiniteSet(1..Longest)
  BY FS_Interval, ProbeAssumption DEF ProbeAssumption
<1>2. IsFiniteSet(Lists \X (1..Longest))
  BY <1>1, FS_Product
<1> QED BY <1>2, FS_Subset DEF Probes

LEMMA ProbeShape ==
  \A p \in Probes : p[1] \in Lists /\ Front(p) \in Fronts \cup {Direct}
BY ProbeAssumption DEF Probes, ProbeAssumption

LEMMA PermitsType ==
  ASSUME NEW g \in Nat, NEW b \in Nat
  PROVE  PermitsFor(g, b) \in 1..MaxWorkers
BY ProbeAssumption DEF PermitsFor, AtLeast, ProbeAssumption

LEMMA FailAttemptType ==
  ASSUME TypeInv, NEW p \in Probes, pc[p] \in Running, FailAttempt(p)
  PROVE  /\ pc' \in [Probes -> PcStates] /\ attempt' \in [Probes -> 0..MaxRetries]
         /\ AttemptsLeft'
<1>1. attempt[p] \in 0..MaxRetries /\ attempt[p] < MaxRetries
  BY DEF TypeInv, TypeOK, AttemptsLeft
<1>2. attempt[p] + 1 \in 0..MaxRetries
  BY <1>1, ProbeAssumption DEF ProbeAssumption
<1>3. attempt' = [attempt EXCEPT ![p] = attempt[p] + 1]
  BY DEF FailAttempt
<1>4. attempt' \in [Probes -> 0..MaxRetries]
  BY <1>2, <1>3 DEF TypeInv, TypeOK
<1>5. pc' \in [Probes -> PcStates]
  BY DEF FailAttempt, AttemptLeft, TypeInv, TypeOK, PcStates, Running, Ended
<1>6. AttemptsLeft'
  BY <1>3 DEF FailAttempt, AttemptLeft, TypeInv, TypeOK, AttemptsLeft, Running, Ended
<1> QED BY <1>4, <1>5, <1>6

LEMMA RecordType ==
  ASSUME TypeOK, NEW f \in Fronts, NEW ok \in BOOLEAN, Record(f, ok)
  PROVE  /\ fails' \in [Fronts -> Nat] /\ openUntil' \in [Fronts -> Nat]
         /\ hits' \in [Fronts -> Nat]
<1>1. CASE ok
  BY <1>1 DEF Record, TypeOK
<1>2. CASE ~ok
  <2>1. fails[f] + 1 \in Nat /\ now + Cooldown \in Nat /\ openUntil[f] \in Nat
    BY ProbeAssumption DEF TypeOK, ProbeAssumption
  <2> DEFINE u == IF fails[f] + 1 >= Threshold THEN now + Cooldown ELSE openUntil[f]
  <2>2. u \in Nat
    BY <2>1
  <2>3. openUntil' = [openUntil EXCEPT ![f] = u] /\ hits' = hits
        /\ fails' = [fails EXCEPT ![f] = fails[f] + 1]
    BY <1>2 DEF Record, Counted
  <2> HIDE DEF u
  <2> QED BY <2>1, <2>2, <2>3 DEF TypeOK
<1> QED BY <1>1, <1>2

LEMMA NextType == TypeInv /\ [Next]_vars => TypeInv'
<1> SUFFICES ASSUME TypeInv, [Next]_vars PROVE TypeInv'
  OBVIOUS
<1> USE ProbeAssumption DEF ProbeAssumption
<1>0. TypeOK /\ AttemptsLeft
  BY DEF TypeInv
<1>1. CASE UNCHANGED vars
  BY <1>0, <1>1 DEF TypeInv, TypeOK, AttemptsLeft, vars, listVars, probeVars, frontVars
<1>2. CASE Tick
  BY <1>0, <1>2 DEF Tick, TypeInv, TypeOK, AttemptsLeft, listVars, probeVars, frontVars
<1>3. ASSUME NEW l \in Lists, StartChunk(l) PROVE TypeInv'
  <2>1. PermitsFor(good[TransportOf[l]], bad[TransportOf[l]]) \in 1..MaxWorkers
    BY <1>0, PermitsType DEF TypeOK
  <2>2. ChunkEnd(l, PermitsFor(good[TransportOf[l]], bad[TransportOf[l]])) \in Nat
    BY <1>0, <2>1 DEF ChunkEnd, TypeOK
  <2>3. started' \in [Lists -> Nat] /\ permits' \in [Lists -> 0..MaxWorkers]
    BY <1>0, <1>3, <2>1, <2>2 DEF StartChunk, TypeOK
  <2> QED BY <1>0, <1>3, <2>3
          DEF StartChunk, TypeInv, TypeOK, AttemptsLeft, probeVars, frontVars
<1>4. ASSUME NEW l \in Lists, EndChunk(l) PROVE TypeInv'
  <2>1. /\ Cardinality({p \in Chunk(l) : pc[p] = "reachable"}) \in Nat
        /\ Cardinality({p \in Chunk(l) : pc[p] = "unreachable"}) \in Nat
    BY ProbesFinite, FS_Subset, FS_CardinalityType DEF Chunk
  <2>2. good' \in [Transports -> Nat] /\ bad' \in [Transports -> Nat]
    BY <1>0, <1>4, <2>1 DEF EndChunk, TypeOK
  <2>3. recorded' \in [Lists -> Nat]
    BY <1>0, <1>4 DEF EndChunk, TypeOK
  <2> QED BY <1>0, <1>4, <2>2, <2>3
          DEF EndChunk, TypeInv, TypeOK, AttemptsLeft, probeVars, frontVars
<1>5. ASSUME NEW p \in Probes, Begin(p) \/ Connect(p) \/ Retry(p) PROVE TypeInv'
  <2>1. /\ pc' \in [Probes -> PcStates] /\ attempt' = attempt /\ AttemptsLeft'
    BY <1>0, <1>5 DEF Begin, Connect, Retry, TypeOK, PcStates, AttemptsLeft, Running, Ended
  <2> QED BY <1>0, <1>5, <2>1
          DEF Begin, Connect, Retry, TypeInv, TypeOK, PcStates, listVars, frontVars
<1>6. ASSUME NEW p \in Probes, Ask(p) PROVE TypeInv'
  <2>1. Front(p) \in Fronts /\ pc[p] = "trying"
    BY <1>6, ProbeShape DEF Ask
  <2>2. /\ pc' \in [Probes -> PcStates] /\ attempt' \in [Probes -> 0..MaxRetries]
        /\ AttemptsLeft'
    <3>1. CASE FailAttempt(p)
      BY <2>1, <3>1, FailAttemptType DEF Running
    <3>2. CASE pc' = [pc EXCEPT ![p] = "inflight"] /\ UNCHANGED attempt
      BY <1>0, <2>1, <3>2 DEF TypeOK, PcStates, AttemptsLeft, Running, Ended
    <3> QED BY <1>6, <3>1, <3>2 DEF Ask, Refused, LetThrough
  <2>3. /\ fails' \in [Fronts -> Nat] /\ openUntil' \in [Fronts -> Nat]
        /\ hits' \in [Fronts -> Nat]
    <3>1. CASE UNCHANGED frontVars
      BY <1>0, <3>1 DEF TypeOK, frontVars
    <3>2. CASE LetThrough(p)
      <4>1. Sent(Front(p)) \in Nat /\ FailsOnAllow(Front(p)) \in Nat
        BY <1>0, <2>1 DEF Sent, FailsOnAllow, TypeOK
      <4>2. hits' \in [Fronts -> Nat]
        BY <1>0, <3>2, <4>1 DEF LetThrough, TypeOK
      <4>3. fails' \in [Fronts -> Nat] /\ openUntil' \in [Fronts -> Nat]
        <5>1. CASE UNCHANGED <<fails, openUntil>>
          BY <1>0, <5>1 DEF TypeOK
        <5>2. CASE /\ fails' = [fails EXCEPT ![Front(p)] = FailsOnAllow(Front(p))]
                   /\ openUntil' = [openUntil EXCEPT ![Front(p)] = 0]
          BY <1>0, <4>1, <5>2 DEF TypeOK
        <5> QED BY <3>2, <5>1, <5>2 DEF LetThrough
      <4> QED BY <4>2, <4>3
    <3> QED BY <1>6, <3>1, <3>2 DEF Ask, Refused
  <2> QED BY <1>0, <1>6, <2>2, <2>3 DEF Ask, TypeInv, TypeOK, PcStates, listVars
<1>7. ASSUME NEW p \in Probes, NEW ok \in BOOLEAN, Answer(p, ok) PROVE TypeInv'
  <2>1. /\ pc' \in [Probes -> PcStates] /\ attempt' \in [Probes -> 0..MaxRetries]
        /\ AttemptsLeft'
    <3>1. CASE FailAttempt(p)
      BY <1>7, <3>1, FailAttemptType DEF Answer, Running
    <3>2. CASE pc' = [pc EXCEPT ![p] = "reachable"] /\ UNCHANGED attempt
      BY <1>0, <3>2 DEF TypeOK, PcStates, AttemptsLeft, Running, Ended
    <3> QED BY <1>7, <3>1, <3>2 DEF Answer
  <2>2. /\ fails' \in [Fronts -> Nat] /\ openUntil' \in [Fronts -> Nat]
        /\ hits' \in [Fronts -> Nat]
    <3>1. CASE UNCHANGED frontVars
      BY <1>0, <3>1 DEF TypeOK, frontVars
    <3>2. CASE Front(p) \in Fronts /\ Record(Front(p), ok)
      BY <1>0, <3>2, RecordType
    <3> QED BY <1>7, <3>1, <3>2, ProbeShape DEF Answer
  <2> QED BY <1>0, <1>7, <2>1, <2>2 DEF Answer, TypeInv, TypeOK, PcStates, listVars
<1> QED BY <1>1, <1>2, <1>3, <1>4, <1>5, <1>6, <1>7 DEF Next, ListStep, ProbeStep

LEMMA TypeInvariant == Spec => []TypeInv
<1>1. Init => TypeInv
  BY ProbeAssumption DEF Init, TypeInv, TypeOK, AttemptsLeft, Running, Ended,
                         ProbeAssumption
<1> QED BY <1>1, NextType, PTL DEF Spec

\* Every variable keeps its type.
THEOREM TypeCorrect == Spec => []TypeOK
<1>1. TypeInv => TypeOK
  BY DEF TypeInv
<1> QED BY <1>1, TypeInvariant, PTL

-----------------------------------------------------------------------------
(* The fronts.                                                             *)

FrontInv == BlockedIffFailing /\ FailuresCoverHits

LEMMA ContactingCount ==
  ASSUME NEW f
  PROVE  IsFiniteSet(Contacting(f)) /\ Cardinality(Contacting(f)) \in Nat
BY ProbesFinite, FS_Subset, FS_CardinalityType DEF Contacting

\* A step that neither sends nor answers changes nothing for the fronts.
LEMMA NoContact ==
  ASSUME FrontInv, UNCHANGED frontVars, \A f \in Fronts : Contacting(f)' = Contacting(f)
  PROVE  FrontInv'
BY DEF FrontInv, BlockedIffFailing, FailuresCoverHits, frontVars

LEMMA AskFront ==
  ASSUME TypeOK, FrontInv, NEW p \in Probes, Ask(p)
  PROVE  FrontInv'
<1> DEFINE f == Front(p)
<1> USE ProbeAssumption DEF ProbeAssumption
<1>1. f \in Fronts /\ pc[p] = "trying" /\ pc \in [Probes -> PcStates]
  BY ProbeShape DEF Ask, TypeOK, PcStates
<1>2. CASE FailAttempt(p) /\ UNCHANGED frontVars
  <2>1. \A g \in Fronts : Contacting(g)' = Contacting(g)
    BY <1>1, <1>2 DEF FailAttempt, AttemptLeft, Contacting
  <2> QED BY <1>2, <2>1, NoContact
<1>3. CASE LetThrough(p)
  <2>1. /\ Contacting(f)' = Contacting(f) \cup {p} /\ p \notin Contacting(f)
        /\ \A g \in Fronts : g # f => Contacting(g)' = Contacting(g)
    BY <1>1, <1>3 DEF LetThrough, Contacting
  <2>2. Cardinality(Contacting(f)') = Cardinality(Contacting(f)) + 1
    BY <2>1, ContactingCount, FS_AddElement
  <2>3. \A g \in Fronts : g # f => /\ fails'[g] = fails[g] /\ hits'[g] = hits[g]
                                   /\ openUntil'[g] = openUntil[g]
    <3>1. CASE UNCHANGED <<fails, openUntil>> /\ hits' = [hits EXCEPT ![f] = Sent(f)]
      BY <3>1 DEF TypeOK
    <3>2. CASE /\ hits' = [hits EXCEPT ![f] = Sent(f)] /\ fails' = [fails EXCEPT ![f] = 0]
               /\ openUntil' = [openUntil EXCEPT ![f] = 0]
      BY <3>2 DEF TypeOK
    <3> QED BY <1>3, <3>1, <3>2 DEF LetThrough, FailsOnAllow
  <2>4. \/ /\ openUntil[f] = 0 /\ openUntil'[f] = 0
           /\ hits'[f] = hits[f] + 1 /\ fails'[f] = fails[f]
        \/ openUntil'[f] = 0 /\ hits'[f] = 1 /\ fails'[f] = 0
    <3>0. /\ hits[f] \in Nat /\ openUntil[f] \in Nat /\ now \in Nat
          /\ ~(openUntil[f] > now) /\ hits'[f] = Sent(f)
      BY <1>1, <1>3 DEF LetThrough, CircuitOpen, TypeOK
    <3>1. CASE openUntil[f] = 0 /\ UNCHANGED <<fails, openUntil>>
      BY <3>0, <3>1 DEF Sent
    <3>2. CASE /\ openUntil[f] # 0 /\ fails' = [fails EXCEPT ![f] = 0]
               /\ openUntil' = [openUntil EXCEPT ![f] = 0]
      BY <1>1, <3>0, <3>2 DEF Sent, TypeOK
    <3> QED BY <1>3, <3>1, <3>2 DEF LetThrough, FailsOnAllow
  <2>5. BlockedIffFailing'
    BY <1>1, <2>3, <2>4 DEF FrontInv, BlockedIffFailing
  <2>6. hits'[f] <= fails'[f] + Cardinality(Contacting(f)')
    <3>1. hits[f] <= fails[f] + Cardinality(Contacting(f))
      BY <1>1 DEF FrontInv, FailuresCoverHits
    <3>2. hits[f] \in Nat /\ fails[f] \in Nat /\ Cardinality(Contacting(f)) \in Nat
      BY <1>1, ContactingCount DEF TypeOK
    <3> QED BY <2>2, <2>4, <3>1, <3>2
  <2>7. \A g \in Fronts : hits'[g] <= fails'[g] + Cardinality(Contacting(g)')
    BY <2>1, <2>3, <2>6 DEF FrontInv, FailuresCoverHits
  <2> QED BY <2>5, <2>7 DEF FrontInv, FailuresCoverHits
<1> QED BY <1>2, <1>3 DEF Ask, Refused

LEMMA AnswerFront ==
  ASSUME TypeOK, FrontInv, NEW p \in Probes, NEW ok \in BOOLEAN, Answer(p, ok)
  PROVE  FrontInv'
<1> DEFINE f == Front(p)
<1> USE ProbeAssumption DEF ProbeAssumption
<1>1. /\ pc[p] = "inflight" /\ pc \in [Probes -> PcStates]
      /\ \A g \in Fronts : g # f => Contacting(g)' = Contacting(g)
      /\ Contacting(f)' = Contacting(f) \ {p} /\ p \in Contacting(f)
  BY DEF Answer, FailAttempt, Contacting, TypeOK, PcStates
<1>2. CASE f = Direct /\ UNCHANGED frontVars
  BY <1>1, <1>2, NoContact
<1>3. CASE f \in Fronts /\ Record(f, ok)
  <2>1. \A g \in Fronts : g # f => /\ fails'[g] = fails[g] /\ hits'[g] = hits[g]
                                   /\ openUntil'[g] = openUntil[g]
    BY <1>3 DEF Record, TypeOK
  <2>2. \/ fails'[f] = 0 /\ openUntil'[f] = 0 /\ hits'[f] = 0
        \/ /\ fails'[f] = fails[f] + 1 /\ hits'[f] = hits[f]
           /\ openUntil'[f] = IF fails[f] + 1 >= Threshold THEN now + Cooldown
                                                           ELSE openUntil[f]
    BY <1>3 DEF Record, Counted, TypeOK
  <2>3. /\ fails[f] \in Nat /\ hits[f] \in Nat /\ openUntil[f] \in Nat /\ now \in Nat
        /\ openUntil[f] # 0 <=> fails[f] >= Threshold
        /\ hits[f] <= fails[f] + Cardinality(Contacting(f))
    BY <1>3 DEF TypeOK, FrontInv, BlockedIffFailing, FailuresCoverHits
  <2>4. openUntil'[f] # 0 <=> fails'[f] >= Threshold
    BY <2>2, <2>3
  <2>5. BlockedIffFailing'
    BY <2>1, <2>4 DEF FrontInv, BlockedIffFailing
  <2>6. /\ Cardinality(Contacting(f)') = Cardinality(Contacting(f)) - 1
        /\ Cardinality(Contacting(f)) \in Nat /\ Cardinality(Contacting(f)') \in Nat
    <3>1. Cardinality(Contacting(f) \ {p}) = Cardinality(Contacting(f)) - 1
      BY <1>1, ContactingCount, FS_RemoveElement
    <3>2. IsFiniteSet(Contacting(f) \ {p})
      BY ContactingCount, FS_RemoveElement
    <3> QED BY <1>1, <3>1, <3>2, ContactingCount, FS_CardinalityType
  <2>7. hits'[f] <= fails'[f] + Cardinality(Contacting(f)')
    BY <2>2, <2>3, <2>6
  <2>8. \A g \in Fronts : hits'[g] <= fails'[g] + Cardinality(Contacting(g)')
    BY <1>1, <2>1, <2>7 DEF FrontInv, FailuresCoverHits
  <2> QED BY <2>5, <2>8 DEF FrontInv, FailuresCoverHits
<1> QED BY <1>2, <1>3, ProbeShape DEF Answer

LEMMA NextFront == TypeOK /\ FrontInv /\ [Next]_vars => FrontInv'
<1> SUFFICES ASSUME TypeOK, FrontInv, [Next]_vars PROVE FrontInv'
  OBVIOUS
<1>0. pc \in [Probes -> PcStates] /\ Direct \notin Fronts
  BY ProbeAssumption DEF TypeOK, PcStates, ProbeAssumption
<1>1. CASE UNCHANGED <<pc, frontVars>>
  BY <1>1, NoContact DEF Contacting
<1>2. ASSUME NEW p \in Probes, Begin(p) \/ Connect(p) \/ Retry(p) PROVE FrontInv'
  <2>1. \A f \in Fronts : Contacting(f)' = Contacting(f)
    BY <1>0, <1>2 DEF Begin, Connect, Retry, Contacting
  <2> QED BY <1>2, <2>1, NoContact DEF Begin, Connect, Retry
<1>3. ASSUME NEW p \in Probes, Ask(p) PROVE FrontInv'
  BY <1>3, AskFront
<1>4. ASSUME NEW p \in Probes, NEW ok \in BOOLEAN, Answer(p, ok) PROVE FrontInv'
  BY <1>4, AnswerFront
<1> QED BY <1>1, <1>2, <1>3, <1>4
        DEF Next, ListStep, ProbeStep, StartChunk, EndChunk, Tick, vars, probeVars

LEMMA FrontInvariant == Spec => []FrontInv
<1>1. Init => FrontInv
  <2> SUFFICES ASSUME Init PROVE FrontInv
    OBVIOUS
  <2>1. \A f \in Fronts : Contacting(f) = {}
    BY DEF Init, Contacting
  <2>2. BlockedIffFailing
    BY ProbeAssumption DEF Init, BlockedIffFailing, ProbeAssumption
  <2>3. FailuresCoverHits
    <3>1. \A f \in Fronts : Cardinality(Contacting(f)) = 0
      BY <2>1, FS_EmptySet
    <3>2. \A f \in Fronts : hits[f] = 0 /\ fails[f] = 0
      BY DEF Init
    <3> QED BY <3>1, <3>2 DEF FailuresCoverHits
  <2> QED BY <2>2, <2>3 DEF FrontInv
<1> QED BY <1>1, NextFront, TypeCorrect, PTL DEF Spec

\* A front is blocked exactly when it failed Threshold times in a row.
THEOREM BlockedIffFailingHolds == Spec => []BlockedIffFailing
<1>1. FrontInv => BlockedIffFailing
  BY DEF FrontInv
<1> QED BY <1>1, FrontInvariant, PTL

\* Every request sent to a front since its last answer or cooldown is a known
\* failure of it, or under way.
THEOREM FailuresCoverHitsHolds == Spec => []FailuresCoverHits
<1>1. FrontInv => FailuresCoverHits
  BY DEF FrontInv
<1> QED BY <1>1, FrontInvariant, PTL

-----------------------------------------------------------------------------
(* The chunks.                                                             *)

\* A list's probes are queued beyond the chunks begun, and have ended within
\* those recorded, so what runs is in the current chunk.
ChunksInOrder ==
  /\ \A l \in Lists : recorded[l] <= started[l]
  /\ \A p \in Probes : /\ p[2] > started[p[1]] => pc[p] = "queued"
                       /\ p[2] <= recorded[p[1]] => pc[p] \in Ended

ChunkInv == ChunksInOrder /\ ResultsCounted

\* The probes of transport t in the recorded chunks.
Done(t) == {p \in Probes : TransportOf[p[1]] = t /\ p[2] <= recorded[p[1]]}
DoneWith(t, s) == {p \in Done(t) : pc[p] = s}

LEMMA ResultsDone ==
  ResultsCounted <=> /\ \A l \in Lists : Cardinality(Holders(l)) <= permits[l]
                     /\ \A t \in Transports :
                          /\ good[t] = Cardinality(DoneWith(t, "reachable"))
                          /\ bad[t] = Cardinality(DoneWith(t, "unreachable"))
BY DEF ResultsCounted, Done, DoneWith

\* Probes come as pairs of a list and a position.
LEMMA ProbePosition ==
  \A p \in Probes : p[1] \in Lists /\ p[2] \in Nat
BY ProbeAssumption DEF Probes, ProbeAssumption

LEMMA HoldersFinite ==
  ASSUME NEW l
  PROVE  IsFiniteSet(Holders(l)) /\ Cardinality(Holders(l)) \in Nat
<1>1. Holders(l) \in SUBSET Probes
  BY DEF Holders, Chunk
<1> QED BY <1>1, ProbesFinite, FS_Subset, FS_CardinalityType

\* A step that changes nothing about the chunks and no probe's place.
LEMMA ChunkQuiet ==
  ASSUME ChunkInv, UNCHANGED <<listVars, pc, good, bad>>
  PROVE  ChunkInv'
BY DEF ChunkInv, ChunksInOrder, ResultsCounted, Holders, Chunk, listVars

\* A probe with a permit goes on, or ends.
LEMMA RunningStep ==
  ASSUME TypeOK, ChunkInv, NEW p \in Probes, pc[p] \in Running,
         NEW v \in Running \cup Ended, pc' = [pc EXCEPT ![p] = v],
         UNCHANGED <<listVars, good, bad>>
  PROVE  ChunkInv'
<1>0. /\ pc \in [Probes -> PcStates] /\ started \in [Lists -> Nat]
      /\ recorded \in [Lists -> Nat] /\ permits \in [Lists -> 0..MaxWorkers]
  BY DEF TypeOK, PcStates
<1>1. p[1] \in Lists /\ p[2] \in Nat /\ pc[p] # "queued" /\ pc[p] \notin Ended
  BY ProbePosition DEF Running, Ended
<1>2. p[2] <= started[p[1]] /\ p[2] > recorded[p[1]]
  BY <1>0, <1>1 DEF ChunkInv, ChunksInOrder
<1>3. ChunksInOrder'
  BY <1>0, <1>1, <1>2, ProbePosition DEF ChunkInv, ChunksInOrder, listVars
<1>4. ASSUME NEW l \in Lists PROVE Cardinality(Holders(l))' <= permits'[l]
  <2>1. Holders(l)' \subseteq Holders(l)
    BY <1>0 DEF Holders, Chunk, listVars
  <2>2. Cardinality(Holders(l)') <= Cardinality(Holders(l))
        /\ Cardinality(Holders(l)') \in Nat
    BY <2>1, HoldersFinite, FS_Subset, FS_CardinalityType
  <2>3. Cardinality(Holders(l)) <= permits[l]
    BY DEF ChunkInv, ResultsCounted
  <2> QED BY <1>0, <2>2, <2>3, HoldersFinite DEF listVars
<1>5. ASSUME NEW t \in Transports, NEW s PROVE DoneWith(t, s)' = DoneWith(t, s)
  BY <1>0, <1>1, <1>2 DEF DoneWith, Done, listVars
<1>6. \A t \in Transports : /\ good'[t] = Cardinality(DoneWith(t, "reachable")')
                            /\ bad'[t] = Cardinality(DoneWith(t, "unreachable")')
  BY <1>5, ResultsDone DEF ChunkInv
<1>7. ResultsCounted'
  BY <1>4, <1>6 DEF ResultsCounted, DoneWith, Done
<1> QED BY <1>3, <1>7 DEF ChunkInv

\* A probe of the chunk gets a permit, or ends without one.
LEMMA BeginChunk ==
  ASSUME TypeOK, ChunkInv, NEW p \in Probes, Begin(p)
  PROVE  ChunkInv'
<1>0. /\ pc \in [Probes -> PcStates] /\ started \in [Lists -> Nat]
      /\ recorded \in [Lists -> Nat] /\ permits \in [Lists -> 0..MaxWorkers]
  BY DEF TypeOK, PcStates
<1>1. /\ p[1] \in Lists /\ p[2] \in Nat /\ pc[p] = "queued"
      /\ p[2] <= started[p[1]] /\ p[2] > recorded[p[1]]
      /\ UNCHANGED <<started, recorded, permits, good, bad>>
      /\ \A q \in Probes : q # p => pc'[q] = pc[q]
      /\ pc'[p] \in {"trying", "unreachable"}
  BY <1>0, ProbePosition DEF Begin, Chunk, listVars
<1>2. ChunksInOrder'
  BY <1>0, <1>1, ProbePosition DEF ChunkInv, ChunksInOrder
<1>3. ASSUME NEW l \in Lists PROVE Cardinality(Holders(l))' <= permits'[l]
  <2>1. Cardinality(Holders(l)) <= permits[l] /\ permits[l] \in Nat
    BY <1>0 DEF ChunkInv, ResultsCounted
  <2>2. CASE l = p[1] /\ pc'[p] = "trying"
    <3>1. Holders(l)' = Holders(l) \cup {p} /\ p \notin Holders(l)
      BY <1>1, <2>2 DEF Begin, Holders, Chunk, Running
    <3>2. Cardinality(Holders(l)') = Cardinality(Holders(l)) + 1
      BY <3>1, HoldersFinite, FS_AddElement
    <3>3. Cardinality(Holders(l)) < permits[l]
      BY <2>2 DEF Begin, PermitFree
    <3> QED BY <1>1, <2>1, <3>2, <3>3, HoldersFinite
  <2>3. CASE ~(l = p[1] /\ pc'[p] = "trying")
    <3>1. Holders(l)' = Holders(l)
      BY <1>1, <2>3 DEF Holders, Chunk, Running
    <3> QED BY <1>1, <2>1, <3>1
  <2> QED BY <2>2, <2>3
<1>4. ASSUME NEW t \in Transports, NEW s PROVE DoneWith(t, s)' = DoneWith(t, s)
  BY <1>0, <1>1 DEF DoneWith, Done
<1>5. \A t \in Transports : /\ good'[t] = Cardinality(DoneWith(t, "reachable")')
                            /\ bad'[t] = Cardinality(DoneWith(t, "unreachable")')
  BY <1>1, <1>4, ResultsDone DEF ChunkInv
<1>6. ResultsCounted'
  BY <1>3, <1>5 DEF ResultsCounted, DoneWith, Done
<1> QED BY <1>2, <1>6 DEF ChunkInv

\* A new chunk holds no permit yet: all of it is queued.
LEMMA StartChunkInv ==
  ASSUME TypeOK, ChunkInv, NEW l \in Lists, StartChunk(l)
  PROVE  ChunkInv'
<1> DEFINE n == PermitsFor(good[TransportOf[l]], bad[TransportOf[l]])
<1>0. /\ pc \in [Probes -> PcStates] /\ started \in [Lists -> Nat]
      /\ recorded \in [Lists -> Nat] /\ permits \in [Lists -> 0..MaxWorkers]
  BY DEF TypeOK, PcStates
<1>1. n \in 1..MaxWorkers
  BY ProbeAssumption, PermitsType DEF TypeOK, ProbeAssumption
<1>2. ChunkEnd(l, n) \in Nat /\ ChunkEnd(l, n) >= started[l]
  BY <1>0, <1>1, ProbeAssumption DEF StartChunk, ChunkEnd, ProbeAssumption
<1>3. /\ started' = [started EXCEPT ![l] = ChunkEnd(l, n)]
      /\ permits' = [permits EXCEPT ![l] = n] /\ recorded[l] = started[l]
      /\ UNCHANGED <<recorded, pc, good, bad>>
  BY DEF StartChunk, probeVars
<1> HIDE DEF n
<1>4. ChunksInOrder'
  <2>1. \A k \in Lists : recorded'[k] <= started'[k] /\ started'[k] >= started[k]
    BY <1>0, <1>2, <1>3 DEF ChunkInv, ChunksInOrder
  <2>2. started' \in [Lists -> Nat]
    BY <1>0, <1>2, <1>3
  <2> QED BY <1>0, <1>3, <2>1, <2>2, ProbePosition DEF ChunkInv, ChunksInOrder
<1>5. ASSUME NEW k \in Lists PROVE Cardinality(Holders(k))' <= permits'[k]
  <2>1. CASE k # l
    <3>1. Holders(k)' = Holders(k) /\ permits'[k] = permits[k]
      BY <1>0, <1>3, <2>1 DEF Holders, Chunk
    <3> QED BY <3>1 DEF ChunkInv, ResultsCounted
  <2>2. CASE k = l
    <3>1. Holders(k)' = {}
      BY <1>0, <1>3, <2>2, ProbePosition
         DEF Holders, Chunk, ChunkInv, ChunksInOrder, Running, Ended
    <3>2. Cardinality(Holders(k)') = 0
      BY <3>1, FS_EmptySet
    <3> QED BY <1>0, <1>1, <1>3, <2>2, <3>2
  <2> QED BY <2>1, <2>2
<1>6. \A t \in Transports : /\ good'[t] = Cardinality(DoneWith(t, "reachable")')
                            /\ bad'[t] = Cardinality(DoneWith(t, "unreachable")')
  BY <1>3, ResultsDone DEF ChunkInv, DoneWith, Done
<1>7. ResultsCounted'
  BY <1>5, <1>6 DEF ResultsCounted, DoneWith, Done
<1> QED BY <1>4, <1>7 DEF ChunkInv

\* The results of a chunk are added to those of the chunks before it.
LEMMA EndChunkInv ==
  ASSUME TypeOK, ChunkInv, NEW l \in Lists, EndChunk(l)
  PROVE  ChunkInv'
<1> DEFINE t == TransportOf[l]
           Of(s) == {p \in Chunk(l) : pc[p] = s}
<1>0. /\ pc \in [Probes -> PcStates] /\ started \in [Lists -> Nat]
      /\ recorded \in [Lists -> Nat] /\ permits \in [Lists -> 0..MaxWorkers]
      /\ good \in [Transports -> Nat] /\ bad \in [Transports -> Nat]
      /\ t \in Transports
  BY ProbeAssumption DEF TypeOK, PcStates, ProbeAssumption
<1>1. /\ recorded' = [recorded EXCEPT ![l] = started[l]]
      /\ recorded[l] < started[l] /\ \A p \in Chunk(l) : pc[p] \in Ended
      /\ UNCHANGED <<started, permits, pc>>
  BY DEF EndChunk, ChunkDone, probeVars
<1>2. ChunksInOrder'
  BY <1>0, <1>1, ProbePosition DEF ChunkInv, ChunksInOrder, Chunk
<1>3. ASSUME NEW k \in Lists PROVE Cardinality(Holders(k))' <= permits'[k]
  <2>1. Holders(k)' = Holders(k)
    <3>1. CASE k # l
      BY <1>0, <1>1, <3>1 DEF Holders, Chunk
    <3>2. CASE k = l
      <4>1. Holders(k)' = {}
        BY <1>0, <1>1, <3>2, ProbePosition DEF Holders, Chunk
      <4>2. Holders(k) = {}
        BY <1>1, <3>2 DEF Holders, Running, Ended
      <4> QED BY <4>1, <4>2
    <3> QED BY <3>1, <3>2
  <2> QED BY <1>1, <2>1 DEF ChunkInv, ResultsCounted
<1>4. ASSUME NEW s
      PROVE  /\ Cardinality(DoneWith(t, s)') = Cardinality(DoneWith(t, s)) + Cardinality(Of(s))
             /\ \A u \in Transports : u # t => DoneWith(u, s)' = DoneWith(u, s)
  <2>1. DoneWith(t, s)' = DoneWith(t, s) \cup Of(s)
    BY <1>0, <1>1, ProbePosition DEF DoneWith, Done, Chunk
  <2>2. DoneWith(t, s) \cap Of(s) = {}
    BY <1>0, <1>1, ProbePosition DEF DoneWith, Done, Chunk
  <2>3. DoneWith(t, s) \in SUBSET Probes /\ Of(s) \in SUBSET Probes
    BY DEF DoneWith, Done, Chunk
  <2>4. /\ IsFiniteSet(DoneWith(t, s)) /\ Cardinality(DoneWith(t, s)) \in Nat
        /\ IsFiniteSet(Of(s)) /\ Cardinality(Of(s)) \in Nat
    BY <2>3, ProbesFinite, FS_Subset, FS_CardinalityType
  <2>5. Cardinality(DoneWith(t, s) \cup Of(s))
          = Cardinality(DoneWith(t, s)) + Cardinality(Of(s)) - Cardinality({})
    BY <2>2, <2>4, FS_Union
  <2>6. Cardinality(DoneWith(t, s)') = Cardinality(DoneWith(t, s)) + Cardinality(Of(s))
    BY <2>1, <2>4, <2>5, FS_EmptySet
  <2>7. ASSUME NEW u \in Transports, u # t PROVE DoneWith(u, s)' = DoneWith(u, s)
    BY <1>0, <1>1, <2>7 DEF DoneWith, Done
  <2> QED BY <2>6, <2>7
<1>5. /\ good' = [good EXCEPT ![t] = good[t] + Cardinality(Of("reachable"))]
      /\ bad' = [bad EXCEPT ![t] = bad[t] + Cardinality(Of("unreachable"))]
  BY DEF EndChunk
<1> HIDE DEF Of, t
<1>6. ASSUME NEW u \in Transports
      PROVE  /\ good'[u] = Cardinality(DoneWith(u, "reachable")')
             /\ bad'[u] = Cardinality(DoneWith(u, "unreachable")')
  <2>1. /\ good[u] = Cardinality(DoneWith(u, "reachable"))
        /\ bad[u] = Cardinality(DoneWith(u, "unreachable"))
    BY ResultsDone DEF ChunkInv
  <2>2. CASE u = t
    BY <1>0, <1>4, <1>5, <2>1, <2>2
  <2>3. CASE u # t
    BY <1>0, <1>4, <1>5, <2>1, <2>3
  <2> QED BY <2>2, <2>3
<1>7. ResultsCounted'
  BY <1>3, <1>6 DEF ResultsCounted, DoneWith, Done
<1> QED BY <1>2, <1>7 DEF ChunkInv

LEMMA NextChunk == TypeInv /\ ChunkInv /\ [Next]_vars => ChunkInv'
<1> SUFFICES ASSUME TypeInv, ChunkInv, [Next]_vars PROVE ChunkInv'
  OBVIOUS
<1>0. TypeOK
  BY DEF TypeInv
<1>1. CASE UNCHANGED <<listVars, pc, good, bad>>
  BY <1>1, ChunkQuiet
<1>2. ASSUME NEW l \in Lists, ListStep(l) PROVE ChunkInv'
  BY <1>0, <1>2, StartChunkInv, EndChunkInv DEF ListStep
<1>3. ASSUME NEW p \in Probes, Begin(p) PROVE ChunkInv'
  BY <1>0, <1>3, BeginChunk
<1>4. ASSUME NEW p \in Probes, NEW v \in Running \cup Ended, pc[p] \in Running,
             pc' = [pc EXCEPT ![p] = v], UNCHANGED <<listVars, good, bad>>
      PROVE  ChunkInv'
  BY <1>0, <1>4, RunningStep
<1>5. ASSUME NEW p \in Probes, FailAttempt(p), pc[p] \in Running,
             UNCHANGED <<listVars, good, bad>>
      PROVE  ChunkInv'
  <2>1. \E v \in Running \cup Ended : pc' = [pc EXCEPT ![p] = v]
    BY <1>5 DEF FailAttempt, Running, Ended
  <2> QED BY <1>4, <1>5, <2>1
<1>6. ASSUME NEW p \in Probes, Connect(p) \/ Retry(p) PROVE ChunkInv'
  BY <1>4, <1>6 DEF Connect, Retry, Running
<1>7. ASSUME NEW p \in Probes, Ask(p) PROVE ChunkInv'
  <2>1. pc[p] \in Running /\ UNCHANGED <<listVars, good, bad>>
    BY <1>7 DEF Ask, Running
  <2>2. CASE FailAttempt(p)
    BY <1>5, <2>1, <2>2
  <2>3. CASE pc' = [pc EXCEPT ![p] = "inflight"]
    BY <1>4, <2>1, <2>3 DEF Running
  <2> QED BY <1>7, <2>2, <2>3 DEF Ask, Refused, LetThrough
<1>8. ASSUME NEW p \in Probes, NEW ok \in BOOLEAN, Answer(p, ok) PROVE ChunkInv'
  <2>1. pc[p] \in Running /\ UNCHANGED <<listVars, good, bad>>
    BY <1>8 DEF Answer, Running
  <2>2. CASE FailAttempt(p)
    BY <1>5, <2>1, <2>2
  <2>3. CASE pc' = [pc EXCEPT ![p] = "reachable"]
    BY <1>4, <2>1, <2>3 DEF Ended
  <2> QED BY <1>8, <2>2, <2>3 DEF Answer
<1> QED BY <1>1, <1>2, <1>3, <1>6, <1>7, <1>8
        DEF Next, ProbeStep, Tick, vars, probeVars

LEMMA InitChunk == Init => ChunkInv
<1> SUFFICES ASSUME Init PROVE ChunkInv
  OBVIOUS
<1>1. \A l \in Lists : recorded[l] = 0 /\ started[l] = 0 /\ permits[l] = 0
  BY DEF Init
<1>2. \A p \in Probes : pc[p] = "queued" /\ ~(p[2] <= 0)
  BY ProbeAssumption DEF Init, Probes, ProbeAssumption
<1>3. ChunksInOrder
  BY <1>1, <1>2, ProbePosition DEF ChunksInOrder
<1>4. \A l \in Lists : Holders(l) = {}
  BY <1>2 DEF Holders, Chunk, Running
<1>5. \A t \in Transports : \A s \in Ended : DoneWith(t, s) = {}
  BY <1>2 DEF DoneWith, Done, Ended
<1>6. \A l \in Lists : Cardinality(Holders(l)) <= permits[l]
  BY <1>1, <1>4, FS_EmptySet
<1>7. \A t \in Transports : /\ good[t] = Cardinality(DoneWith(t, "reachable"))
                            /\ bad[t] = Cardinality(DoneWith(t, "unreachable"))
  BY <1>5, FS_EmptySet DEF Init, Ended
<1> QED BY <1>3, <1>6, <1>7, ResultsDone DEF ChunkInv

LEMMA ChunkInvariant == Spec => []ChunkInv
<1> QED BY InitChunk, NextChunk, TypeInvariant, PTL DEF Spec

\* A list never has more probes under way than it has permits, and every
\* probe that ended is counted once, when its chunk is recorded.
THEOREM ResultsCountedHolds == Spec => []ResultsCounted
<1>1. ChunkInv => ResultsCounted
  BY DEF ChunkInv
<1> QED BY <1>1, ChunkInvariant, PTL

-----------------------------------------------------------------------------
(* The storm.                                                              *)

WorkersBound == Cardinality(Lists) * MaxWorkers

\* Numbering what each of finitely many groups holds, at most m of each,
\* bounds the whole.
LEMMA GroupsBound ==
  ASSUME NEW S, NEW L, IsFiniteSet(L), NEW m \in Nat, NEW G,
         \A l \in L : IsFiniteSet(G[l]) /\ Cardinality(G[l]) <= m,
         \A p \in S : \E l \in L : p \in G[l]
  PROVE  IsFiniteSet(S) /\ Cardinality(S) <= Cardinality(L) * m
<1>1. ASSUME NEW l \in L PROVE \E g : g \in Injection(G[l], 1..m)
  <2>1. /\ Cardinality(G[l]) \in Nat /\ ExistsBijection(1..Cardinality(G[l]), G[l])
        /\ Cardinality(G[l]) <= m
    BY FS_CardinalityType
  <2>2. ExistsBijection(G[l], 1..Cardinality(G[l]))
    BY <2>1, Fun_ExistsBijSymmetric
  <2>3. PICK g : g \in Bijection(G[l], 1..Cardinality(G[l]))
    BY <2>2 DEF ExistsBijection
  <2>4. g \in [G[l] -> 1..Cardinality(G[l])] /\ \A a, b \in G[l] : g[a] = g[b] => a = b
    BY <2>3 DEF Bijection, Injection, IsInjective
  <2>5. 1..Cardinality(G[l]) \subseteq 1..m
    BY <2>1
  <2>6. g \in [G[l] -> 1..m]
    BY <2>4, <2>5
  <2> QED BY <2>4, <2>6, Fun_IsInj
<1> DEFINE Number(l) == CHOOSE g : g \in Injection(G[l], 1..m)
           ListOf(p) == CHOOSE l \in L : p \in G[l]
           F == [p \in S |-> <<ListOf(p), Number(ListOf(p))[p]>>]
<1>2. \A l \in L : /\ Number(l) \in [G[l] -> 1..m]
                   /\ \A a, b \in G[l] : Number(l)[a] = Number(l)[b] => a = b
  <2>1. \A l \in L : Number(l) \in Injection(G[l], 1..m)
    BY <1>1, Zenon
  <2> HIDE DEF Number
  <2> QED BY <2>1 DEF Injection, IsInjective
<1>3. \A p \in S : ListOf(p) \in L /\ p \in G[ListOf(p)]
  OBVIOUS
<1> HIDE DEF Number, ListOf
<1>4. F \in [S -> L \X (1..m)]
  BY <1>2, <1>3
<1>5. \A a, b \in S : F[a] = F[b] => a = b
  BY <1>2, <1>3
<1> HIDE DEF F
<1>6. F \in Injection(S, L \X (1..m))
  BY <1>4, <1>5, Fun_IsInj
<1>7. IsFiniteSet(1..m) /\ Cardinality(1..m) = m
  BY FS_Interval
<1>8. IsFiniteSet(L \X (1..m)) /\ Cardinality(L \X (1..m)) = Cardinality(L) * m
  BY <1>7, FS_Product
<1> QED BY <1>6, <1>8, FS_Injection

\* However many fronts and lists, the requests under way to a front are at
\* most what the lists' workers can hold.
WorkersFit ==
  \A f \in Fronts : Cardinality(Contacting(f)) <= WorkersBound

LEMMA ContactsFit == TypeOK /\ ChunkInv => WorkersFit
<1> SUFFICES ASSUME TypeOK, ChunkInv, NEW f \in Fronts
             PROVE  Cardinality(Contacting(f)) <= WorkersBound
  BY DEF WorkersFit
<1> DEFINE G == [l \in Lists |-> Holders(l)]
<1>0. /\ started \in [Lists -> Nat] /\ recorded \in [Lists -> Nat]
      /\ permits \in [Lists -> 0..MaxWorkers]
      /\ IsFiniteSet(Lists) /\ MaxWorkers \in Nat
  BY ProbeAssumption DEF TypeOK, ProbeAssumption
<1>1. \A p \in Contacting(f) : \E l \in Lists : p \in G[l]
  <2> SUFFICES ASSUME NEW p \in Contacting(f) PROVE p[1] \in Lists /\ p \in Holders(p[1])
    OBVIOUS
  <2>1. p \in Probes /\ pc[p] = "inflight" /\ p[1] \in Lists /\ p[2] \in Nat
    BY ProbePosition DEF Contacting
  <2>2. recorded[p[1]] < p[2] /\ p[2] <= started[p[1]]
    BY <1>0, <2>1 DEF ChunkInv, ChunksInOrder, Ended
  <2> QED BY <2>1, <2>2 DEF Holders, Chunk, Running
<1>2. \A l \in Lists : IsFiniteSet(G[l]) /\ Cardinality(G[l]) <= MaxWorkers
  <2> SUFFICES ASSUME NEW l \in Lists
               PROVE  IsFiniteSet(Holders(l)) /\ Cardinality(Holders(l)) <= MaxWorkers
    OBVIOUS
  <2>1. Cardinality(Holders(l)) <= permits[l] /\ permits[l] \in 0..MaxWorkers
    BY <1>0 DEF ChunkInv, ResultsCounted
  <2> QED BY <1>0, <2>1, HoldersFinite
<1> HIDE DEF G
<1> QED BY <1>0, <1>1, <1>2, GroupsBound DEF WorkersBound

\* A step that sends nothing to a front adds nothing to its requests.
LEMMA HitsSettle ==
  ASSUME TypeOK, [Next]_vars, NEW f \in Fronts
  PROVE  \/ hits'[f] = hits[f]
         \/ hits'[f] = 0
         \/ openUntil'[f] = 0
<1>1. CASE UNCHANGED frontVars
  BY <1>1 DEF frontVars
<1>2. ASSUME NEW p \in Probes, LetThrough(p) PROVE hits'[f] = hits[f] \/ openUntil'[f] = 0
  <2>1. CASE f # Front(p)
    BY <1>2, <2>1 DEF LetThrough, TypeOK
  <2>2. CASE f = Front(p)
    BY <1>2, <2>2 DEF LetThrough, TypeOK
  <2> QED BY <2>1, <2>2
<1>3. ASSUME NEW p \in Probes, NEW ok \in BOOLEAN, Record(Front(p), ok)
      PROVE  hits'[f] = hits[f] \/ hits'[f] = 0
  BY <1>3 DEF Record, TypeOK
<1> QED BY <1>1, <1>2, <1>3
        DEF Next, ListStep, ProbeStep, StartChunk, EndChunk, Begin, Connect, Ask, Refused,
            Retry, Answer, Tick, vars

\* Every step keeps the bound: while the circuit is closed each request is
\* counted as a failure or still under way, and while it is open none is sent.
LEMMA NextStorm ==
  ASSUME TypeOK, StormBounded, [Next]_vars, TypeOK', FrontInv', WorkersFit'
  PROVE  StormBounded'
<1> SUFFICES ASSUME NEW f \in Fronts
             PROVE  hits'[f] <= Threshold - 1 + WorkersBound
  BY DEF StormBounded, WorkersBound
<1>0. /\ Threshold \in Nat \ {0} /\ WorkersBound \in Nat
      /\ hits[f] \in Nat /\ hits'[f] \in Nat /\ fails'[f] \in Nat
  BY ProbeAssumption, FS_CardinalityType DEF TypeOK, WorkersBound, ProbeAssumption
<1>1. CASE openUntil'[f] = 0
  <2>1. fails'[f] < Threshold
    BY <1>0, <1>1 DEF FrontInv, BlockedIffFailing
  <2>2. hits'[f] <= fails'[f] + Cardinality(Contacting(f)')
    BY DEF FrontInv, FailuresCoverHits
  <2>3. Cardinality(Contacting(f)') <= WorkersBound
    BY DEF WorkersFit, WorkersBound
  <2>4. Cardinality(Contacting(f)') \in Nat
    <3>1. Contacting(f)' \in SUBSET Probes
      BY DEF Contacting
    <3> QED BY <3>1, ProbesFinite, FS_Subset, FS_CardinalityType
  <2> QED BY <1>0, <2>1, <2>2, <2>3, <2>4
<1>2. CASE hits'[f] = hits[f]
  BY <1>2 DEF StormBounded, WorkersBound
<1>3. CASE hits'[f] = 0
  BY <1>0, <1>3
<1> QED BY <1>1, <1>2, <1>3, HitsSettle

\* A dead front receives the failures that open its circuit and what the
\* workers of all lists had under way by then, and no more until it answers
\* or its cooldown is over.
THEOREM StormBoundedHolds == Spec => []StormBounded
<1>1. Init => StormBounded
  <2>1. Threshold \in Nat \ {0} /\ Cardinality(Lists) * MaxWorkers \in Nat
    BY ProbeAssumption, FS_CardinalityType DEF ProbeAssumption
  <2> QED BY <2>1 DEF Init, StormBounded
<1>2. /\ TypeOK /\ StormBounded /\ [Next]_vars
      /\ TypeOK' /\ FrontInv' /\ WorkersFit'
      => StormBounded'
  BY NextStorm
<1> QED BY <1>1, <1>2, ContactsFit, FrontInvariant, ChunkInvariant, TypeCorrect, PTL
        DEF Spec
=============================================================================

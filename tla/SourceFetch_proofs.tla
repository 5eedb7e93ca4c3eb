--------------------------- MODULE SourceFetch_proofs ---------------------------
(***************************************************************************)
(* For every number of tasks, mirrors and every threshold and cooldown:    *)
(* TypeOK and MapsAgree hold, whatever the order of the lock operations,   *)
(* and nothing but the two lock orders can stop the acquisition.           *)
(***************************************************************************)
EXTENDS SourceFetch, TLAPS

-----------------------------------------------------------------------------
(* The mutexes are held exactly between their two steps, and a map only    *)
(* changes under its mutex: so a strand inside allow finds its source      *)
(* closed still, and a strand inside record finds the count it wrote.      *)

InAllow(k)  == {s \in Strands : pc[s] = "allow_failures" /\ KeyOf(s) = k}
InRecord(k) == {s \in Strands : pc[s] = "record_open" /\ KeyOf(s) = k}

LocksHeld ==
  \A s \in Strands :
    /\ pc[s] = "allow_failures" <=> openLock = s
    /\ pc[s] = "record_open" <=> failLock = s

HalfWay ==
  /\ \A k \in Keys : InAllow(k) # {} => ~IsOpen(k)
  /\ \A s \in Strands : pc[s] = "record_open" =>
       IF answer[s] = "failed" THEN failures[KeyOf(s)] >= Threshold
                               ELSE failures[KeyOf(s)] = 0

AgreeOutside ==
  \A k \in Keys : InAllow(k) = {} /\ InRecord(k) = {} =>
    (IsOpen(k) <=> failures[k] >= Threshold)

MapsInv == TypeOK /\ LocksHeld /\ HalfWay /\ AgreeOutside

LEMMA StrandShape ==
  \A s \in Strands : TaskOf(s) \in Tasks /\ KeyOf(s) \in Keys /\ Urls(s) \in 1..2
BY DEF Strands, TaskOf, KeyOf, Urls

PcStates == {"start", "allow_failures", "inflight", "record", "record_open", "done"}

\* A strand that was not let through yet has a URL left.
UrlsLeft ==
  \A s \in Strands : pc[s] \in {"start", "allow_failures"} => left[s] > 0

\* What Send and Continue do to the strand.
LEMMA SendType ==
  ASSUME TypeOK, UrlsLeft, NEW s \in Strands, left[s] > 0, Send(s)
  PROVE  pc' \in [Strands -> PcStates] /\ left' \in [Strands -> 0..2] /\ UrlsLeft'
<1>1. left[s] - 1 \in 0..2
  BY DEF TypeOK
<1>2. pc' = [pc EXCEPT ![s] = "inflight"] /\ left' = [left EXCEPT ![s] = left[s] - 1]
  BY DEF Send
<1> QED BY <1>1, <1>2 DEF TypeOK, UrlsLeft, PcStates

LEMMA ContinueType ==
  ASSUME TypeOK, UrlsLeft, NEW s \in Strands, Continue(s)
  PROVE  pc' \in [Strands -> PcStates] /\ left' \in [Strands -> 0..2] /\ UrlsLeft'
<1>1. CASE Send(s) /\ left[s] > 0
  BY <1>1, SendType
<1>2. CASE pc' = [pc EXCEPT ![s] = "done"] /\ UNCHANGED left
  BY <1>2 DEF TypeOK, UrlsLeft, PcStates
<1> QED BY <1>1, <1>2 DEF Continue

LEMMA NextType ==
  TypeOK /\ UrlsLeft /\ [Next]_vars => TypeOK' /\ UrlsLeft'
<1> SUFFICES ASSUME TypeOK, UrlsLeft, [Next]_vars PROVE TypeOK' /\ UrlsLeft'
  OBVIOUS
<1> USE FetchAssumption DEF FetchAssumption
<1>1. CASE UNCHANGED vars
  BY <1>1 DEF TypeOK, UrlsLeft, vars, strandVars, breakerVars
<1>2. CASE Tick
  BY <1>2 DEF Tick, TypeOK, UrlsLeft, strandVars, breakerVars
<1>3. ASSUME NEW s \in Strands, Allow(s) PROVE TypeOK' /\ UrlsLeft'
  <2>1. DOMAIN openSince' \subseteq Keys /\ openSince' \in [DOMAIN openSince' -> Nat]
    BY <1>3 DEF Allow, Without, TypeOK
  <2>2. pc' \in [Strands -> PcStates] /\ left' \in [Strands -> 0..2] /\ UrlsLeft'
    <3>1. CASE Send(s)
      BY <1>3, <3>1, SendType DEF Allow, UrlsLeft
    <3>2. CASE /\ UNCHANGED left
               /\ \E v \in {"done", "allow_failures"} : pc' = [pc EXCEPT ![s] = v]
      <4>1. left[s] > 0
        BY <1>3 DEF Allow, UrlsLeft
      <4> QED BY <3>2, <4>1 DEF TypeOK, UrlsLeft, PcStates
    <3> QED BY <1>3, <3>1, <3>2 DEF Allow
  <2>3. openLock' \in Strands \cup {Free}
    BY <1>3 DEF Allow, TypeOK
  <2> QED BY <1>3, <2>1, <2>2, <2>3 DEF Allow, TypeOK, PcStates
<1>4. ASSUME NEW s \in Strands, AllowFailures(s) PROVE TypeOK' /\ UrlsLeft'
  <2>1. pc' \in [Strands -> PcStates] /\ left' \in [Strands -> 0..2] /\ UrlsLeft'
    BY <1>4, SendType DEF AllowFailures, UrlsLeft
  <2>2. failures' \in [Keys -> Nat]
    BY <1>4 DEF AllowFailures, ForgottenCount, TypeOK
  <2> QED BY <1>4, <2>1, <2>2 DEF AllowFailures, TypeOK, PcStates
<1>5. ASSUME NEW s \in Strands, Respond(s) PROVE TypeOK' /\ UrlsLeft'
  BY <1>5 DEF Respond, TypeOK, UrlsLeft, breakerVars
<1>6. ASSUME NEW s \in Strands, Record(s) PROVE TypeOK' /\ UrlsLeft'
  <2>1. pc' \in [Strands -> PcStates] /\ left' \in [Strands -> 0..2] /\ UrlsLeft'
    <3>1. CASE Continue(s)
      BY <3>1, ContinueType
    <3>2. CASE pc' = [pc EXCEPT ![s] = "record_open"] /\ UNCHANGED left
      BY <3>2 DEF TypeOK, UrlsLeft, PcStates
    <3> QED BY <1>6, <3>1, <3>2 DEF Record
  <2>2. failures' \in [Keys -> Nat]
    BY <1>6, StrandShape DEF Record, TypeOK
  <2>3. failLock' \in Strands \cup {Free}
    BY <1>6 DEF Record, TypeOK
  <2> QED BY <1>6, <2>1, <2>2, <2>3 DEF Record, TypeOK, PcStates
<1>7. ASSUME NEW s \in Strands, RecordOpen(s) PROVE TypeOK' /\ UrlsLeft'
  <2>1. pc' \in [Strands -> PcStates] /\ left' \in [Strands -> 0..2] /\ UrlsLeft'
    BY <1>7, ContinueType DEF RecordOpen
  <2>2. DOMAIN openSince' \subseteq Keys /\ openSince' \in [DOMAIN openSince' -> Nat]
    BY <1>7, StrandShape DEF RecordOpen, With, Without, TypeOK
  <2> QED BY <1>7, <2>1, <2>2 DEF RecordOpen, TypeOK, PcStates
<1> QED BY <1>1, <1>2, <1>3, <1>4, <1>5, <1>6, <1>7 DEF Next, Step

\* Every variable keeps its type.
THEOREM TypeCorrect == Spec => []TypeOK
<1>1. Init => TypeOK /\ UrlsLeft
  BY StrandShape, FetchAssumption DEF Init, TypeOK, UrlsLeft, Answers, FetchAssumption
<1> QED BY <1>1, NextType, PTL DEF Spec

-----------------------------------------------------------------------------
(* The maps and their mutexes.                                             *)
LEMMA InitMaps == Init => LocksHeld /\ HalfWay /\ AgreeOutside
BY FetchAssumption DEF Init, LocksHeld, HalfWay, AgreeOutside, InAllow, IsOpen,
                       FetchAssumption

LEMMA NextMaps ==
  TypeOK /\ LocksHeld /\ HalfWay /\ AgreeOutside /\ [Next]_vars
  => LocksHeld' /\ HalfWay' /\ AgreeOutside'
<1> SUFFICES ASSUME TypeOK, LocksHeld, HalfWay, AgreeOutside, [Next]_vars
             PROVE  LocksHeld' /\ HalfWay' /\ AgreeOutside'
  OBVIOUS
<1> USE FetchAssumption DEF FetchAssumption
<1>0. /\ pc \in [Strands -> PcStates] /\ answer \in [Strands -> Answers]
      /\ failures \in [Keys -> Nat] /\ DOMAIN openSince \subseteq Keys
  BY DEF TypeOK, PcStates
<1>1. CASE UNCHANGED <<pc, answer, breakerVars>>
  BY <1>1 DEF LocksHeld, HalfWay, AgreeOutside, InAllow, InRecord, IsOpen, breakerVars
<1>2. ASSUME NEW s \in Strands, Allow(s)
      PROVE  LocksHeld' /\ HalfWay' /\ AgreeOutside'
  <2>1. CASE UNCHANGED <<openSince, openLock>>
    <3>1. PICK v \in {"inflight", "done"} : pc' = [pc EXCEPT ![s] = v]
      BY <1>2, <2>1 DEF Allow, Send
    <3> QED BY <1>0, <1>2, <2>1, <3>1
            DEF Allow, LocksHeld, HalfWay, AgreeOutside, InAllow, InRecord, IsOpen
  <2>2. CASE /\ openSince' = Without(KeyOf(s)) /\ openLock' = s
             /\ pc' = [pc EXCEPT ![s] = "allow_failures"]
    BY <1>0, <1>2, <2>2
       DEF Allow, Without, LocksHeld, HalfWay, AgreeOutside, InAllow, InRecord, IsOpen
  <2> QED BY <1>2, <2>1, <2>2 DEF Allow
<1>3. ASSUME NEW s \in Strands, AllowFailures(s)
      PROVE  LocksHeld' /\ HalfWay' /\ AgreeOutside'
  BY <1>0, <1>3
     DEF AllowFailures, Send, ForgottenCount, LocksHeld, HalfWay, AgreeOutside,
         InAllow, InRecord, IsOpen
<1>4. ASSUME NEW s \in Strands, Respond(s)
      PROVE  LocksHeld' /\ HalfWay' /\ AgreeOutside'
  BY <1>0, <1>4
     DEF Respond, LocksHeld, HalfWay, AgreeOutside, InAllow, InRecord, IsOpen, breakerVars
<1>5. ASSUME NEW s \in Strands, Record(s)
      PROVE  LocksHeld' /\ HalfWay' /\ AgreeOutside'
  BY <1>0, <1>5, StrandShape
     DEF Record, Continue, Send, LocksHeld, HalfWay, AgreeOutside, InAllow, InRecord, IsOpen
<1>6. ASSUME NEW s \in Strands, RecordOpen(s)
      PROVE  LocksHeld' /\ HalfWay' /\ AgreeOutside'
  BY <1>0, <1>6, StrandShape
     DEF RecordOpen, Continue, Send, With, Without, LocksHeld, HalfWay, AgreeOutside,
         InAllow, InRecord, IsOpen
<1> QED BY <1>1, <1>2, <1>3, <1>4, <1>5, <1>6 DEF Next, Step, Tick, vars, strandVars

LEMMA MapsInvariant == Spec => []MapsInv
<1>1. MapsInv <=> TypeOK /\ LocksHeld /\ HalfWay /\ AgreeOutside
  BY DEF MapsInv
<1> QED BY <1>1, InitMaps, NextMaps, TypeCorrect, PTL DEF Spec

\* Whenever both mutexes are free, a source is open exactly when it failed
\* Threshold times in a row (SourceCircuitBreaker's allow and record).
THEOREM MapsAgreeHolds == Spec => []MapsAgree
<1>1. MapsInv => MapsAgree
  BY FetchAssumption DEF MapsInv, MapsAgree, LocksHeld, AgreeOutside, InAllow, InRecord,
                         FetchAssumption
<1> QED BY <1>1, MapsInvariant, PTL

-----------------------------------------------------------------------------
(* What can get stuck.                                                     *)

\* A task none of whose strands is inside the breaker can go on, unless all
\* its strands are done: BridgeDB is asked first, then the mirrors, and then
\* the requests under way are answered.
LEMMA QuietTaskGoesOn ==
  ASSUME TypeOK, openLock = Free, NEW t \in Tasks,
         \A r \in Strands : TaskOf(r) = t => pc[r] \notin InCall,
         NEW s \in Strands, TaskOf(s) = t, pc[s] # "done"
  PROVE  \E r \in Strands : CanStep(r)
<1> DEFINE strand(k) == <<t, k>>
<1>1. \A k \in Keys : /\ strand(k) \in Strands
                      /\ TaskOf(strand(k)) = t /\ KeyOf(strand(k)) = k
  BY DEF Strands, TaskOf, KeyOf
<1>2. \A r \in Strands : TaskOf(r) = t => ThreadFree(r)
  BY DEF ThreadFree
<1>3. BridgeDb \in Keys
  BY DEF Keys
<1>4. CASE pc[strand(BridgeDb)] = "start"
  <2>1. CanStep(strand(BridgeDb))
    BY <1>1, <1>2, <1>3, <1>4 DEF CanStep
  <2> QED BY <1>1, <1>3, <2>1
<1>5. CASE /\ pc[strand(BridgeDb)] # "start"
           /\ \E k \in Keys : pc[strand(k)] = "start"
  <2>1. PICK k \in Keys : pc[strand(k)] = "start"
    BY <1>5
  <2>2. CanStep(strand(k))
    BY <1>1, <1>2, <1>5, <2>1 DEF CanStep
  <2> QED BY <1>1, <2>2
<1>6. CASE \A k \in Keys : pc[strand(k)] # "start"
  <2>1. s = strand(KeyOf(s)) /\ KeyOf(s) \in Keys
    BY DEF Strands, TaskOf, KeyOf
  <2>2. pc[s] = "inflight"
    BY <1>6, <2>1 DEF TypeOK, InCall
  <2>3. CanStep(s)
    BY <1>2, <1>6, <2>2 DEF CanStep
  <2> QED BY <2>3
<1> QED BY <1>4, <1>5, <1>6

\* The tasks never all wait for each other, except in the one way the two
\* lock orders of allow and record make possible.
THEOREM OnlyCrossWaitBlocksHolds == Spec => []OnlyCrossWaitBlocks
<1>1. MapsInv => OnlyCrossWaitBlocks
  <2> SUFFICES ASSUME MapsInv, ~CrossWait, NEW s \in Strands, pc[s] # "done"
               PROVE  \E r \in Strands : CanStep(r)
    BY DEF OnlyCrossWaitBlocks, AllDone
  <2>1. TypeOK /\ LocksHeld
    BY DEF MapsInv
  <2>2. CASE \E r \in Strands : pc[r] = "allow_failures"
    <3>1. PICK r \in Strands : pc[r] = "allow_failures" /\ openLock = r
      BY <2>1, <2>2 DEF LocksHeld
    <3>2. failLock = Free
      BY <2>1, <3>1 DEF CrossWait, LocksHeld, TypeOK
    <3> QED BY <3>1, <3>2 DEF CanStep
  <2>3. CASE /\ \A r \in Strands : pc[r] # "allow_failures"
             /\ \E r \in Strands : pc[r] \in {"record", "record_open"}
    <3>1. openLock = Free
      BY <2>1, <2>3 DEF LocksHeld, TypeOK
    <3>2. CASE failLock = Free
      <4>1. PICK r \in Strands : pc[r] = "record"
        BY <2>1, <2>3, <3>2, FetchAssumption DEF LocksHeld, FetchAssumption
      <4> QED BY <3>2, <4>1 DEF CanStep
    <3>3. CASE failLock # Free
      <4>1. failLock \in Strands /\ pc[failLock] = "record_open"
        BY <2>1, <3>3 DEF LocksHeld, TypeOK
      <4> QED BY <3>1, <4>1 DEF CanStep
    <3> QED BY <3>2, <3>3
  <2>4. CASE \A r \in Strands : pc[r] \notin InCall
    <3>1. openLock = Free
      BY <2>1, <2>4 DEF LocksHeld, TypeOK, InCall
    <3>2. TaskOf(s) \in Tasks
      BY StrandShape
    <3> QED BY <2>1, <2>4, <3>1, <3>2, QuietTaskGoesOn
  <2> QED BY <2>2, <2>3, <2>4 DEF InCall
<1> QED BY <1>1, MapsInvariant, PTL

\* In a run that is shorter than the cooldown no open source is tried again,
\* so nobody takes the two mutexes in allow's order, and there is always
\* somebody who can go on.
THEOREM ShortRunGoesOn ==
  ASSUME MaxTime < Cooldown
  PROVE  Spec => [](AllDone \/ \E s \in Strands : CanStep(s))
<1> DEFINE NeverInAllow == now <= MaxTime /\ \A s \in Strands : pc[s] # "allow_failures"
<1>1. Init => NeverInAllow
  BY FetchAssumption DEF Init, FetchAssumption
<1>2. TypeOK /\ NeverInAllow /\ [Next]_vars => NeverInAllow'
  <2> SUFFICES ASSUME TypeOK, NeverInAllow, [Next]_vars PROVE NeverInAllow'
    OBVIOUS
  <2> USE FetchAssumption DEF FetchAssumption
  <2>1. CASE UNCHANGED vars
    BY <2>1 DEF vars, strandVars
  <2>2. CASE Tick
    BY <2>2 DEF Tick, TypeOK, strandVars
  <2>3. ASSUME NEW s \in Strands, Allow(s) PROVE NeverInAllow'
    <3>1. ~(IsOpen(KeyOf(s)) /\ Elapsed(KeyOf(s)))
      BY DEF IsOpen, Elapsed, TypeOK
    <3>2. now' = now /\ \E v \in {"inflight", "done"} : pc' = [pc EXCEPT ![s] = v]
      BY <2>3, <3>1 DEF Allow, Send
    <3> QED BY <3>2 DEF TypeOK
  <2>4. ASSUME NEW s \in Strands,
               AllowFailures(s) \/ Respond(s) \/ Record(s) \/ RecordOpen(s)
        PROVE  NeverInAllow'
    <3>1. /\ now' = now
          /\ \E v \in {"inflight", "done", "record", "record_open"} :
               pc' = [pc EXCEPT ![s] = v]
      BY <2>4 DEF AllowFailures, Respond, Record, RecordOpen, Continue, Send
    <3> QED BY <3>1 DEF TypeOK
  <2> QED BY <2>1, <2>2, <2>3, <2>4 DEF Next, Step
<1>3. NeverInAllow /\ OnlyCrossWaitBlocks => AllDone \/ \E s \in Strands : CanStep(s)
  BY DEF OnlyCrossWaitBlocks, CrossWait
<1> HIDE DEF NeverInAllow
<1> QED BY <1>1, <1>2, <1>3, OnlyCrossWaitBlocksHolds, TypeCorrect, PTL DEF Spec
=============================================================================

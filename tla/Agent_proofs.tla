------------------------------ MODULE Agent_proofs ------------------------------
(***************************************************************************)
(* For every number of connections, clients and permits and every          *)
(* threshold: TypeOK, ConsentFirst, PermitsConserved and RateRespected     *)
(* hold, every batch is Anonymous, every report OnceOnly in one, and the   *)
(* agent implements KAnonymity.                                            *)
(***************************************************************************)
EXTENDS Agent, FiniteSetTheorems, WellFoundedInduction, TLAPS

-----------------------------------------------------------------------------
(* Types and permits.                                                      *)

Holders == {c \in Conns : HasPermit(c)}

PermitsInv == TypeOK /\ PermitsConserved

\* The number of holders when one task gives its permit back.
LEMMA HoldersFinite ==
  IsFiniteSet(Holders) /\ Cardinality(Holders) \in Nat
<1>1. Holders \in SUBSET Conns
  BY DEF Holders
<1>2. IsFiniteSet(Holders)
  BY <1>1, AgentAssumption, FS_Subset DEF AgentAssumption
<1> QED BY <1>2, FS_CardinalityType

\* Answering leaves as many permits as there were (handle_request's _permit).
LEMMA AnswerPermits ==
  ASSUME PermitsInv, NEW c \in Conns, NEW code \in {200, 400, 403, 404, 405, 422, 429},
         Answer(c, code)
  PROVE  /\ free' \in 0..MaxProbes /\ PermitsConserved'
         /\ pc' = [pc EXCEPT ![c] = "done"]
         /\ pc' \in [Conns -> Holding \cup {"new", "valid", "done"}]
         /\ status' \in [Conns -> {0, 200, 400, 403, 404, 405, 422, 429}]
<1> USE AgentAssumption DEF AgentAssumption
<1>1. pc' = [pc EXCEPT ![c] = "done"] /\ pc \in [Conns -> Holding \cup {"new", "valid", "done"}]
  BY DEF Answer, PermitsInv, TypeOK
<1>2. Holders' = Holders \ {c}
  BY <1>1 DEF Holders, HasPermit, Holding
<1>3. Cardinality(Holders') =
        IF c \in Holders THEN Cardinality(Holders) - 1 ELSE Cardinality(Holders)
  BY <1>2, HoldersFinite, FS_RemoveElement
<1>4. c \in Holders <=> HasPermit(c)
  BY DEF Holders
<1>5. Cardinality(Holders') \in Nat
  BY <1>2, HoldersFinite, FS_RemoveElement, FS_CardinalityType
<1>6. free + Cardinality(Holders) = MaxProbes /\ free \in 0..MaxProbes
  BY DEF PermitsInv, TypeOK, PermitsConserved, Holders
<1>7. free' + Cardinality(Holders') = MaxProbes /\ free' \in 0..MaxProbes
  BY <1>3, <1>4, <1>5, <1>6, HoldersFinite DEF Answer
<1> QED BY <1>1, <1>7 DEF Answer, PermitsInv, TypeOK, PermitsConserved, Holders

LEMMA InitPermits == Init => PermitsInv
<1> SUFFICES ASSUME Init PROVE PermitsInv
  OBVIOUS
<1>1. Holders = {}
  BY DEF Init, Holders, HasPermit, Holding
<1>2. Cardinality(Holders) = 0
  BY <1>1, FS_EmptySet
<1>3. TypeOK
  <2> USE AgentAssumption DEF AgentAssumption, Init
  <2>1. tokens \in [Clients -> 0..Burst] /\ spent \in [Clients -> [0..MaxTime -> Nat]]
    <3>1. Burst \in 0..Burst /\ [t \in 0..MaxTime |-> 0] \in [0..MaxTime -> Nat]
      OBVIOUS
    <3> QED BY <3>1
  <2>2. /\ pc \in [Conns -> Holding \cup {"new", "valid", "done"}]
        /\ status \in [Conns -> {0, 200, 400, 403, 404, 405, 422, 429}]
    OBVIOUS
  <2>3. held \subseteq Conns /\ inHand \in [Conns -> SUBSET Conns]
    OBVIOUS
  <2>4. free \in 0..MaxProbes /\ now \in 0..MaxTime /\ stops \in 0..MaxStops
    OBVIOUS
  <2> QED BY <2>1, <2>2, <2>3, <2>4 DEF TypeOK
<1>4. PermitsConserved
  BY <1>2, AgentAssumption DEF Init, PermitsConserved, Holders, AgentAssumption
<1> QED BY <1>3, <1>4 DEF PermitsInv

LEMMA NextPermits == PermitsInv /\ [Next]_vars => PermitsInv'
<1> SUFFICES ASSUME PermitsInv, [Next]_vars PROVE PermitsInv'
  OBVIOUS
<1> USE AgentAssumption DEF AgentAssumption
<1>0. TypeOK /\ PermitsConserved
  BY DEF PermitsInv
<1>1. CASE UNCHANGED vars
  BY <1>0, <1>1 DEF PermitsInv, TypeOK, PermitsConserved, HasPermit,
                    vars, limitVars, batchVars
<1>2. CASE GrantConsent
  BY <1>0, <1>2 DEF PermitsInv, TypeOK, PermitsConserved, HasPermit,
                    GrantConsent, limitVars, batchVars
<1>3. ASSUME NEW c \in Conns, NEW k \in Clients, Admit(c, k) PROVE PermitsInv'
  <2>1. tokens' \in [Clients -> 0..Burst] /\ spent' \in [Clients -> [0..MaxTime -> Nat]]
    <3>1. CASE UNCHANGED limitVars
      BY <1>0, <3>1 DEF TypeOK, limitVars
    <3>2. CASE /\ tokens[k] > 0 /\ tokens' = [tokens EXCEPT ![k] = @ - 1]
               /\ spent' = [spent EXCEPT ![k][now] = @ + 1]
      <4>1. tokens[k] \in 0..Burst /\ spent[k] \in [0..MaxTime -> Nat] /\ now \in 0..MaxTime
        BY <1>0 DEF TypeOK
      <4>2. tokens[k] - 1 \in 0..Burst /\ spent[k][now] + 1 \in Nat
        BY <3>2, <4>1
      <4>3. [spent[k] EXCEPT ![now] = @ + 1] \in [0..MaxTime -> Nat]
        BY <4>1, <4>2
      <4> QED BY <1>0, <3>2, <4>2, <4>3 DEF TypeOK
    <3> QED BY <1>3, <3>1, <3>2 DEF Admit
  <2>2. CASE \E code \in {400, 404, 405, 429} : Answer(c, code)
    <3>1. UNCHANGED <<granted, batchVars, now, stops>>
      BY <1>3 DEF Admit
    <3>2. PermitsConserved' /\ free' \in 0..MaxProbes
          /\ pc' \in [Conns -> Holding \cup {"new", "valid", "done"}]
          /\ status' \in [Conns -> {0, 200, 400, 403, 404, 405, 422, 429}]
      BY <2>2, AnswerPermits
    <3>3. /\ granted' \in BOOLEAN /\ held' \subseteq Conns
          /\ inHand' \in [Conns -> SUBSET Conns]
          /\ emitted' \subseteq SUBSET Conns /\ taken' \subseteq SUBSET Conns
          /\ now' \in 0..MaxTime /\ stops' \in 0..MaxStops
      BY <1>0, <3>1 DEF TypeOK, batchVars
    <3>4. TypeOK'
      BY <2>1, <3>2, <3>3, Zenon DEF TypeOK
    <3> QED BY <3>2, <3>4 DEF PermitsInv
  <2>3. CASE pc' = [pc EXCEPT ![c] = "valid"] /\ UNCHANGED <<free, status>>
    <3>1. Holders' = Holders
      BY <1>0, <1>3, <2>3 DEF Admit, Holders, HasPermit, Holding, TypeOK
    <3> QED BY <1>0, <1>3, <2>1, <2>3, <3>1
            DEF Admit, PermitsInv, TypeOK, PermitsConserved, Holders, batchVars
  <2> QED BY <1>3, <2>2, <2>3 DEF Admit
<1>4. ASSUME NEW c \in Conns, Acquire(c) PROVE PermitsInv'
  <2>1. CASE Answer(c, 429)
    <3>1. UNCHANGED <<granted, limitVars, batchVars, now, stops>>
      BY <1>4 DEF Acquire
    <3>2. PermitsConserved' /\ free' \in 0..MaxProbes
          /\ pc' \in [Conns -> Holding \cup {"new", "valid", "done"}]
          /\ status' \in [Conns -> {0, 200, 400, 403, 404, 405, 422, 429}]
      BY <2>1, AnswerPermits
    <3>3. /\ granted' \in BOOLEAN /\ held' \subseteq Conns
          /\ tokens' \in [Clients -> 0..Burst]
          /\ spent' \in [Clients -> [0..MaxTime -> Nat]]
          /\ inHand' \in [Conns -> SUBSET Conns]
          /\ emitted' \subseteq SUBSET Conns /\ taken' \subseteq SUBSET Conns
          /\ now' \in 0..MaxTime /\ stops' \in 0..MaxStops
      BY <1>0, <3>1 DEF TypeOK, limitVars, batchVars
    <3>4. TypeOK'
      BY <3>2, <3>3, Zenon DEF TypeOK
    <3> QED BY <3>2, <3>4 DEF PermitsInv
  <2>2. CASE free > 0 /\ free' = free - 1 /\ pc' = [pc EXCEPT ![c] = "permitted"]
             /\ UNCHANGED status
    <3>1. Holders' = Holders \cup {c} /\ c \notin Holders
      BY <1>0, <1>4, <2>2 DEF Acquire, Holders, HasPermit, Holding, TypeOK
    <3>2. Cardinality(Holders') = Cardinality(Holders) + 1
      BY <3>1, HoldersFinite, FS_AddElement
    <3>3. free' \in 0..MaxProbes /\ PermitsConserved'
      BY <1>0, <2>2, <3>2, HoldersFinite DEF TypeOK, PermitsConserved, Holders
    <3>4. UNCHANGED <<granted, limitVars, batchVars, now, stops>>
      BY <1>4 DEF Acquire
    <3> QED BY <1>0, <2>2, <3>3, <3>4
            DEF PermitsInv, TypeOK, Holding, limitVars, batchVars
  <2> QED BY <1>4, <2>1, <2>2 DEF Acquire
<1>5. ASSUME NEW c \in Conns, StartProbe(c) PROVE PermitsInv'
  <2>1. CASE \E code \in {403, 422} : Answer(c, code)
    BY <1>0, <1>5, <2>1, AnswerPermits DEF StartProbe, PermitsInv, TypeOK, limitVars, batchVars
  <2>2. CASE pc' = [pc EXCEPT ![c] = "probing"] /\ UNCHANGED <<status, free>>
    <3>1. Holders' = Holders
      BY <1>0, <1>5, <2>2 DEF StartProbe, Holders, HasPermit, Holding, TypeOK
    <3> QED BY <1>0, <1>5, <2>2, <3>1
            DEF StartProbe, PermitsInv, TypeOK, PermitsConserved, Holders, Holding,
                limitVars, batchVars
  <2> QED BY <1>5, <2>1, <2>2 DEF StartProbe, Unconsented
<1>6. ASSUME NEW c \in Conns, Submit(c) \/ Emit(c) PROVE PermitsInv'
  <2>1. Holders' = Holders
    BY <1>0, <1>6 DEF Submit, Emit, Holders, HasPermit, Holding, TypeOK
  <2>2. /\ pc' \in [Conns -> Holding \cup {"new", "valid", "done"}]
        /\ held' \subseteq Conns /\ inHand' \in [Conns -> SUBSET Conns]
        /\ emitted' \subseteq SUBSET Conns
    <3>1. CASE Submit(c)
      <4>1. HeldAfterEmit(held \cup {c}) \subseteq Conns /\ held \cup {c} \subseteq Conns
        BY <1>0 DEF TypeOK, HeldAfterEmit
      <4>2. pc' = [pc EXCEPT ![c] = "emitting"] \/ pc' = [pc EXCEPT ![c] = "reported"]
        BY <3>1 DEF Submit
      <4>3. pc' \in [Conns -> Holding \cup {"new", "valid", "done"}]
        BY <1>0, <4>2 DEF TypeOK, Holding
      <4>4. emitted' = emitted /\ (held' = held \cup {c} \/ held' = HeldAfterEmit(held \cup {c}))
            /\ (inHand' = inHand \/ inHand' = [inHand EXCEPT ![c] = held \cup {c}])
        BY <3>1 DEF Submit
      <4> QED BY <1>0, <4>1, <4>3, <4>4 DEF TypeOK
    <3>2. CASE Emit(c)
      BY <1>0, <3>2 DEF Emit, TypeOK, Holding
    <3> QED BY <1>6, <3>1, <3>2
  <2>3. UNCHANGED <<granted, limitVars, free, status, taken, now, stops>>
    BY <1>6 DEF Submit, Emit
  <2> QED BY <1>0, <2>1, <2>2, <2>3
          DEF PermitsInv, TypeOK, PermitsConserved, Holders, limitVars
<1>7. ASSUME NEW c \in Conns, Respond(c) PROVE PermitsInv'
  BY <1>0, <1>7, AnswerPermits DEF Respond, PermitsInv, TypeOK, limitVars, batchVars
<1>8. CASE TakeEmitted
  BY <1>0, <1>8 DEF PermitsInv, TypeOK, PermitsConserved, HasPermit,
                    TakeEmitted, EmittedAfterTake, limitVars
<1>9. CASE Tick
  <2>1. tokens' \in [Clients -> 0..Burst]
    BY <1>0, <1>9 DEF Tick, Refill, TypeOK
  <2> QED BY <1>0, <1>9, <2>1 DEF PermitsInv, TypeOK, PermitsConserved, HasPermit,
                                  Tick, batchVars
<1>10. CASE Restart
  <2>1. Holders' = {}
    BY <1>0, <1>10 DEF Restart, Holders, HasPermit, Holding, TypeOK
  <2>2. Cardinality(Holders') = 0
    BY <2>1, FS_EmptySet
  <2>3. /\ pc' \in [Conns -> Holding \cup {"new", "valid", "done"}]
        /\ spent' \in [Clients -> [0..MaxTime -> Nat]]
        /\ tokens' \in [Clients -> 0..Burst]
    BY <1>0, <1>10 DEF Restart, TypeOK
  <2>4. free' = MaxProbes /\ stops' \in 0..MaxStops
    BY <1>0, <1>10 DEF Restart, TypeOK
  <2>5. PermitsConserved'
    BY <2>2, <2>4 DEF PermitsConserved, Holders
  <2>6. TypeOK'
    <3>1. /\ granted' \in BOOLEAN /\ held' \subseteq Conns
          /\ inHand' \in [Conns -> SUBSET Conns]
      BY <1>10 DEF Restart
    <3>2. /\ emitted' \subseteq SUBSET Conns /\ taken' \subseteq SUBSET Conns
          /\ status' \in [Conns -> {0, 200, 400, 403, 404, 405, 422, 429}]
          /\ now' \in 0..MaxTime
      BY <1>0, <1>10 DEF TypeOK, Restart
    <3>3. free' \in 0..MaxProbes
      BY <2>4
    <3> QED BY <2>3, <2>4, <3>1, <3>2, <3>3, Zenon DEF TypeOK
  <2> QED BY <2>5, <2>6 DEF PermitsInv
<1> QED BY <1>1, <1>2, <1>3, <1>4, <1>5, <1>6, <1>7, <1>8, <1>9, <1>10
        DEF Next, Serve

LEMMA PermitsInvariant == Spec => []PermitsInv
BY InitPermits, NextPermits, PTL DEF Spec

\* Every variable keeps its type.
THEOREM TypeCorrect == Spec => []TypeOK
<1>1. PermitsInv => TypeOK
  BY DEF PermitsInv
<1> QED BY <1>1, PermitsInvariant, PTL

\* No path out of handle_request leaks a permit or gives one back twice.
THEOREM PermitsConservedHolds == Spec => []PermitsConserved
<1>1. PermitsInv => PermitsConserved
  BY DEF PermitsInv
<1> QED BY <1>1, PermitsInvariant, PTL

-----------------------------------------------------------------------------
(* Consent.                                                                *)

ConsentInv == TypeOK /\ ConsentFirst

\* A step of one task's pc away from the probe takes nothing from the consent.
LEMMA NextConsent == ConsentInv /\ [Next]_vars => ConsentFirst'
<1> SUFFICES ASSUME ConsentInv, [Next]_vars PROVE ConsentFirst'
  OBVIOUS
<1>0. ConsentFirst /\ pc \in [Conns -> Holding \cup {"new", "valid", "done"}]
  BY DEF ConsentInv, TypeOK
<1>1. CASE UNCHANGED vars
  BY <1>0, <1>1 DEF ConsentFirst, vars, batchVars
<1>2. CASE GrantConsent
  BY <1>2 DEF GrantConsent, ConsentFirst
<1>3. ASSUME NEW c \in Conns, UNCHANGED <<granted, held, emitted>>,
             \/ \E v \in {"valid", "permitted", "done"} : pc' = [pc EXCEPT ![c] = v]
             \/ granted
      PROVE  ConsentFirst'
  BY <1>0, <1>3 DEF ConsentFirst
<1>4. ASSUME NEW c \in Conns, NEW k \in Clients, Admit(c, k) PROVE ConsentFirst'
  BY <1>3, <1>4 DEF Admit, Answer, batchVars
<1>5. ASSUME NEW c \in Conns, Acquire(c) \/ StartProbe(c) \/ Respond(c)
      PROVE  ConsentFirst'
  BY <1>3, <1>5 DEF Acquire, StartProbe, Unconsented, Respond, Answer, batchVars
<1>6. ASSUME NEW c \in Conns, Submit(c) \/ Emit(c) PROVE ConsentFirst'
  <2>1. granted
    BY <1>0, <1>6 DEF ConsentFirst, Submit, Emit
  <2> QED BY <1>6, <2>1 DEF ConsentFirst, Submit, Emit
<1>7. CASE TakeEmitted
  BY <1>0, <1>7 DEF ConsentFirst, TakeEmitted
<1>8. CASE Tick
  BY <1>0, <1>8 DEF ConsentFirst, Tick, batchVars
<1>9. CASE Restart
  BY <1>0, <1>9 DEF ConsentFirst, Restart
<1> QED BY <1>1, <1>2, <1>4, <1>5, <1>6, <1>7, <1>8, <1>9 DEF Next, Serve

\* A probe runs, or a report exists, only where the volunteer has consented.
THEOREM ConsentFirstHolds == Spec => []ConsentFirst
<1>1. Init => ConsentFirst
  BY DEF Init, ConsentFirst
<1>2. TypeOK /\ ConsentFirst /\ [Next]_vars => ConsentFirst'
  BY NextConsent DEF ConsentInv
<1> QED BY <1>1, <1>2, TypeCorrect, PTL DEF Spec

-----------------------------------------------------------------------------
(* The reports.  What KAnonymity promises is an invariant of KAnonymity;   *)
(* that the agent's steps are steps of it needs the batches in the hands   *)
(* of the tasks to be different from each other and from the stored ones.  *)

Mixed == Anonymous /\ OnceOnly

InHands == {c \in Conns : pc[c] = "emitting"}

HandsApart ==
  /\ \A c \in InHands : c \in inHand[c] /\ inHand[c] \notin emitted
  /\ \A c, d \in InHands : c # d => inHand[c] # inHand[d]

\* The instance's Cardinality is the module's.
LEMMA SameCardinality == \A S : Mixer!Cardinality(S) = Cardinality(S)
BY DEF Cardinality, Mixer!Cardinality

\* A step of KAnonymity keeps its promises.
LEMMA MixerStep ==
  Mixed /\ [Mixer!KNext]_(Mixer!kvars) => Mixed'
<1> SUFFICES ASSUME Mixed, [Mixer!KNext]_(Mixer!kvars) PROVE Mixed'
  OBVIOUS
<1> USE DEF Mixed, Anonymous, OnceOnly, Mixer!Anonymous, Mixer!OnceOnly
<1>1. CASE UNCHANGED Mixer!kvars
  BY <1>1 DEF Mixer!kvars
<1>2. ASSUME NEW r \in Conns, Mixer!KSubmit(r) PROVE Mixed'
  <2>1. r \in Reportable /\ Reportable' = Reportable \ {r} /\ taken' = taken
    BY <1>2 DEF Mixer!KSubmit
  <2>2. CASE held' = held \cup {r} /\ Pool' = Pool
    BY <2>1, <2>2
  <2>3. CASE /\ Mixer!Cardinality(held \cup {r}) >= K
             /\ held' = {} /\ Pool' = Pool \cup {held \cup {r}}
    <3>1. Anonymous'
      BY <2>1, <2>3
    <3>2. \A B \in Pool \cup taken : B \cap (held \cup {r}) = {} /\ B # held \cup {r}
      BY <2>1
    <3>3. OnceOnly'
      BY <2>1, <2>3, <3>2
    <3> QED BY <3>1, <3>3
  <2> QED BY <1>2, <2>2, <2>3 DEF Mixer!KSubmit
<1>3. ASSUME NEW D \in SUBSET Pool, Mixer!KDrain(D) PROVE Mixed'
  BY <1>3 DEF Mixer!KDrain
<1>4. ASSUME NEW gone \in SUBSET Reportable, Mixer!KDecline(gone) \/ Mixer!KStop(gone)
      PROVE  Mixed'
  BY <1>4 DEF Mixer!KDecline, Mixer!KStop
<1> QED BY <1>1, <1>2, <1>3, <1>4 DEF Mixer!KNext

MixInv == TypeOK /\ Mixed /\ HandsApart

\* A task that neither makes nor hands on a report only gives up being fresh.
LEMMA QuietStep ==
  ASSUME MixInv, NEW c \in Conns, pc[c] # "emitting",
         UNCHANGED <<held, inHand, emitted, taken>>,
         NEW v \in {"valid", "permitted", "probing", "done"},
         pc' = [pc EXCEPT ![c] = v],
         v # "done" => c \in Reportable
  PROVE  /\ \E gone \in SUBSET Reportable : Mixer!KDecline(gone)
         /\ HandsApart'
<1>0. pc \in [Conns -> Holding \cup {"new", "valid", "done"}]
  BY DEF MixInv, TypeOK
<1>1. InHands' = InHands /\ Pool' = Pool
  BY <1>0 DEF InHands, Pool
<1>2. Reportable' = IF v = "done" THEN Reportable \ {c} ELSE Reportable
  BY <1>0 DEF Reportable
<1>3. PICK gone \in SUBSET Reportable : Reportable' = Reportable \ gone
  <2>1. CASE v = "done"
    <3>1. Reportable' = Reportable \ (Reportable \cap {c})
      BY <1>2, <2>1
    <3> QED BY <3>1
  <2>2. CASE v # "done"
    <3>1. Reportable' = Reportable \ {}
      BY <1>2, <2>2
    <3> QED BY <3>1
  <2> QED BY <2>1, <2>2
<1>4. Mixer!KDecline(gone)
  BY <1>1, <1>3 DEF Mixer!KDecline
<1> QED BY <1>1, <1>4 DEF MixInv, HandsApart

LEMMA SubmitMixes ==
  ASSUME MixInv, NEW c \in Conns, Submit(c)
  PROVE  Mixer!KSubmit(c) /\ HandsApart'
<1> DEFINE all == held \cup {c}
<1>0. /\ pc \in [Conns -> Holding \cup {"new", "valid", "done"}]
      /\ inHand \in [Conns -> SUBSET Conns] /\ HandsApart /\ OnceOnly
  BY DEF MixInv, Mixed, TypeOK
<1>1. c \in Reportable /\ c \notin InHands /\ emitted' = emitted /\ taken' = taken
  BY DEF Submit, Reportable, InHands
<1>2. \A B \in Pool : c \notin B
  BY <1>0, <1>1 DEF OnceOnly, Mixer!OnceOnly
<1>3. CASE /\ Cardinality(all) >= K
           /\ held' = {} /\ inHand' = [inHand EXCEPT ![c] = all]
           /\ pc' = [pc EXCEPT ![c] = "emitting"]
  <2>1. InHands' = InHands \cup {c} /\ Reportable' = Reportable \ {c}
    BY <1>0, <1>1, <1>3 DEF InHands, Reportable
  <2>2. inHand'[c] = all /\ \A d \in InHands : inHand'[d] = inHand[d]
    BY <1>0, <1>1, <1>3 DEF InHands
  <2>3. Pool' = Pool \cup {all}
    BY <1>1, <2>1, <2>2 DEF Pool, InHands
  <2>4. Mixer!KSubmit(c)
    BY <1>1, <1>3, <2>1, <2>3, SameCardinality DEF Mixer!KSubmit
  <2>5. \A d \in InHands : c \notin inHand[d]
    BY <1>2 DEF Pool, InHands
  <2>6. \A B \in emitted : c \notin B
    BY <1>2 DEF Pool
  <2>7. HandsApart'
    BY <1>0, <1>1, <2>1, <2>2, <2>5, <2>6 DEF HandsApart
  <2> QED BY <2>4, <2>7
<1>4. CASE /\ ~(Cardinality(all) >= K)
           /\ held' = all /\ inHand' = inHand
           /\ pc' = [pc EXCEPT ![c] = "reported"]
  <2>1. InHands' = InHands /\ Reportable' = Reportable \ {c}
    BY <1>0, <1>1, <1>4 DEF InHands, Reportable
  <2>2. Pool' = Pool
    BY <1>1, <1>4, <2>1 DEF Pool, InHands
  <2>3. Mixer!KSubmit(c)
    BY <1>1, <1>4, <2>1, <2>2, SameCardinality DEF Mixer!KSubmit
  <2> QED BY <1>0, <1>1, <1>4, <2>1, <2>3 DEF HandsApart
<1> QED BY <1>3, <1>4 DEF Submit, Ready, HeldAfterEmit

\* Storing the batch moves it within the pool.
LEMMA EmitMixes ==
  ASSUME MixInv, NEW c \in Conns, Emit(c)
  PROVE  UNCHANGED Mixer!kvars /\ HandsApart'
<1>0. /\ pc \in [Conns -> Holding \cup {"new", "valid", "done"}]
      /\ inHand \in [Conns -> SUBSET Conns] /\ HandsApart
  BY DEF MixInv, TypeOK
<1>1. /\ c \in InHands /\ InHands' = InHands \ {c} /\ Reportable' = Reportable
      /\ emitted' = emitted \cup {inHand[c]}
      /\ \A d \in InHands \ {c} : inHand'[d] = inHand[d]
  BY <1>0 DEF Emit, InHands, Reportable
<1>2. Pool' = Pool
  BY <1>1 DEF Pool, InHands
<1>3. HandsApart'
  BY <1>0, <1>1 DEF HandsApart
<1> QED BY <1>1, <1>2, <1>3 DEF Emit, Mixer!kvars

\* Every step of the agent is one of KAnonymity, or a stutter.
LEMMA AgentMixes ==
  MixInv /\ [Next]_vars => [Mixer!KNext]_(Mixer!kvars) /\ HandsApart'
<1> SUFFICES ASSUME MixInv, [Next]_vars
             PROVE  [Mixer!KNext]_(Mixer!kvars) /\ HandsApart'
  OBVIOUS
<1>0. /\ pc \in [Conns -> Holding \cup {"new", "valid", "done"}]
      /\ inHand \in [Conns -> SUBSET Conns] /\ HandsApart
  BY DEF MixInv, TypeOK
<1>1. CASE UNCHANGED <<pc, batchVars>>
  <2>1. Pool' = Pool /\ Reportable' = Reportable /\ InHands' = InHands
    BY <1>1 DEF Pool, Reportable, InHands, batchVars
  <2> QED BY <1>0, <1>1, <2>1 DEF Mixer!kvars, HandsApart, batchVars
<1>2. ASSUME NEW c \in Conns, NEW k \in Clients, Admit(c, k)
      PROVE  [Mixer!KNext]_(Mixer!kvars) /\ HandsApart'
  <2>1. c \in Reportable /\ pc[c] # "emitting"
    BY <1>2 DEF Admit, Reportable
  <2>2. PICK v \in {"valid", "done"} : pc' = [pc EXCEPT ![c] = v]
    BY <1>2 DEF Admit, Answer
  <2> QED BY <1>2, <2>1, <2>2, QuietStep DEF Admit, batchVars, Mixer!KNext
<1>3. ASSUME NEW c \in Conns, Acquire(c) \/ StartProbe(c) \/ Respond(c)
      PROVE  [Mixer!KNext]_(Mixer!kvars) /\ HandsApart'
  <2>1. pc[c] # "emitting" /\ UNCHANGED batchVars
    BY <1>3 DEF Acquire, StartProbe, Respond
  <2>2. PICK v \in {"permitted", "probing", "done"} :
          pc' = [pc EXCEPT ![c] = v] /\ (v # "done" => c \in Reportable)
    BY <1>3 DEF Acquire, StartProbe, Respond, Unconsented, Answer, Reportable
  <2> QED BY <2>1, <2>2, QuietStep DEF batchVars, Mixer!KNext
<1>4. ASSUME NEW c \in Conns, Submit(c)
      PROVE  [Mixer!KNext]_(Mixer!kvars) /\ HandsApart'
  BY <1>4, SubmitMixes DEF Mixer!KNext
<1>5. ASSUME NEW c \in Conns, Emit(c)
      PROVE  [Mixer!KNext]_(Mixer!kvars) /\ HandsApart'
  BY <1>5, EmitMixes
<1>6. CASE TakeEmitted
  <2>1. /\ Reportable' = Reportable /\ InHands' = InHands /\ inHand' = inHand
        /\ held' = held /\ taken' = taken \cup emitted /\ emitted' = {}
    BY <1>6 DEF TakeEmitted, EmittedAfterTake, Reportable, InHands
  <2>2. Pool' = Pool \ emitted /\ emitted \subseteq Pool
    BY <1>0, <2>1 DEF Pool, InHands, HandsApart
  <2>3. Mixer!KDrain(emitted)
    BY <2>1, <2>2 DEF Mixer!KDrain
  <2>4. HandsApart'
    BY <1>0, <2>1 DEF HandsApart
  <2> QED BY <2>2, <2>3, <2>4 DEF Mixer!KNext
<1>7. CASE Restart
  <2>1. pc' = [c \in Conns |-> IF pc[c] = "new" THEN "new" ELSE "done"]
    BY <1>7 DEF Restart
  <2>2. InHands' = {} /\ Reportable' \subseteq Reportable
    BY <2>1 DEF InHands, Reportable
  <2>3. Pool' = {} /\ held' = {} /\ taken' = taken
    BY <1>7, <2>2 DEF Restart, Pool, InHands
  <2>4. PICK gone \in SUBSET Reportable : Reportable' = Reportable \ gone
    BY <2>2
  <2>5. Mixer!KStop(gone)
    BY <2>3, <2>4 DEF Mixer!KStop
  <2>6. HandsApart'
    BY <2>2 DEF HandsApart
  <2> QED BY <2>5, <2>6 DEF Mixer!KNext
<1> QED BY <1>1, <1>2, <1>3, <1>4, <1>5, <1>6, <1>7
        DEF Next, Serve, GrantConsent, Tick, vars

LEMMA MixInvariant == Spec => []MixInv
<1>1. Init => Mixed /\ HandsApart
  BY DEF Init, Mixed, Anonymous, OnceOnly, Mixer!Anonymous, Mixer!OnceOnly,
         HandsApart, InHands, Pool
<1>2. TypeOK /\ TypeOK' /\ Mixed /\ HandsApart /\ [Next]_vars
      => Mixed' /\ HandsApart'
  BY AgentMixes, MixerStep DEF MixInv
<1>3. MixInv <=> TypeOK /\ Mixed /\ HandsApart
  BY DEF MixInv
<1> QED BY <1>1, <1>2, <1>3, TypeCorrect, PTL DEF Spec

\* The agent implements the batcher its volunteers are promised.
THEOREM MixesReportsHolds == Spec => MixesReports
<1>1. Init => Mixer!KInit
  BY DEF Init, Mixer!KInit, Reportable, Pool
<1>2. MixInv /\ [Next]_vars => [Mixer!KNext]_(Mixer!kvars)
  BY AgentMixes
<1> QED BY <1>1, <1>2, MixInvariant, PTL DEF Spec, MixesReports, Mixer!KSpec

\* No batch has fewer than K reports.
THEOREM AnonymousHolds == Spec => []Anonymous
<1>1. MixInv => Anonymous
  BY DEF MixInv, Mixed
<1> QED BY <1>1, MixInvariant, PTL

\* No report leaves twice.
THEOREM OnceOnlyHolds == Spec => []OnceOnly
<1>1. MixInv => OnceOnly
  BY DEF MixInv, Mixed
<1> QED BY <1>1, MixInvariant, PTL
-----------------------------------------------------------------------------
(* Sums.  SumOver is a recursive function, so its equation, its type and   *)
(* what a change of one summand does to it are inductions: on intervals,   *)
(* from the least element of a set of naturals.                            *)

LEMMA NatOrder ==
  \E R : IsWellFoundedOn(R, Nat) /\ \A n, m \in Nat : <<n, m>> \in R <=> n < m
<1>1. \A n, m \in Nat : <<n, m>> \in OpToRel(<, Nat) <=> n < m
  BY DEF OpToRel
<1> QED BY <1>1, NatLessThanWellFounded

LEMMA LeastElement ==
  ASSUME NEW S \in SUBSET Nat, S # {}
  PROVE  \E m \in S : \A n \in S : m <= n
<1>0. S \subseteq Nat
  OBVIOUS
<1>1. PICK R : IsWellFoundedOn(R, Nat) /\ \A n, m \in Nat : <<n, m>> \in R <=> n < m
  BY NatOrder
<1>2. \E m \in S : \A n \in S : ~(<<n, m>> \in R)
  <2>1. IsWellFoundedOn(R, Nat)
    BY <1>1
  <2> QED BY <1>0, <2>1, WFMin, Zenon
<1>3. PICK m \in S : \A n \in S : ~(<<n, m>> \in R)
  BY <1>2
<1>4. ASSUME NEW n \in S PROVE m <= n
  <2>1. n \in Nat /\ m \in Nat /\ ~(<<n, m>> \in R)
    BY <1>0, <1>3
  <2>2. ~(n < m)
    BY <1>1, <2>1
  <2> QED BY <2>1, <2>2
<1> QED BY <1>4

\* Induction along an interval, for a set of indices.
LEMMA IntervalInduction ==
  ASSUME NEW i \in Int, NEW j \in Int, NEW G, i - 1 \in G,
         \A n \in i..j : n - 1 \in G => n \in G
  PROVE  (i - 1)..j \subseteq G
<1> DEFINE T == {n \in Nat : i - 1 + n <= j /\ i - 1 + n \notin G}
<1>1. CASE T = {}
  <2>1. ASSUME NEW n \in (i - 1)..j PROVE n \in G
    <3>1. n - i + 1 \in Nat /\ i - 1 + (n - i + 1) = n /\ n <= j
      OBVIOUS
    <3>2. n - i + 1 \notin T
      BY <1>1
    <3> QED BY <3>1, <3>2
  <2> QED BY <2>1
<1>2. CASE T # {}
  <2>1. PICK m \in T : \A n \in T : m <= n
    BY <1>2, LeastElement
  <2>2. m # 0
    BY <2>1
  <2>3. m - 1 \in Nat /\ m - 1 \notin T
    BY <2>1, <2>2
  <2>4. i - 1 + m \in i..j /\ (i - 1 + m) - 1 \in G
    BY <2>2, <2>3
  <2> QED BY <2>4
<1> QED BY <1>1, <1>2

\* g[n] is the sum of f over i..n, up to j.
IsSum(g, f, i, j) ==
  g = [n \in (i - 1)..j |-> IF n < i THEN 0 ELSE g[n - 1] + f[n]]

LEMMA IsSumStep ==
  ASSUME NEW f, NEW i \in Int, NEW j \in Int, NEW g, IsSum(g, f, i, j)
  PROVE  /\ j >= i - 1 => g[i - 1] = 0
         /\ \A n \in i..j : g[n] = g[n - 1] + f[n]
<1>1. \A n \in (i - 1)..j : g[n] = IF n < i THEN 0 ELSE g[n - 1] + f[n]
  BY DEF IsSum
<1> QED BY <1>1

LEMMA SumExists ==
  ASSUME NEW f, NEW i \in Int, NEW j \in Int, i <= j
  PROVE  \E g : IsSum(g, f, i, j)
<1> DEFINE G == {n \in (i - 1)..j : \E g : IsSum(g, f, i, n)}
<1>1. i - 1 \in G
  <2>1. IsSum([n \in (i - 1)..(i - 1) |-> 0], f, i, i - 1)
    BY DEF IsSum
  <2> QED BY <2>1
<1>2. ASSUME NEW m \in i..j, m - 1 \in G PROVE m \in G
  <2>1. PICK g : IsSum(g, f, i, m - 1)
    BY <1>2
  <2> DEFINE h == [n \in (i - 1)..m |-> IF n < m THEN g[n] ELSE g[n - 1] + f[n]]
  <2>2. \A n \in (i - 1)..(m - 1) : g[n] = IF n < i THEN 0 ELSE g[n - 1] + f[n]
    BY <2>1 DEF IsSum
  <2>3. \A n \in (i - 1)..m : h[n] = IF n < i THEN 0 ELSE h[n - 1] + f[n]
    BY <2>2
  <2>4. IsSum(h, f, i, m)
    BY <2>3 DEF IsSum
  <2> QED BY <2>4
<1> HIDE DEF G
<1>3. (i - 1)..j \subseteq G
  BY <1>1, <1>2, IntervalInduction
<1>4. j \in G
  BY <1>3
<1> QED BY <1>4 DEF G

LEMMA SumDef ==
  ASSUME NEW f, NEW i \in Int, NEW j \in Int, i <= j
  PROVE  \E g : IsSum(g, f, i, j) /\ SumOver(f, i, j) = g[j]
<1> DEFINE s == CHOOSE g : IsSum(g, f, i, j)
<1>1. \E g : IsSum(g, f, i, j)
  BY SumExists
<1>2. IsSum(s, f, i, j)
  BY <1>1, Zenon
<1>3. SumOver(f, i, j) = s[j]
  BY DEF SumOver, IsSum
<1> QED BY <1>2, <1>3

\* A sum of naturals is a natural, and zero if they are.
LEMMA SumType ==
  ASSUME NEW i \in Int, NEW j \in Int, i <= j, NEW f, \A n \in i..j : f[n] \in Nat
  PROVE  /\ SumOver(f, i, j) \in Nat
         /\ (\A n \in i..j : f[n] = 0) => SumOver(f, i, j) = 0
<1>1. PICK g : IsSum(g, f, i, j) /\ SumOver(f, i, j) = g[j]
  BY SumDef
<1>2. g[i - 1] = 0 /\ \A n \in i..j : g[n] = g[n - 1] + f[n]
  BY <1>1, IsSumStep
<1> DEFINE G == {n \in (i - 1)..j : g[n] \in Nat}
           Z == {n \in (i - 1)..j : g[n] = 0}
<1>3. i - 1 \in G /\ \A n \in i..j : n - 1 \in G => n \in G
  BY <1>2
<1>4. (\A n \in i..j : f[n] = 0) => i - 1 \in Z /\ \A n \in i..j : n - 1 \in Z => n \in Z
  BY <1>2
<1> HIDE DEF G, Z
<1>5. (i - 1)..j \subseteq G /\ ((\A n \in i..j : f[n] = 0) => (i - 1)..j \subseteq Z)
  BY <1>3, <1>4, IntervalInduction
<1>6. j \in G /\ ((\A n \in i..j : f[n] = 0) => j \in Z)
  BY <1>5
<1> QED BY <1>1, <1>6 DEF G, Z

\* On i..j, h is f with one more at t.
Bumped(h, f, t, i, j) ==
  \A n \in i..j : f[n] \in Nat /\ h[n] = IF n = t THEN f[n] + 1 ELSE f[n]

\* One more at t is one more in every sum over an interval that has t.
LEMMA SumBump ==
  ASSUME NEW i \in Int, NEW j \in Int, i <= j, NEW t \in Int,
         NEW f, NEW h, Bumped(h, f, t, i, j)
  PROVE  SumOver(h, i, j) = SumOver(f, i, j) + (IF t \in i..j THEN 1 ELSE 0)
<1>1. PICK g : IsSum(g, f, i, j) /\ SumOver(f, i, j) = g[j]
  BY SumDef
<1>2. PICK b : IsSum(b, h, i, j) /\ SumOver(h, i, j) = b[j]
  BY SumDef
<1>3. /\ g[i - 1] = 0 /\ \A n \in i..j : g[n] = g[n - 1] + f[n]
      /\ b[i - 1] = 0 /\ \A n \in i..j : b[n] = b[n - 1] + h[n]
  BY <1>1, <1>2, IsSumStep
<1> DEFINE Up(n) == IF t \in i..n THEN 1 ELSE 0
           G == {n \in (i - 1)..j : g[n] \in Nat /\ b[n] = g[n] + Up(n)}
<1>4. i - 1 \in G
  BY <1>3
<1>5. ASSUME NEW n \in i..j, n - 1 \in G PROVE n \in G
  <2>1. g[n] = g[n - 1] + f[n] /\ b[n] = b[n - 1] + h[n]
    BY <1>3
  <2>2. f[n] \in Nat /\ h[n] = IF n = t THEN f[n] + 1 ELSE f[n]
    BY DEF Bumped
  <2>3. g[n - 1] \in Nat /\ b[n - 1] = g[n - 1] + Up(n - 1)
    BY <1>5
  <2>4. Up(n) = IF n = t THEN Up(n - 1) + 1 ELSE Up(n - 1)
    OBVIOUS
  <2>5. Up(n - 1) \in Nat
    OBVIOUS
  <2> HIDE DEF Up
  <2> QED BY <2>1, <2>2, <2>3, <2>4, <2>5
<1> HIDE DEF G
<1>6. (i - 1)..j \subseteq G
  BY <1>4, <1>5, IntervalInduction
<1>7. j \in G
  BY <1>6
<1> QED BY <1>1, <1>2, <1>7 DEF G

-----------------------------------------------------------------------------
(* The rate of a client.                                                   *)

\* Nothing was spent in a tick to come.
NothingAhead ==
  \A k \in Clients : \A t \in 0..MaxTime : t > now => spent[k][t] = 0

\* What a client has spent since i and what its bucket still holds are
\* together no more than a burst and the refills since i.
BucketCovers ==
  \A k \in Clients : \A i, j \in 0..MaxTime :
    i <= now /\ now <= j => SpentIn(k, i, j) + tokens[k] <= Burst + Rate * (now - i)

RateInv == RateRespected /\ NothingAhead /\ BucketCovers

LEMMA SpentType ==
  ASSUME TypeOK, NEW k \in Clients, NEW i \in 0..MaxTime, NEW j \in 0..MaxTime, i <= j
  PROVE  SpentIn(k, i, j) \in Nat
<1>1. \A n \in i..j : spent[k][n] \in Nat
  BY AgentAssumption DEF TypeOK, AgentAssumption
<1>2. i \in Int /\ j \in Int
  OBVIOUS
<1>3. SumOver(spent[k], i, j) \in Nat
  BY <1>1, <1>2, SumType
<1> QED BY <1>3 DEF SpentIn

LEMMA SpentAhead ==
  ASSUME TypeOK, NothingAhead, NEW k \in Clients,
         NEW i \in 0..MaxTime, NEW j \in 0..MaxTime, i <= j, now < i
  PROVE  SpentIn(k, i, j) = 0
<1>1. \A n \in i..j : spent[k][n] = 0
  BY AgentAssumption DEF TypeOK, NothingAhead, AgentAssumption
<1>2. \A n \in i..j : spent[k][n] \in Nat
  BY <1>1
<1> QED BY <1>1, <1>2, SumType DEF SpentIn

\* A step that spends nothing and fills no bucket keeps the invariant.
LEMMA RateQuiet ==
  ASSUME RateInv, UNCHANGED <<tokens, spent, now>>
  PROVE  RateInv'
BY DEF RateInv, RateRespected, NothingAhead, BucketCovers, SpentIn

\* The refills of a longer window are at least those of a shorter one.
LEMMA Refills ==
  /\ \A d \in Nat : Rate * d \in Nat /\ Rate * (d + 1) = Rate * d + Rate
  /\ \A d, e \in Nat : d <= e => Rate * d <= Rate * e
BY AgentAssumption DEF AgentAssumption

\* A request let through takes a token and is spent in the present tick.
LEMMA RateSpend ==
  ASSUME TypeOK, RateInv, NEW c \in Clients, tokens[c] > 0, UNCHANGED now,
         tokens' = [tokens EXCEPT ![c] = @ - 1],
         spent' = [spent EXCEPT ![c][now] = @ + 1]
  PROVE  RateInv'
<1>0. /\ tokens \in [Clients -> 0..Burst] /\ now \in 0..MaxTime /\ MaxTime \in Nat
      /\ spent \in [Clients -> [0..MaxTime -> Nat]] /\ Burst \in Nat
  BY AgentAssumption DEF TypeOK, AgentAssumption
<1>1. ASSUME NEW k \in Clients, NEW i \in 0..MaxTime, NEW j \in 0..MaxTime, i <= j
      PROVE  /\ SpentIn(k, i, j)' = SpentIn(k, i, j)
                   + (IF k = c /\ i <= now /\ now <= j THEN 1 ELSE 0)
             /\ tokens'[k] = IF k = c THEN tokens[k] - 1 ELSE tokens[k]
             /\ tokens[k] \in Nat /\ SpentIn(k, i, j) \in Nat
  <2>1. CASE k = c
    <3>0. spent[k] \in [0..MaxTime -> Nat] /\ spent'[k] = [spent[k] EXCEPT ![now] = @ + 1]
      BY <1>0, <2>1
    <3>a. \A n \in i..j : n \in 0..MaxTime
      BY <1>0
    <3>1. \A n \in i..j : spent[k][n] \in Nat
      BY <3>0, <3>a
    <3>2. \A n \in i..j : spent'[k][n] = IF n = now THEN spent[k][n] + 1 ELSE spent[k][n]
      BY <3>0, <3>a
    <3>3. i \in Int /\ j \in Int /\ now \in Int
      BY <1>0
    <3>4. SumOver(spent'[k], i, j) = SumOver(spent[k], i, j)
                                       + (IF now \in i..j THEN 1 ELSE 0)
      <4>1. Bumped(spent'[k], spent[k], now, i, j)
        BY <3>1, <3>2 DEF Bumped
      <4> QED BY <1>1, <3>3, <4>1, SumBump
    <3>5. now \in i..j <=> i <= now /\ now <= j
      BY <1>0
    <3>6. tokens'[k] = tokens[k] - 1 /\ tokens[k] \in Nat
      BY <1>0, <2>1
    <3>7. SpentIn(k, i, j) \in Nat
      BY <1>1, SpentType
    <3> QED BY <2>1, <3>4, <3>5, <3>6, <3>7 DEF SpentIn
  <2>2. CASE k # c
    <3>1. spent'[k] = spent[k] /\ tokens'[k] = tokens[k] /\ tokens[k] \in Nat
      BY <1>0, <2>2
    <3>2. SpentIn(k, i, j) \in Nat
      BY <1>1, SpentType
    <3> QED BY <2>2, <3>1, <3>2 DEF SpentIn
  <2> QED BY <2>1, <2>2
<1>2. RateRespected'
  <2> SUFFICES ASSUME NEW k \in Clients, NEW i \in 0..MaxTime, NEW j \in 0..MaxTime, i <= j
               PROVE  SpentIn(k, i, j)' <= Burst + Rate * (j - i)
    BY DEF RateRespected
  <2>1. SpentIn(k, i, j) <= Burst + Rate * (j - i)
    BY DEF RateInv, RateRespected
  <2>2. CASE k = c /\ i <= now /\ now <= j
    <3>1. SpentIn(k, i, j) + tokens[k] <= Burst + Rate * (now - i)
      BY <2>2 DEF RateInv, BucketCovers
    <3>2. Rate * (now - i) <= Rate * (j - i) /\ Rate * (now - i) \in Nat
          /\ Rate * (j - i) \in Nat
      <4>1. now - i \in Nat /\ j - i \in Nat /\ now - i <= j - i
        BY <1>0, <2>2
      <4> QED BY <4>1, Refills
    <3>3. SpentIn(k, i, j)' = SpentIn(k, i, j) + 1 /\ tokens[k] \in Nat
          /\ SpentIn(k, i, j) \in Nat
      BY <1>1, <2>2
    <3>4. tokens[k] >= 1 /\ Burst \in Nat
      BY <1>0, <2>2, <3>3
    <3> HIDE DEF SpentIn
    <3> QED BY <3>1, <3>2, <3>3, <3>4
  <2>3. CASE ~(k = c /\ i <= now /\ now <= j)
    BY <1>1, <2>1, <2>3
  <2> QED BY <2>2, <2>3
<1>3. NothingAhead'
  BY <1>0 DEF RateInv, NothingAhead
<1>4. BucketCovers'
  <2> SUFFICES ASSUME NEW k \in Clients, NEW i \in 0..MaxTime, NEW j \in 0..MaxTime,
                      i <= now, now <= j
               PROVE  SpentIn(k, i, j)' + tokens'[k] <= Burst + Rate * (now - i)
    BY DEF BucketCovers
  <2>1. SpentIn(k, i, j) + tokens[k] <= Burst + Rate * (now - i)
    BY DEF RateInv, BucketCovers
  <2>2. SpentIn(k, i, j)' + tokens'[k] = SpentIn(k, i, j) + tokens[k]
    <3>1. i <= j
      BY <1>0
    <3>2. /\ SpentIn(k, i, j)' = SpentIn(k, i, j) + (IF k = c THEN 1 ELSE 0)
          /\ tokens'[k] = IF k = c THEN tokens[k] - 1 ELSE tokens[k]
          /\ tokens[k] \in Nat /\ SpentIn(k, i, j) \in Nat
      BY <1>1, <3>1
    <3> QED BY <3>2
  <2> QED BY <2>1, <2>2
<1> QED BY <1>2, <1>3, <1>4 DEF RateInv

\* A tick refills the buckets, and nothing was spent in the new tick yet.
LEMMA RateTick ==
  ASSUME TypeOK, RateInv, Tick
  PROVE  RateInv'
<1>0. /\ tokens \in [Clients -> 0..Burst] /\ now \in 0..MaxTime /\ MaxTime \in Nat
      /\ Burst \in Nat /\ Rate \in Nat /\ now' = now + 1 /\ spent' = spent
  BY AgentAssumption DEF TypeOK, AgentAssumption, Tick
<1>1. \A k \in Clients : /\ tokens'[k] <= tokens[k] + Rate /\ tokens'[k] <= Burst
                         /\ tokens[k] \in Nat /\ tokens'[k] \in Nat
  BY <1>0 DEF Tick, Refill
<1>2. RateRespected'
  BY <1>0 DEF RateInv, RateRespected, SpentIn
<1>3. NothingAhead'
  BY <1>0 DEF RateInv, NothingAhead
<1>4. BucketCovers'
  <2> SUFFICES ASSUME NEW k \in Clients, NEW i \in 0..MaxTime, NEW j \in 0..MaxTime,
                      i <= now + 1, now + 1 <= j
               PROVE  SpentIn(k, i, j) + tokens'[k] <= Burst + Rate * (now + 1 - i)
    BY <1>0 DEF BucketCovers, SpentIn
  <2>0. SpentIn(k, i, j) \in Nat
    BY <1>0, SpentType
  <2>1. CASE i <= now
    <3>1. SpentIn(k, i, j) + tokens[k] <= Burst + Rate * (now - i)
      BY <1>0, <2>1 DEF RateInv, BucketCovers
    <3>2. now - i \in Nat /\ now + 1 - i = (now - i) + 1
      BY <1>0, <2>1
    <3>3. Rate * (now + 1 - i) = Rate * (now - i) + Rate /\ Rate * (now - i) \in Nat
      BY <3>2, Refills
    <3> QED BY <1>0, <1>1, <2>0, <3>1, <3>3
  <2>2. CASE i = now + 1
    <3>1. SpentIn(k, i, j) = 0
      BY <1>0, <2>2, SpentAhead DEF RateInv
    <3>2. Rate * (now + 1 - i) = 0
      BY <1>0, <2>2
    <3> QED BY <1>0, <1>1, <3>1, <3>2
  <2> QED BY <1>0, <2>1, <2>2
<1> QED BY <1>2, <1>3, <1>4 DEF RateInv

\* Fresh buckets and a clean record: a start, or a restart.
Fresh ==
  /\ tokens = [k \in Clients |-> Burst] /\ now \in 0..MaxTime
  /\ spent = [k \in Clients |-> [t \in 0..MaxTime |-> 0]]

LEMMA RateFresh == Fresh => RateInv
<1> SUFFICES ASSUME Fresh PROVE RateInv
  OBVIOUS
<1>0. Burst \in Nat /\ MaxTime \in Nat /\ now \in 0..MaxTime
      /\ tokens = [k \in Clients |-> Burst]
  BY AgentAssumption DEF AgentAssumption, Fresh
<1>1. ASSUME NEW k \in Clients, NEW i \in 0..MaxTime, NEW j \in 0..MaxTime, i <= j
      PROVE  SpentIn(k, i, j) = 0 /\ Rate * (j - i) \in Nat
  <2>0. spent[k] = [t \in 0..MaxTime |-> 0] /\ \A n \in i..j : n \in 0..MaxTime
    BY <1>0 DEF Fresh
  <2>1. \A n \in i..j : spent[k][n] = 0
    BY <2>0
  <2>2. \A n \in i..j : spent[k][n] \in Nat
    BY <2>1
  <2>3. i \in Int /\ j \in Int /\ j - i \in Nat
    BY <1>0, <1>1
  <2>4. SumOver(spent[k], i, j) = 0
    BY <1>1, <2>1, <2>2, <2>3, SumType
  <2> QED BY <2>3, <2>4, Refills DEF SpentIn
<1>2. RateRespected
  BY <1>0, <1>1 DEF RateRespected
<1>3. NothingAhead
  BY DEF NothingAhead, Fresh
<1>4. BucketCovers
  <2> SUFFICES ASSUME NEW k \in Clients, NEW i \in 0..MaxTime, NEW j \in 0..MaxTime,
                      i <= now, now <= j
               PROVE  SpentIn(k, i, j) + tokens[k] <= Burst + Rate * (now - i)
    BY DEF BucketCovers
  <2>1. SpentIn(k, i, j) = 0 /\ Rate * (now - i) \in Nat
    BY <1>0, <1>1
  <2> QED BY <1>0, <2>1
<1> QED BY <1>2, <1>3, <1>4 DEF RateInv

LEMMA NextRate == TypeOK /\ RateInv /\ [Next]_vars => RateInv'
<1> SUFFICES ASSUME TypeOK, RateInv, [Next]_vars PROVE RateInv'
  OBVIOUS
<1>1. CASE UNCHANGED <<limitVars, now>>
  BY <1>1, RateQuiet DEF limitVars
<1>2. ASSUME NEW c \in Conns, NEW k \in Clients, Admit(c, k) PROVE RateInv'
  <2>1. CASE UNCHANGED limitVars
    BY <1>2, <2>1, <1>1 DEF Admit
  <2>2. CASE tokens[k] > 0 /\ tokens' = [tokens EXCEPT ![k] = @ - 1]
             /\ spent' = [spent EXCEPT ![k][now] = @ + 1]
    BY <1>2, <2>2, RateSpend DEF Admit
  <2> QED BY <1>2, <2>1, <2>2 DEF Admit
<1>3. CASE Tick
  BY <1>3, RateTick
<1>4. CASE Restart
  <2>1. Fresh'
    BY <1>4 DEF Restart, TypeOK, Fresh
  <2> QED BY <2>1, RateFresh, PTL
<1> QED BY <1>1, <1>2, <1>3, <1>4
        DEF Next, Serve, GrantConsent, Acquire, StartProbe, Submit, Emit, Respond,
            TakeEmitted, vars

\* In no window of ticks does a client get more requests through than a
\* burst and the refills of the window (RateLimiter::check).
THEOREM RateRespectedHolds == Spec => []RateRespected
<1>1. Init => RateInv
  BY RateFresh, AgentAssumption DEF Init, AgentAssumption, Fresh
<1>2. RateInv => RateRespected
  BY DEF RateInv
<1> QED BY <1>1, <1>2, NextRate, TypeCorrect, PTL DEF Spec
=============================================================================

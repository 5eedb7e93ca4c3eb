------------------------------ MODULE KAnonymity ------------------------------
(***************************************************************************)
(* What volunteers are promised about their reports: a report is withheld  *)
(* until K of them are held, leaves in a batch of at least K, once, and    *)
(* is otherwise lost with the process.  This is the batcher of             *)
(* crates/k-anonymity (batcher.rs), whose `submit` is one step, together   *)
(* with the batches waiting for the upstream transport.                    *)
(***************************************************************************)
EXTENDS Integers, FiniteSets

CONSTANTS
  Reports,  \* a finite set
  K         \* the threshold, at least 1

VARIABLES
  fresh,     \* reports not made yet
  withheld,  \* reports below the threshold
  pool,      \* batches emitted and not drained
  upstream   \* batches handed to the transport

kvars == <<fresh, withheld, pool, upstream>>

KInit == fresh = Reports /\ withheld = {} /\ pool = {} /\ upstream = {}

\* submit: the K-th report releases all that are held.
KSubmit(r) ==
  LET all == withheld \cup {r} IN
  /\ r \in fresh /\ fresh' = fresh \ {r}
  /\ IF Cardinality(all) >= K
     THEN withheld' = {} /\ pool' = pool \cup {all}
     ELSE withheld' = all /\ pool' = pool
  /\ UNCHANGED upstream

\* The transport drains some of the batches.
KDrain(D) ==
  /\ D \subseteq pool
  /\ pool' = pool \ D /\ upstream' = upstream \cup D
  /\ UNCHANGED <<fresh, withheld>>

\* Requests are refused: they make no report.
KDecline(gone) ==
  /\ gone \subseteq fresh /\ fresh' = fresh \ gone
  /\ UNCHANGED <<withheld, pool, upstream>>

\* The process stops: nothing is persisted, and reports not made yet by the
\* requests under way never will be.
KStop(gone) ==
  /\ gone \subseteq fresh /\ fresh' = fresh \ gone
  /\ withheld' = {} /\ pool' = {}
  /\ UNCHANGED upstream

KNext ==
  \/ \E r \in Reports : KSubmit(r)
  \/ \E D \in SUBSET pool : KDrain(D)
  \/ \E gone \in SUBSET fresh : KDecline(gone) \/ KStop(gone)

KSpec == KInit /\ [][KNext]_kvars

-----------------------------------------------------------------------------
\* Nothing leaves singly: every batch has at least K reports.
Anonymous == \A B \in pool \cup upstream : Cardinality(B) >= K

\* No report is in two batches, or both withheld and in a batch.
OnceOnly ==
  /\ \A B, C \in pool \cup upstream : B # C => B \cap C = {}
  /\ \A B \in pool \cup upstream : B \cap (withheld \cup fresh) = {}
  /\ withheld \cap fresh = {}
  /\ pool \cap upstream = {}
=============================================================================

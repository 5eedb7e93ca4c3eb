---------------------------- MODULE MCMainBranch ----------------------------
EXTENDS MainBranch, TLC

\* Every bot has a group of its own; scheduled and pushed hourly runs differ.
OwnGroups ==
  [r \in Runs |-> IF r \in AutofillRuns THEN "autofill"
                  ELSE IF r \in FusionRuns THEN "fusion"
                  ELSE IF r \in VantageRuns THEN "vantage" ELSE r]

\* The vantage runs share a group and are told apart by nothing else.
VantageSymmetry == Permutations(VantageRuns)
=============================================================================

------------------------------ MODULE MCProbeEngine ------------------------------
EXTENDS ProbeEngine

\* Two lists of one transport: their lines behind one front, one with a
\* literal endpoint and one the guard rejects.
TwoLists ==
  [l \in Lists |-> IF l = "ipv4" THEN <<"a", "b", "c">> ELSE <<"d", "e">>]
OneTransport == [l \in Lists |-> "snowflake"]
Front1 == [x \in {"a", "b", "c", "d", "e"} |-> IF x = "e" THEN "none" ELSE "f"]
=============================================================================

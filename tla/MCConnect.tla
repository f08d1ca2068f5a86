------------------------------ MODULE MCConnect ------------------------------
\* Connect with three nodes, one for each set of transports, that contend for
\* two places in the list; two rank the same, and one changes its rank.
EXTENDS Connect
CONSTANTS a, b, c

MCNodes == {a, b, c}
MCTransports == a :> {"tcp"} @@ b :> {"udp", "tcp"} @@ c :> {"udp"}
MCAnswers ==
  {[node |-> a, pv |-> 1, priority |-> 1], [node |-> b, pv |-> 1, priority |-> 0],
   [node |-> b, pv |-> 1, priority |-> 1], [node |-> c, pv |-> 0, priority |-> 0]}

\* Over UDP hanging is failing.
MCNatures ==
  {n \in [MCNodes -> {"accepts", "fails", "refuses", "hangs"}] : n[c] # "hangs"}
=============================================================================

----------------------------- MODULE MCDurable -----------------------------
(* A small instance of DurableServer.  The requests of a behaviour are two    *)
(* writes and a read, two writes of which one is sent again, or two writes    *)
(* and a checkpoint; the second starts with one crash less.                   *)
EXTENDS DurableServer

CONSTANTS w1, w2, rd, ck

MCWrite == {w1, w2}

Scenario(once, twice, used) ==
  [tries |-> [q \in Request |-> IF q \in twice THEN 0 ELSE IF q \in once THEN 1 ELSE 2],
   crashes |-> used]

MCSpent ==
  {Scenario({w1, w2, rd}, {}, 0), Scenario({w2}, {w1}, 1), Scenario({w1, w2, ck}, {}, 0)}
=============================================================================

---------------------------- MODULE MCReadModels ----------------------------
(* Values of the constants of ReadModels for TLC. *)
EXTENDS ReadModels

MCRuns == {"r1", "r2", "r3"}

G(agent, version, workload) == [agent |-> agent, version |-> version, workload |-> workload]

\* A run that a second summary gives to another agent, one that loses its version
\* and workload by it, and one of a version without a workload.
MCGroupsOf ==
  "r1" :> {G(1, 1, 1), G(2, 1, 1)} @@ "r2" :> {G(1, 1, 1), G(1, 3, 3)}
  @@ "r3" :> {G(1, 2, 3)}

\* The materializers and a client share nothing but the tables, which they read
\* (each inserts rows of its own): each of them is explored without the others.
MCInit ==
  /\ Init
  /\ Cardinality({m \in Materializers : cycle[m] # Down}) = IF client = NoClient THEN 1 ELSE 0

MCSpec == MCInit /\ [][Next]_vars /\ Fairness
=============================================================================

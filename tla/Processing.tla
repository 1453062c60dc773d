----------------------------- MODULE Processing ------------------------------
(***************************************************************************)
(* What the polling worker promises of the runs of an agent, whatever it   *)
(* takes to get there: one run is worked on at a time; it is recorded once *)
(* and never again; a type of anomaly is stored for it at most once, and   *)
(* only while it is worked on; and when it is done, what its report calls  *)
(* for is stored.  A run that is not done so was cut short by a fault, and *)
(* stays cut short.                                                        *)
(***************************************************************************)
EXTENDS Naturals

CONSTANTS
  Runs,     \* run ids
  Reports,  \* what may be recorded of a run
  Demand,   \* report -> types of anomalies it calls for
  Types,    \* types of anomalies
  None      \* nothing recorded yet

VARIABLES
  report,   \* run -> what is recorded of it
  phase,    \* run -> "unseen", "detecting", "done" or "cut"
  stored    \* run -> types of anomalies stored for it

vars == <<report, phase, stored>>

Init ==
  /\ report = [r \in Runs |-> None]
  /\ phase = [r \in Runs |-> "unseen"]
  /\ stored = [r \in Runs |-> {}]

Detecting == {r \in Runs : phase[r] = "detecting"}

\* The run is recorded; a fault may cut it short in the same moment.
Record(r, s) ==
  /\ phase[r] = "unseen"
  /\ Detecting = {}
  /\ report' = [report EXCEPT ![r] = s]
  /\ \E ph \in {"detecting", "cut"} : phase' = [phase EXCEPT ![r] = ph]
  /\ UNCHANGED stored

Store(r, ty) ==
  /\ phase[r] = "detecting"
  /\ ty \notin stored[r]
  /\ stored' = [stored EXCEPT ![r] = @ \cup {ty}]
  /\ UNCHANGED <<report, phase>>

Finish(r) ==
  /\ phase[r] = "detecting"
  /\ Demand[report[r]] \subseteq stored[r]
  /\ phase' = [phase EXCEPT ![r] = "done"]
  /\ UNCHANGED <<report, stored>>

Cut(r) ==
  /\ phase[r] = "detecting"
  /\ phase' = [phase EXCEPT ![r] = "cut"]
  /\ UNCHANGED <<report, stored>>

Leave == \E r \in Runs : Finish(r) \/ Cut(r)

Next ==
  \/ \E r \in Runs, s \in Reports : Record(r, s)
  \/ \E r \in Runs, ty \in Types : Store(r, ty)
  \/ Leave

Safety == Init /\ [][Next]_vars

\* A run that is worked on is left sooner or later, done or cut short.
Fairness == WF_vars(Leave)

Spec == Safety /\ Fairness
=============================================================================

-------------------------- MODULE MCAnalyticsWorker --------------------------
(* Values of the constants of AnalyticsWorker for TLC. *)
EXTENDS AnalyticsWorker

\* t1 carries a run id; t2 carries none and is known by its trace id.
MCRunAttr == [t \in Traces |-> IF t = "t1" THEN "r1" ELSE t]

\* The two traces belong to one run: t1 carries no run id and is known by its
\* trace id, complete or not, and t2 names the run by it.
MCSharedRun == [t \in Traces |-> "t1"]

\* t1 has spans of both services, so both fetches return it.
MCServicesOf ==
  [t \in Traces |-> IF t = "t1" THEN Services ELSE {"triage"}]

\* The complete t1 shows a loop and a retry storm, all else a loop at most.
MCHits ==
  [s \in Snapshots |->
     CASE s.trace = "t1" /\ s.stage = "complete" -> {"loop", "retry_storm"}
       [] s.trace = "t1" /\ s.stage = "partial"  -> {}
       [] OTHER                                  -> {"loop"}]
=============================================================================

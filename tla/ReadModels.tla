------------------------------ MODULE ReadModels ------------------------------
(***************************************************************************)
(* What the stored runs and anomalies are turned into for their readers:   *)
(* the rollups that the analytics worker materializes at the end of a      *)
(* cycle, and the materialize command when it is called (materializer.py), *)
(* and the answers of the query API (routes.py, queries.py), which         *)
(* aggregates the same tables anew for every request.                      *)
(*                                                                         *)
(* Runs and anomalies are stored by other processes at any time.  A step   *)
(* is one database statement; none of the readers takes a transaction.     *)
(* Names are numbers in the order the database collates them, with NULL    *)
(* last.                                                                   *)
(***************************************************************************)
EXTENDS Integers, Sequences, FiniteSets, SequencesExt

CONSTANTS
  Runs,       \* the runs that may be stored
  GroupsOf,   \* the agents, versions and workloads that the summaries of a run
              \* may give it, one after the other
  Times,      \* the values of detected_at
  Worker,     \* the materializers of the worker,
  Commands,   \* and of the processes of the materialize command
  NULL,       \* the version or workload of a run that has none
  PageSize,   \* page_size, limit
  MaxWrites,  \* bound on the statements that store runs and anomalies
  MaxFaults   \* bound on the statements of the materializers that fail

Name == 1 .. NULL

ASSUME GroupAssumption ==
  /\ NULL \in Nat
  /\ GroupsOf \in [Runs -> SUBSET [agent : 1 .. NULL - 1, version : Name, workload : Name]]

\* A client that reads a timeline is at its run.
ASSUME RunsAssumption ==
  IsFiniteSet(Runs) /\ Runs \intersect {"none", "ready", "count", "rows", "done"} = {}

ASSUME BoundAssumption ==
  PageSize \in Nat \ {0} /\ Times \subseteq Nat /\ MaxWrites \in Nat /\ MaxFaults \in Nat

Materializers == {Worker} \cup Commands

VARIABLES
  status,     \* run_summaries: the status of each run that is stored,
  group,      \* and its agent, version and workload
  names,      \* history: the agents that a run was summarised under
  anomalies,  \* anomalies: run, agent name and detected_at of each
  rollups,    \* fleet_rollups: of each group the row each process inserted last
  cohorts,    \* version_cohort_summaries: the versions that have a row
  cycle,      \* where each materializer is
  client,     \* a client of the API
  writes, faults

runs  == <<status, group, names>>
store == <<runs, anomalies, writes>>
vars  == <<store, rollups, cohorts, cycle, client, faults>>

NoGroup == [agent |-> 0, version |-> 0, workload |-> 0]

AllGroups == UNION {GroupsOf[r] : r \in Runs}
Stored == {r \in Runs : status[r] # "none"}
Groups == {group[r] : r \in Stored}
RunsOf(g) == {r \in Stored : group[r] = g}
Versions == {[agent |-> g.agent, version |-> g.version] : g \in {h \in Groups : h.version # NULL}}

NoRow == [total |-> 0]

\* The anomalies of the runs rs, by their place in the table.
Own(rs) == {i \in DOMAIN anomalies : anomalies[i].run \in rs}

\* The aggregates of a GROUP BY, the anomalies not counted yet.  own is a history
\* variable: the anomalies that the runs had when they were grouped, as far as
\* they bear the agent's name.
Row(g) ==
  [group   |-> g,
   total   |-> Cardinality(RunsOf(g)),
   success |-> Cardinality({r \in RunsOf(g) : status[r] = "success"}),
   error   |-> Cardinality({r \in RunsOf(g) : status[r] = "error"}),
   counted |-> {},
   own     |-> {i \in Own(RunsOf(g)) : anomalies[i].agent = g.agent}]

(***************************************************************************)
(* Storing.  persist_run_summary inserts or updates a row, which may move  *)
(* the run to another agent, version or workload; persist_anomaly adds one *)
(* whose run is stored, under an agent name of the run, the present one or *)
(* not, with the database's time: the same for two of them, or a time      *)
(* before that of one that was there earlier.                              *)
(***************************************************************************)

\* History: of the rows in hand those that held a run that moved are not held to
\* its anomalies any more, and a client that walks the pages remembers it.
Moved(r) ==
  /\ cycle' = [m \in Materializers |->
                 [cycle[m] EXCEPT !.rows = {[row EXCEPT !.own = @ \ Own({r})] : row \in @}]]
  /\ client' = [client EXCEPT !.moved = @ \/ client.pc \in {"count", "rows", "done"}]

StoreRun(r) ==
  /\ writes < MaxWrites
  /\ \E s \in {"success", "error"} : status' = [status EXCEPT ![r] = s]
  /\ \E g \in GroupsOf[r] :
       /\ group' = [group EXCEPT ![r] = g]
       /\ names' = [names EXCEPT ![r] = @ \cup {g.agent}]
       /\ IF r \in Stored /\ group[r] # g THEN Moved(r) ELSE UNCHANGED <<cycle, client>>
  /\ writes' = writes + 1
  /\ UNCHANGED <<anomalies, rollups, cohorts, faults>>

\* A client that walks the pages remembers the groups that gained an anomaly since
\* it began (a history variable).
StoreAnomaly(r) ==
  /\ writes < MaxWrites
  /\ r \in Stored
  /\ \E a \in names[r], t \in Times :
       anomalies' = Append(anomalies, [run |-> r, agent |-> a, at |-> t])
  /\ client' = [client EXCEPT !.risen = IF client.pc \in {"count", "rows"} THEN @ \cup {group[r]} ELSE @]
  /\ writes' = writes + 1
  /\ UNCHANGED <<runs, rollups, cohorts, cycle, faults>>

(***************************************************************************)
(* A cycle: materialize_fleet_rollups groups the runs in one query, then   *)
(* counts the anomalies of each group and inserts its rollup;              *)
(* materialize_version_cohorts follows.  The worker goes through a cycle   *)
(* after each of its own, a command does once, for one agent or workload   *)
(* or for all.                                                             *)
(***************************************************************************)
Idle == [pc |-> "idle", rows |-> {}]
Down == [pc |-> "down", rows |-> {}]

\* The groups that the options select, NULL for an option that is not given.
Selected(agent, workload) ==
  {g \in Groups : agent \in {g.agent, NULL} /\ workload \in {g.workload, NULL}}

\* Faulty variant of GroupRuns: the cohorts are materialized before the fleets, and raise.
GroupRunsAfterCohorts(m, agent, workload) ==
  /\ cycle[m].pc = "idle"
  /\ cycle' = [cycle EXCEPT ![m] =
                 IF Versions # {} THEN Idle
                 ELSE [pc |-> "count", rows |-> {Row(g) : g \in Selected(agent, workload)}]]
  /\ UNCHANGED <<store, rollups, cohorts, client, faults>>

GroupRuns(m, agent, workload) ==
  /\ cycle[m].pc = "idle"
  /\ cycle' = [cycle EXCEPT ![m] =
                 [pc |-> "count", rows |-> {Row(g) : g \in Selected(agent, workload)}]]
  /\ UNCHANGED <<store, rollups, cohorts, client, faults>>

\* Faulty variant of Matches: every part is compared with =, which is not true of a NULL.
MatchesEqual(i, g) ==
  /\ anomalies[i].agent = g.agent
  /\ g.workload # NULL /\ group[anomalies[i].run].workload = g.workload
  /\ g.version # NULL /\ group[anomalies[i].run].version = g.version

\* By the agent name in the row of the anomaly, and by what its run's row says now.
\* A conjunct for the workload and one for the version are added only for a
\* group that has one.
Matches(i, g) ==
  /\ anomalies[i].agent = g.agent
  /\ g.workload # NULL => group[anomalies[i].run].workload = g.workload
  /\ g.version # NULL => group[anomalies[i].run].version = g.version

\* The row has their number; counted says which they are.
CountAnomalies(m) ==
  /\ cycle[m].pc = "count"
  /\ \E row \in cycle[m].rows :
       cycle' = [cycle EXCEPT ![m] =
                   [pc   |-> "persist",
                    rows |-> cycle[m].rows \ {row},
                    row  |-> [row EXCEPT !.counted = {i \in DOMAIN anomalies : Matches(i, row.group)}]]]
  /\ UNCHANGED <<store, rollups, cohorts, client, faults>>

\* The period of a row is the moment its cycle began: no row is in the way.
PersistRollup(m) ==
  /\ cycle[m].pc = "persist"
  /\ rollups' = [rollups EXCEPT ![m][cycle[m].row.group] = cycle[m].row]
  /\ cycle' = [cycle EXCEPT ![m] = [pc |-> "count", rows |-> cycle[m].rows]]
  /\ UNCHANGED <<store, cohorts, client, faults>>

\* Any statement may fail; the exception ends the cycle, and the worker's loop
\* starts the next.
FleetFails(m) ==
  /\ cycle[m].pc \in {"idle", "count", "persist"}
  /\ faults < MaxFaults
  /\ faults' = faults + 1
  /\ cycle' = [cycle EXCEPT ![m] = Idle]
  /\ UNCHANGED <<store, rollups, cohorts, client>>

AfterFleets(m) == cycle[m].pc = "count" /\ cycle[m].rows = {}

\* The cohorts are grouped on a connection that is released when the query has
\* been read, and the anomalies of the first are counted on that connection:
\* asyncpg raises, before any cohort is stored.  (Had it not, the INSERT gives
\* no id to a column that must have one.)  With no version there is nothing to
\* count.
MaterializeCohorts(m) ==
  /\ AfterFleets(m)
  /\ cycle' = [cycle EXCEPT ![m] = Idle]
  /\ UNCHANGED <<store, rollups, cohorts, client, faults>>

Options(m) == IF m = Worker THEN {NULL} ELSE Name

Materialize(m) ==
  \/ \E agent, workload \in Options(m) : GroupRuns(m, agent, workload)
  \/ CountAnomalies(m)
  \/ PersistRollup(m)
  \/ MaterializeCohorts(m)

(***************************************************************************)
(* GET /fleet.  A count of the groups and a page of them: the most         *)
(* anomalies first, then by agent and version; groups equal in all three   *)
(* come in any order.  Comparing with a version that is NULL is not true.  *)
(***************************************************************************)
FleetAnomalies(g) == IF g.version = NULL THEN 0 ELSE Cardinality(Own(RunsOf(g)))

FleetRow(g) ==
  [group |-> g, total |-> Row(g).total, success |-> Row(g).success,
   error |-> Cardinality({r \in RunsOf(g) : status[r] \notin {"success"}}),
   anomalies |-> FleetAnomalies(g)]

Siblings(g, h) == g.agent = h.agent /\ g.version = h.version

\* Faulty variant of Before: no order among groups with as many anomalies.
BeforeByCount(g, h) == FleetAnomalies(g) > FleetAnomalies(h)

Before(g, h) ==
  \/ FleetAnomalies(g) > FleetAnomalies(h)
  \/ /\ FleetAnomalies(g) = FleetAnomalies(h)
     /\ g.agent < h.agent \/ (g.agent = h.agent /\ g.version < h.version)

FleetOrders ==
  {o \in SetToSeqs(Groups) : \A i, j \in DOMAIN o : Before(o[i], o[j]) => i < j}

\* Faulty variant of InboxOrders: no ORDER BY.
InboxUnordered == SetToSeqs(DOMAIN anomalies)

\* GET /anomalies: newest first, those of one time in any order.
InboxOrders ==
  {o \in SetToSeqs(DOMAIN anomalies) :
     \A i, j \in DOMAIN o : anomalies[o[i]].at > anomalies[o[j]].at => i < j}

Offset(page) == (page - 1) * PageSize

Page(s, page) == SubSeq(s, Offset(page) + 1, Min({Offset(page) + PageSize, Len(s)}))

(***************************************************************************)
(* Clients.  One reads the pages of the fleet or of the inbox, until a     *)
(* page is not full, or the timeline of a run (GET /runs/{run_id}).        *)
(* expect, risen and moved are history variables: what was there when it   *)
(* began, the groups that gained an anomaly since, and whether a run left  *)
(* its group since.                                                        *)
(***************************************************************************)
NoClient == [pc |-> "none", kind |-> "", page |-> 1, total |-> 0, read |-> 0,
             expect |-> {}, seen |-> {}, risen |-> {}, moved |-> FALSE]
Ready == [NoClient EXCEPT !.pc = "ready"]

StartFleet ==
  /\ client.pc = "ready"
  /\ client' = [Ready EXCEPT !.pc = "count", !.kind = "fleet", !.expect = Groups]
  /\ UNCHANGED <<store, rollups, cohorts, cycle, faults>>

StartInbox ==
  /\ client.pc = "ready"
  /\ client' = [Ready EXCEPT !.pc = "count", !.kind = "inbox", !.expect = DOMAIN anomalies]
  /\ UNCHANGED <<store, rollups, cohorts, cycle, faults>>

ReadTotal ==
  /\ client.pc = "count"
  /\ client' = [client EXCEPT !.pc = "rows",
                  !.total = IF client.kind = "fleet" THEN Cardinality(Groups) ELSE Len(anomalies)]
  /\ UNCHANGED <<store, rollups, cohorts, cycle, faults>>

ReadPage ==
  /\ client.pc = "rows"
  /\ \E o \in IF client.kind = "fleet" THEN FleetOrders ELSE InboxOrders :
       LET rows == Page(o, client.page)
           full == Len(rows) = PageSize
       IN  client' = [client EXCEPT !.pc = IF full THEN "count" ELSE "done",
                        !.page = IF full THEN @ + 1 ELSE @,
                        !.read = @ + Len(rows),
                        !.seen = @ \cup ToSet(rows)]
  /\ UNCHANGED <<store, rollups, cohorts, cycle, faults>>

\* get_run_summary; 404 if there is no such run.
StartTimeline(r) ==
  /\ client.pc = "ready"
  /\ client' = IF status[r] = "none" THEN [Ready EXCEPT !.pc = "done", !.kind = "404"]
               ELSE [Ready EXCEPT !.pc = r, !.kind = "timeline", !.expect = Own({r})]
  /\ UNCHANGED <<store, rollups, cohorts, cycle, faults>>

RunAnomalies(r) == Own({r})

ReadRunAnomalies ==
  /\ client.pc \in Runs
  /\ client' = [client EXCEPT !.pc = "done", !.seen = RunAnomalies(client.pc)]
  /\ UNCHANGED <<store, rollups, cohorts, cycle, faults>>

\* The next request.
Answered ==
  /\ client.pc = "done"
  /\ client' = Ready
  /\ UNCHANGED <<store, rollups, cohorts, cycle, faults>>

-----------------------------------------------------------------------------
\* The worker, the commands and the API are processes of their own: any of them
\* may be down.
Init ==
  /\ status = [r \in Runs |-> "none"]
  /\ group = [r \in Runs |-> NoGroup]
  /\ names = [r \in Runs |-> {}]
  /\ anomalies = << >>
  /\ rollups = [m \in Materializers |-> [g \in AllGroups |-> NoRow]]
  /\ cohorts = {}
  /\ cycle \in [Materializers -> {Idle, Down}]
  /\ client \in {NoClient, Ready}
  /\ writes = 0
  /\ faults = 0

Next ==
  \/ \E r \in Runs : StoreRun(r) \/ StoreAnomaly(r) \/ StartTimeline(r)
  \/ \E m \in Materializers : Materialize(m) \/ FleetFails(m)
  \/ StartFleet \/ StartInbox \/ ReadTotal \/ ReadPage \/ ReadRunAnomalies \/ Answered

\* The worker's loop goes on for ever, whatever a cycle raises (worker.py:117-131).
Fairness == WF_vars(Materialize(Worker))

Spec == Init /\ [][Next]_vars /\ Fairness
-----------------------------------------------------------------------------
Count == 0 .. Cardinality(Runs)
Marks == SUBSET (1 .. MaxWrites)

Rows == [group : AllGroups, total : Count, success : Count, error : Count,
         counted : Marks, own : Marks]

Cycles == [pc : {"down", "idle"}, rows : {{}}]
          \cup [pc : {"count"}, rows : SUBSET Rows]
          \cup [pc : {"persist"}, rows : SUBSET Rows, row : Rows]

\* The types of the tables, of the materializers' rows and of the client; a
\* client has a run of its own only while it reads a timeline.
TypeOK ==
  /\ status \in [Runs -> {"none", "success", "error"}]
  /\ group \in [Runs -> AllGroups \cup {NoGroup}]
  /\ names \in [Runs -> SUBSET Name]
  /\ \A r \in Stored : group[r] \in GroupsOf[r] /\ group[r].agent \in names[r]
  /\ anomalies \in Seq([run : Runs, agent : Name, at : Times])
  /\ \A i \in DOMAIN anomalies : anomalies[i].run \in Stored
  /\ writes \in 0 .. MaxWrites /\ faults \in 0 .. MaxFaults
  /\ Len(anomalies) <= writes
  /\ rollups \in [Materializers -> [AllGroups -> Rows \cup {NoRow}]]
  /\ cohorts = {}
  /\ cycle \in [Materializers -> Cycles]
  /\ DOMAIN client = DOMAIN NoClient
  /\ client.pc \in {"none", "ready", "count", "rows", "done"} \cup Runs
  /\ client.pc \in Runs <=> client.kind = "timeline" /\ client.pc # "done"
  /\ client.page \in Nat /\ client.total \in Nat /\ client.read \in Nat
  /\ client.risen \subseteq AllGroups
  /\ client.moved \in BOOLEAN

\* A rollup counts every anomaly that its runs had when they were grouped, although
\* the anomalies are counted in a later statement, by a query of its own whose
\* conditions depend on which parts of the group are NULL (materializer.py:122-160),
\* unless it was detected under another name of the agent (the query goes by the
\* name in the anomaly's row) or its run was summarised anew in between and belongs
\* to another group since.
NeverUndercounts ==
  \A m \in Materializers, g \in AllGroups :
    rollups[m][g] # NoRow => rollups[m][g].own \subseteq rollups[m][g].counted

\* Whoever reads a page that is not full has read as many as the total that came
\* with it: the total is counted before the page is read, and anomalies only grow in
\* number; so do groups unless a run moves out of its group (queries.py:209-246,
\* 311-328).
TotalIsDelivered ==
  client.pc = "done" /\ ~(client.kind = "fleet" /\ client.moved) => client.read >= client.total

\* A client that has read all pages of the fleet has seen every group there was
\* when it began, although runs and anomalies were stored between its requests,
\* unless the group itself moved up because it gained an anomaly, or can change
\* places with one of the same agent and version, or a summary took a run out of
\* its group, which moves others up (queries.py:240, routes.py:170).
FleetWalkMissesOnlyRisen ==
  client.pc = "done" /\ client.kind = "fleet" /\ ~client.moved =>
    \A g \in client.expect \ client.seen :
      g \in client.risen \/ \E h \in Groups \ {g} : Siblings(g, h)

\* A client that has read all pages of the inbox has seen every anomaly there
\* was when it began, unless another was detected at the same time: what is stored
\* meanwhile moves others to later pages only, wherever its time puts it
\* (queries.py:318-328).
InboxWalkMissesOnlyTies ==
  client.pc = "done" /\ client.kind = "inbox" =>
    \A i \in client.expect \ client.seen :
      \E j \in DOMAIN anomalies \ {i} : anomalies[j].at = anomalies[i].at

\* A timeline holds every anomaly the run had when its summary was read, in a
\* statement before (routes.py:113-128).
TimelineComplete ==
  client.pc = "done" /\ client.kind = "timeline" => client.expect \subseteq client.seen

\* Whoever reads all pages of the inbox, or a timeline, misses nothing that was
\* there when the reading began but what shares its time with another, and gets
\* what the total announced.
ReadersMissNothing ==
  /\ InboxWalkMissesOnlyTies
  /\ TimelineComplete
  /\ TotalIsDelivered

\* The anomalies that bear the agent's name are those of the runs that have it now.
NamesSettled(g) ==
  \A i \in DOMAIN anomalies :
    anomalies[i].agent = g.agent <=> group[anomalies[i].run].agent = g.agent

\* What the worker stored last for each group is what the API computes for it; the
\* anomalies only of groups without a NULL (the two count those of others in
\* different ways) and of an agent whose runs never left it or came to it.
Agrees ==
  \A g \in Groups :
    LET row == rollups[Worker][g]
    IN /\ row # NoRow
       /\ row.total = FleetRow(g).total
       /\ row.success = FleetRow(g).success
       /\ row.error = FleetRow(g).error
       /\ g.version # NULL /\ g.workload # NULL /\ NamesSettled(g) =>
            Cardinality(row.counted) = FleetRow(g).anomalies

\* While the worker is up its rollups come to agree with the API's answers,
\* although every cycle that has versions ends in an exception, statements fail,
\* and runs are stored and moved between the statements of a cycle
\* (materializer.py:23-25).
RollupsConverge == cycle[Worker].pc # "down" => <>[]Agrees

\* What the same comment says of the version cohorts: a version with stored runs
\* has its row at some time.
CohortsConverge ==
  cycle[Worker].pc # "down" =>
    \A v \in {[agent |-> g.agent, version |-> g.version] : g \in AllGroups} :
      v \in Versions ~> v \in cohorts
=============================================================================

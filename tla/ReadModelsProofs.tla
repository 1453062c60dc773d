--------------------------- MODULE ReadModelsProofs ---------------------------
(***************************************************************************)
(* Proofs about ReadModels, for any runs, groups, materializers, sizes of  *)
(* a page and numbers of writes and faults: its type invariant, that a     *)
(* rollup never lacks an anomaly its runs had when they were grouped, that *)
(* readers of the inbox and of a timeline miss nothing but ties, and what  *)
(* those of the fleet can miss.  At the end, proofs about WebPage, the     *)
(* page that shows what was read.                                          *)
(***************************************************************************)
EXTENDS ReadModels, WebPage, FiniteSetTheorems, SequenceTheorems, TLAPS

-----------------------------------------------------------------------------
(***************************************************************************)
(* The inductive invariant.                                                *)
(***************************************************************************)

\* What a row in hand is held to is still there, and its runs are still in the
\* group; once counted, it was counted.
Held(row) ==
  \A i \in row.own :
    /\ i \in DOMAIN anomalies /\ anomalies[i].agent = row.group.agent
    /\ group[anomalies[i].run] = row.group

CountInv ==
  \A m \in Materializers :
    /\ \A row \in cycle[m].rows : Held(row)
    /\ cycle[m].pc = "persist" => cycle[m].row.own \subseteq cycle[m].row.counted

Listed == IF client.kind = "fleet" THEN Cardinality(Groups) ELSE Len(anomalies)

Shifted == client.kind = "fleet" /\ client.moved

\* Between two pages a client has read as many as stand before the offset, all
\* pages were full.
PagesInv ==
  client.pc \in {"count", "rows"} =>
    /\ client.kind \in {"fleet", "inbox"}
    /\ client.read = Offset(client.page)
    /\ ~Shifted => client.read <= Listed /\ (client.pc = "rows" => client.total <= Listed)

TimelineInv == client.pc \in Runs => client.expect \subseteq Own({client.pc}) /\ client.total = 0

\* What stands before an item wherever the database puts the ties.
Newer(i) == {j \in DOMAIN anomalies : anomalies[j].at > anomalies[i].at}
Tied(i) == \E j \in DOMAIN anomalies \ {i} : anomalies[j].at = anomalies[i].at

Ahead(g) == {h \in Groups : Before(h, g)}
HasSibling(g) == \E h \in Groups \ {g} : Siblings(g, h)

\* An anomaly the client has still to see is not before the next page.
InboxInv ==
  client.kind = "inbox" /\ client.pc \in {"count", "rows", "done"} =>
    \A i \in client.expect :
      /\ i \in DOMAIN anomalies
      /\ \/ i \in client.seen
         \/ Tied(i)
         \/ (client.pc # "done" /\ client.read <= Cardinality(Newer(i)))

\* Nor is a group, unless it rose or a run moved.
FleetInv ==
  client.kind = "fleet" /\ client.pc \in {"count", "rows", "done"} /\ ~client.moved =>
    \A g \in client.expect :
      /\ g \in Groups
      /\ \/ g \in client.seen
         \/ g \in client.risen
         \/ HasSibling(g)
         \/ (client.pc # "done" /\ client.read <= Cardinality(Ahead(g)))

ReadersInv ==
  PagesInv /\ TotalIsDelivered /\ TimelineInv /\ TimelineComplete /\ InboxInv /\ FleetInv

IInv == TypeOK /\ CountInv /\ NeverUndercounts /\ ReadersInv

-----------------------------------------------------------------------------
(***************************************************************************)
(* Finite sets, pages and places.                                          *)
(***************************************************************************)

LEMMA UpTo ==
  ASSUME NEW n \in Nat PROVE IsFiniteSet(1 .. n) /\ Cardinality(1 .. n) = n
<1>1. 1 \in Int /\ n \in Int
  OBVIOUS
<1>2. /\ IsFiniteSet(1 .. n)
      /\ Cardinality(1 .. n) = IF 1 > n THEN 0 ELSE n - 1 + 1
  BY <1>1, FS_Interval, Zenon
<1> QED
  BY <1>2

LEMMA ImageFinite ==
  ASSUME NEW S, IsFiniteSet(S), NEW f PROVE IsFiniteSet({f[x] : x \in S})
<1> DEFINE h == [x \in S |-> f[x]]
<1>1. h \in Surjection(S, {f[x] : x \in S})
  BY DEF Surjection
<1> QED
  BY <1>1, FS_Surjection

\* There are finitely many groups, of runs as they are and as they will be.
LEMMA GroupsFinite ==
  /\ IsFiniteSet(Groups) /\ Cardinality(Groups) \in Nat
  /\ IsFiniteSet(Groups') /\ Cardinality(Groups') \in Nat
<1>1. IsFiniteSet(Stored) /\ IsFiniteSet(Stored')
  BY RunsAssumption, FS_Subset DEF Stored
<1>2. IsFiniteSet({group[r] : r \in Stored}) /\ IsFiniteSet({group'[r] : r \in Stored'})
  BY <1>1, ImageFinite
<1>3. IsFiniteSet(Groups) /\ IsFiniteSet(Groups')
  BY <1>2 DEF Groups
<1> QED
  BY <1>3, FS_CardinalityType

\* An answer lists each of its items once.
LEMMA Listing ==
  ASSUME NEW S, IsFiniteSet(S), NEW o \in SetToSeqs(S)
  PROVE  /\ o \in Seq(S) /\ Len(o) = Cardinality(S) /\ DOMAIN o = 1 .. Len(o)
         /\ \A i, j \in DOMAIN o : i # j => o[i] # o[j]
         /\ \A x \in S : \E p \in DOMAIN o : o[p] = x
<1> DEFINE D == 1 .. Cardinality(S)
<1>1. o \in [D -> S] /\ \A i, j \in D : i # j => o[i] # o[j]
  BY DEF SetToSeqs
<1>2. Cardinality(S) \in Nat
  BY FS_CardinalityType
<1>3. Cardinality(D) = Cardinality(S)
  BY <1>2, UpTo
<1>4. o \in Seq(S) /\ Len(o) = Cardinality(S) /\ DOMAIN o = D
  BY <1>1, <1>2
<1> HIDE DEF D
<1>5. o \in Injection(D, S)
  BY <1>1 DEF Injection, IsInjective
<1>6. o \in Surjection(D, S)
  BY <1>3, <1>5, FS_Injection
<1>7. \A x \in S : \E p \in D : o[p] = x
  BY <1>6 DEF Surjection
<1> QED
  BY <1>1, <1>4, <1>7 DEF D

\* An item that has the same others before it in every answer stands right after
\* them.
LEMMA PlaceInOrder ==
  ASSUME NEW S, IsFiniteSet(S), NEW o \in SetToSeqs(S), NEW x \in S,
         NEW A \in SUBSET S, x \notin A,
         \A i, j \in DOMAIN o : o[i] \in A /\ o[j] = x => i < j,
         \A i, j \in DOMAIN o : o[i] = x /\ o[j] \notin A \cup {x} => i < j
  PROVE  Cardinality(A) \in Nat /\ Cardinality(A) + 1 \in DOMAIN o /\ o[Cardinality(A) + 1] = x
<1>1. /\ o \in Seq(S) /\ Len(o) \in Nat /\ DOMAIN o = 1 .. Len(o)
      /\ \A i, j \in DOMAIN o : i # j => o[i] # o[j]
      /\ \A y \in S : \E p \in DOMAIN o : o[p] = y
  BY Listing
<1>2. PICK p \in DOMAIN o : o[p] = x
  BY <1>1
<1>3. p \in Nat /\ p - 1 \in Nat /\ p <= Len(o)
  BY <1>1, <1>2
<1> DEFINE f == [i \in 1 .. p - 1 |-> o[i]]
<1>4. \A i \in 1 .. p - 1 : i \in DOMAIN o /\ i # p /\ ~(p < i)
  BY <1>1, <1>3
<1>5. ASSUME NEW i \in 1 .. p - 1 PROVE o[i] \in A
  <2>1. i \in DOMAIN o /\ i # p /\ ~(p < i)
    BY <1>4
  <2>2. o[i] # x
    BY <1>1, <1>2, <2>1
  <2> QED
    BY <1>2, <2>1, <2>2
<1>6. ASSUME NEW y \in A PROVE \E i \in 1 .. p - 1 : o[i] = y
  <2>1. PICK i \in DOMAIN o : o[i] = y
    BY <1>1
  <2>2. i < p
    BY <1>2, <2>1
  <2>3. i \in 1 .. p - 1
    BY <1>1, <1>3, <2>1, <2>2
  <2> QED
    BY <2>1, <2>3
<1>7. f \in Bijection(1 .. p - 1, A)
  <2>1. f \in [1 .. p - 1 -> A]
    BY <1>5
  <2>2. \A i, j \in 1 .. p - 1 : f[i] = f[j] => i = j
    BY <1>1, <1>4
  <2>3. \A y \in A : \E i \in 1 .. p - 1 : f[i] = y
    BY <1>6
  <2> HIDE DEF f
  <2> QED
    BY <2>1, <2>2, <2>3 DEF Bijection, Injection, Surjection, IsInjective
<1>8. ExistsBijection(1 .. p - 1, A)
  BY <1>7 DEF ExistsBijection
<1>9. Cardinality(A) = p - 1
  BY <1>3, <1>8, FS_CountingElements
<1>10. p - 1 + 1 = p
  BY <1>3
<1> QED
  BY <1>2, <1>3, <1>9, <1>10

LEMMA MinOf ==
  ASSUME NEW a \in Int, NEW b \in Int
  PROVE  Min({a, b}) = IF a <= b THEN a ELSE b
<1>1. \A x \in {a, b} : (\A y \in {a, b} : x <= y) <=> x = (IF a <= b THEN a ELSE b)
  OBVIOUS
<1>2. (IF a <= b THEN a ELSE b) \in {a, b}
  OBVIOUS
<1> QED
  BY <1>1, <1>2 DEF Min

\* The length of a page is a number, full or not.
LEMMA PageLength ==
  ASSUME NEW S, NEW o \in Seq(S), NEW page \in Nat PROVE Len(Page(o, page)) \in Nat
<1>1. Offset(page) \in Int
  <2>1. PageSize \in Int /\ page - 1 \in Int
    BY BoundAssumption
  <2> QED
    BY <2>1 DEF Offset
<1>2. Page(o, page) = SubSeq(o, Offset(page) + 1, Min({Offset(page) + PageSize, Len(o)}))
  BY DEF Page
<1>3. Min({Offset(page) + PageSize, Len(o)}) \in Int
  <2>1. Offset(page) + PageSize \in Int /\ Len(o) \in Int
    BY <1>1, BoundAssumption
  <2> QED
    BY <2>1, MinOf
<1> QED
  BY <1>1, <1>2, <1>3

\* A page holds what stands after its offset, as much as fits.
LEMMA PageContents ==
  ASSUME NEW S, NEW o \in Seq(S), NEW page, NEW k \in Nat, k = Offset(page), k <= Len(o)
  PROVE  /\ Len(Page(o, page)) = IF k + PageSize <= Len(o) THEN PageSize ELSE Len(o) - k
         /\ ToSet(Page(o, page)) = {o[i] : i \in k + 1 .. k + Len(Page(o, page))}
<1> USE BoundAssumption
<1> DEFINE n == IF k + PageSize <= Len(o) THEN PageSize ELSE Len(o) - k
<1>0. Len(o) \in Nat /\ PageSize \in Nat
  OBVIOUS
<1>1. Page(o, page) = SubSeq(o, k + 1, k + n)
  <2>1. Min({k + PageSize, Len(o)}) = IF k + PageSize <= Len(o) THEN k + PageSize ELSE Len(o)
    BY <1>0, MinOf
  <2>2. Min({k + PageSize, Len(o)}) = k + n
    BY <1>0, <2>1
  <2>3. Page(o, page) = SubSeq(o, k + 1, Min({k + PageSize, Len(o)}))
    BY DEF Page
  <2> QED
    BY <2>2, <2>3
<1>2. n \in Nat /\ k + n <= Len(o)
  BY <1>0
<1>3. /\ Len(Page(o, page)) = n /\ DOMAIN Page(o, page) = 1 .. n
      /\ \A i \in 1 .. n : Page(o, page)[i] = o[k + i]
  <2> HIDE DEF n
  <2>1. \A i \in k + 1 .. k + n : o[i] \in S
    BY <1>0, <1>2
  <2>2. k + 1 \in Int /\ k + n \in Int
    BY <1>2
  <2>3. /\ SubSeq(o, k + 1, k + n) \in Seq(S)
        /\ Len(SubSeq(o, k + 1, k + n)) = IF k + 1 <= k + n THEN (k + n) - (k + 1) + 1 ELSE 0
        /\ \A i \in 1 .. (k + n) - (k + 1) + 1 : SubSeq(o, k + 1, k + n)[i] = o[(k + 1) + i - 1]
    <3> DEFINE a == k + 1
               b == k + n
    <3>1. a \in Int /\ b \in Int /\ \A i \in a .. b : o[i] \in S
      BY <2>1, <2>2
    <3> HIDE DEF a, b
    <3>2. /\ SubSeq(o, a, b) \in Seq(S)
          /\ Len(SubSeq(o, a, b)) = IF a <= b THEN b - a + 1 ELSE 0
          /\ \A i \in 1 .. b - a + 1 : SubSeq(o, a, b)[i] = o[a + i - 1]
      BY <3>1, SubSeqProperties
    <3> QED
      BY <3>2 DEF a, b
  <2>4. (k + n) - (k + 1) + 1 = n /\ \A i \in 1 .. n : (k + 1) + i - 1 = k + i
    BY <1>2
  <2>5. Len(SubSeq(o, k + 1, k + n)) = n
    BY <1>2, <2>3
  <2>6. DOMAIN SubSeq(o, k + 1, k + n) = 1 .. n
    BY <2>3, <2>5
  <2>7. ASSUME NEW i \in 1 .. n PROVE SubSeq(o, k + 1, k + n)[i] = o[k + i]
    BY <2>3, <2>4
  <2> QED
    BY <1>1, <2>5, <2>6, <2>7
<1>4. \A i \in k + 1 .. k + n : i - k \in 1 .. n /\ k + (i - k) = i
  BY <1>2
<1>5. \A i \in 1 .. n : k + i \in k + 1 .. k + n
  BY <1>2
<1>6. ToSet(Page(o, page)) = {Page(o, page)[i] : i \in 1 .. n}
  BY <1>3 DEF ToSet
<1>7. ToSet(Page(o, page)) = {o[i] : i \in k + 1 .. k + n}
  <2> HIDE DEF n
  <2> DEFINE s == Page(o, page)
  <2>1. \A i \in 1 .. n : s[i] \in {o[j] : j \in k + 1 .. k + n}
    BY <1>3, <1>5
  <2>2. ASSUME NEW j \in k + 1 .. k + n PROVE o[j] \in {s[i] : i \in 1 .. n}
    <3>1. j - k \in 1 .. n /\ s[j - k] = o[j]
      BY <1>3, <1>4
    <3> QED
      BY <3>1
  <2> HIDE DEF s
  <2>3. {s[i] : i \in 1 .. n} = {o[j] : j \in k + 1 .. k + n}
    BY <2>1, <2>2
  <2> QED
    BY <1>6, <2>3 DEF s
<1> QED
  BY <1>3, <1>7

\* A page that does not hold an item with the same others before it in every
\* answer, and no fewer than the offset, is full and ends before it.
LEMMA PageStopsBefore ==
  ASSUME NEW S, IsFiniteSet(S), NEW o \in SetToSeqs(S), NEW x \in S,
         NEW A \in SUBSET S, x \notin A,
         \A i, j \in DOMAIN o : o[i] \in A /\ o[j] = x => i < j,
         \A i, j \in DOMAIN o : o[i] = x /\ o[j] \notin A \cup {x} => i < j,
         NEW page, NEW k \in Nat, k = Offset(page), k <= Cardinality(A),
         x \notin ToSet(Page(o, page))
  PROVE  Len(Page(o, page)) = PageSize /\ k + PageSize <= Cardinality(A)
<1> USE BoundAssumption
<1> DEFINE p == Cardinality(A) + 1
           n == Len(Page(o, page))
<1>1. Cardinality(A) \in Nat /\ p \in DOMAIN o /\ o[p] = x
  BY PlaceInOrder
<1>2. o \in Seq(S) /\ Len(o) \in Nat /\ DOMAIN o = 1 .. Len(o)
  BY Listing
<1>3. k <= Len(o) /\ k + 1 <= p /\ p <= Len(o) /\ p \in Nat
  BY <1>1, <1>2
<1>4. /\ n = IF k + PageSize <= Len(o) THEN PageSize ELSE Len(o) - k
      /\ ToSet(Page(o, page)) = {o[i] : i \in k + 1 .. k + n}
  BY <1>2, <1>3, PageContents
<1>5. p \notin k + 1 .. k + n
  BY <1>1, <1>4
<1> HIDE DEF n, p
<1>6. n \in Int /\ k + n < p
  BY <1>2, <1>3, <1>4, <1>5
<1>7. n = PageSize
  BY <1>2, <1>3, <1>4, <1>6
<1>8. k + PageSize < p
  BY <1>6, <1>7
<1>9. k + PageSize <= Cardinality(A)
  BY <1>1, <1>8 DEF p
<1> QED
  BY <1>7, <1>9 DEF n

-----------------------------------------------------------------------------
(***************************************************************************)
(* Who takes a step, and what it does to the tables.                       *)
(***************************************************************************)
Cycling == \E m \in Materializers : Materialize(m) \/ FleetFails(m)

Reading ==
  \/ StartFleet \/ StartInbox \/ ReadTotal \/ ReadPage \/ ReadRunAnomalies \/ Answered
  \/ \E r \in Runs : StartTimeline(r)

Writing == \E r \in Runs : StoreRun(r) \/ StoreAnomaly(r)

LEMMA Actors == Next <=> Writing \/ Cycling \/ Reading
BY DEF Next, Writing, Cycling, Reading

LEMMA Frames ==
  /\ Cycling => UNCHANGED <<store, cohorts, client>>
  /\ Reading => UNCHANGED <<store, rollups, cohorts, cycle, faults>>
  /\ Writing => UNCHANGED <<rollups, cohorts, faults>>
<1>1. ASSUME NEW m \in Materializers, Materialize(m) \/ FleetFails(m)
      PROVE  UNCHANGED <<store, cohorts, client>>
  BY <1>1 DEF Materialize, GroupRuns, CountAnomalies, PersistRollup, MaterializeCohorts, FleetFails
<1>2. Reading => UNCHANGED <<store, rollups, cohorts, cycle, faults>>
  BY DEF Reading, StartFleet, StartInbox, ReadTotal, ReadPage, ReadRunAnomalies, Answered, StartTimeline
<1>3. Writing => UNCHANGED <<rollups, cohorts, faults>>
  BY DEF Writing, StoreRun, StoreAnomaly
<1> QED
  BY <1>1, <1>2, <1>3 DEF Cycling

\* No run and no anomaly is ever deleted, nor an anomaly altered.
Grows ==
  /\ Stored \subseteq Stored'
  /\ Len(anomalies) <= Len(anomalies')
  /\ \A i \in DOMAIN anomalies : i \in DOMAIN anomalies' /\ anomalies'[i] = anomalies[i]

\* The runs that are stored keep their groups.
Settled == \A r \in Stored : group'[r] = group[r]

\* What may become of a run that is stored, and of the client then.
LEMMA RunStored ==
  ASSUME TypeOK, NEW r \in Runs, StoreRun(r)
  PROVE  /\ Grows /\ anomalies' = anomalies
         /\ \A q \in Runs \ {r} : group'[q] = group[q]
         /\ \/ Settled /\ UNCHANGED <<cycle, client>>
            \/ Moved(r)
<1>1. Grows /\ anomalies' = anomalies
  BY DEF StoreRun, TypeOK, Grows, Stored
<1>2. PICK g \in GroupsOf[r] :
        /\ group' = [group EXCEPT ![r] = g]
        /\ IF r \in Stored /\ group[r] # g THEN Moved(r) ELSE UNCHANGED <<cycle, client>>
  BY DEF StoreRun
<1>3. CASE r \in Stored /\ group[r] # g
  BY <1>1, <1>2, <1>3 DEF TypeOK
<1>4. CASE ~(r \in Stored /\ group[r] # g)
  BY <1>1, <1>2, <1>4 DEF TypeOK, Settled, Stored
<1> QED
  BY <1>3, <1>4

LEMMA AnomalyStored ==
  ASSUME TypeOK, NEW r \in Runs, StoreAnomaly(r)
  PROVE  /\ Grows /\ Settled
         /\ r \in Stored
         /\ UNCHANGED <<status, group, names>>
         /\ \E a \in Name, t \in Times : anomalies' = Append(anomalies, [run |-> r, agent |-> a, at |-> t])
<1>1. PICK a \in names[r], t \in Times : anomalies' = Append(anomalies, [run |-> r, agent |-> a, at |-> t])
  BY DEF StoreAnomaly
<1>2. a \in Name
  BY <1>1 DEF TypeOK
<1>3. UNCHANGED <<status, group, names>> /\ r \in Stored
  BY DEF StoreAnomaly, runs
<1>4. /\ Len(anomalies) \in Nat /\ Len(anomalies') = Len(anomalies) + 1
      /\ DOMAIN anomalies = 1 .. Len(anomalies) /\ DOMAIN anomalies' = 1 .. Len(anomalies')
      /\ \A i \in DOMAIN anomalies : anomalies'[i] = anomalies[i]
  BY <1>1, <1>3 DEF TypeOK, Stored
<1>5. Grows
  BY <1>3, <1>4 DEF Grows, Stored
<1> QED
  BY <1>1, <1>2, <1>3, <1>5 DEF Settled

LEMMA StoreUnchanged == ASSUME TypeOK, UNCHANGED store PROVE Grows /\ Settled
BY DEF store, runs, Grows, Settled, Stored, TypeOK

LEMMA StepGrows == ASSUME TypeOK, [Next]_vars PROVE Grows
<1>1. CASE Writing
  BY <1>1, RunStored, AnomalyStored DEF Writing
<1>2. CASE UNCHANGED store
  BY <1>2, StoreUnchanged
<1> QED
  BY <1>1, <1>2, Actors, Frames DEF vars, store

-----------------------------------------------------------------------------
(***************************************************************************)
(* Types, table by table and reader by reader.                             *)
(***************************************************************************)
StoreOK ==
  /\ status \in [Runs -> {"none", "success", "error"}]
  /\ group \in [Runs -> AllGroups \cup {NoGroup}]
  /\ names \in [Runs -> SUBSET Name]
  /\ \A r \in Stored : group[r] \in GroupsOf[r] /\ group[r].agent \in names[r]
  /\ anomalies \in Seq([run : Runs, agent : Name, at : Times])
  /\ \A i \in DOMAIN anomalies : anomalies[i].run \in Stored
  /\ writes \in 0 .. MaxWrites
  /\ Len(anomalies) <= writes

CycleOK ==
  /\ faults \in 0 .. MaxFaults
  /\ rollups \in [Materializers -> [AllGroups -> Rows \cup {NoRow}]]
  /\ cohorts = {}
  /\ cycle \in [Materializers -> Cycles]

ClientOK ==
  /\ DOMAIN client = DOMAIN NoClient
  /\ client.pc \in {"none", "ready", "count", "rows", "done"} \cup Runs
  /\ client.pc \in Runs <=> client.kind = "timeline" /\ client.pc # "done"
  /\ client.page \in Nat /\ client.total \in Nat /\ client.read \in Nat
  /\ client.risen \subseteq AllGroups
  /\ client.moved \in BOOLEAN

LEMMA TypeParts ==
  /\ TypeOK <=> StoreOK /\ CycleOK /\ ClientOK
  /\ TypeOK' <=> StoreOK' /\ CycleOK' /\ ClientOK'
BY DEF TypeOK, StoreOK, CycleOK, ClientOK

\* What a client has in each field.
LEMMA ClientFields ==
  /\ DOMAIN NoClient = {"pc", "kind", "page", "total", "read", "expect", "seen", "risen", "moved"}
  /\ DOMAIN Ready = DOMAIN NoClient
  /\ Ready.pc = "ready" /\ Ready.kind = "" /\ Ready.page = 1 /\ Ready.total = 0 /\ Ready.read = 0
  /\ Ready.expect = {} /\ Ready.seen = {} /\ Ready.risen = {} /\ Ready.moved = FALSE
BY DEF Ready, NoClient

LEMMA InitInv == Init => IInv
<1> SUFFICES ASSUME Init PROVE IInv
  OBVIOUS
<1>1. anomalies = << >> /\ Len(anomalies) = 0 /\ DOMAIN anomalies = {} /\ Stored = {}
  BY DEF Init, Stored
<1>2. /\ client.pc \in {"none", "ready"} /\ client.pc \notin Runs /\ client.kind = ""
      /\ client.page = 1 /\ client.total = 0 /\ client.read = 0 /\ client.risen = {}
      /\ client.moved = FALSE /\ DOMAIN client = DOMAIN NoClient
  <2>1. CASE client = NoClient
    BY <2>1, RunsAssumption DEF NoClient
  <2>2. CASE client = Ready
    BY <2>2, RunsAssumption DEF Ready, NoClient
  <2> QED
    BY <2>1, <2>2 DEF Init
<1>3. \A m \in Materializers : cycle[m].pc \in {"down", "idle"} /\ cycle[m].rows = {}
  BY DEF Init, Idle, Down
<1>4. TypeOK
  <2>1. StoreOK
    BY <1>1, BoundAssumption DEF Init, StoreOK
  <2>2. CycleOK
    <3>1. Idle \in Cycles /\ Down \in Cycles
      BY DEF Idle, Down, Cycles
    <3>2. cycle \in [Materializers -> Cycles]
      BY <3>1 DEF Init
    <3>3. faults \in 0 .. MaxFaults
      BY BoundAssumption DEF Init
    <3>4. rollups \in [Materializers -> [AllGroups -> Rows \cup {NoRow}]]
      BY DEF Init
    <3> QED
      BY <3>2, <3>3, <3>4 DEF Init, CycleOK
  <2>3. ClientOK
    <3>1. client.page \in Nat /\ client.total \in Nat /\ client.read \in Nat
      <4>1. client.page = 1 /\ client.total = 0 /\ client.read = 0
        BY <1>2
      <4> QED
        BY <4>1
    <3>2. client.risen \subseteq AllGroups /\ client.moved \in BOOLEAN
      BY <1>2
    <3>3. client.kind # "timeline"
      BY <1>2
    <3>4. client.pc \in Runs <=> client.kind = "timeline" /\ client.pc # "done"
      BY <1>2, <3>3, Zenon
    <3> QED
      BY <1>2, <3>1, <3>2, <3>4, Zenon DEF ClientOK
  <2> QED
    BY <2>1, <2>2, <2>3, TypeParts
<1>5. CountInv
  BY <1>3 DEF CountInv
<1>6. NeverUndercounts
  BY DEF Init, NeverUndercounts, NoRow
<1>7. ReadersInv
  BY <1>2 DEF ReadersInv, PagesInv, TotalIsDelivered, TimelineInv, TimelineComplete, InboxInv, FleetInv
<1> QED
  BY <1>4, <1>5, <1>6, <1>7 DEF IInv

LEMMA StoreType == ASSUME TypeOK, [Next]_vars PROVE StoreOK'
<1> USE DEF StoreOK
<1>1. ASSUME UNCHANGED store PROVE StoreOK'
  BY <1>1 DEF store, runs, TypeOK, Stored
<1>2. ASSUME NEW r \in Runs, StoreRun(r) PROVE StoreOK'
  <2>1. Stored' = Stored \cup {r} /\ status' \in [Runs -> {"none", "success", "error"}]
    BY <1>2 DEF StoreRun, Stored, TypeOK
  <2>2. writes' \in 0 .. MaxWrites /\ writes' = writes + 1 /\ anomalies' = anomalies
    BY <1>2, BoundAssumption DEF StoreRun, TypeOK
  <2>3. PICK g \in GroupsOf[r] :
          group' = [group EXCEPT ![r] = g] /\ names' = [names EXCEPT ![r] = @ \cup {g.agent}]
    BY <1>2 DEF StoreRun
  <2>4. g \in AllGroups /\ g.agent \in Name
    <3>1. g \in [agent : 1 .. NULL - 1, version : Name, workload : Name]
      BY <2>3, GroupAssumption
    <3> QED
      BY <3>1, GroupAssumption DEF AllGroups, Name
  <2>5. /\ group' \in [Runs -> AllGroups \cup {NoGroup}]
        /\ names' \in [Runs -> SUBSET Name]
    BY <2>3, <2>4 DEF TypeOK
  <2>6. \A q \in Stored' : group'[q] \in GroupsOf[q] /\ group'[q].agent \in names'[q]
    BY <2>1, <2>3 DEF TypeOK, Stored
  <2>7. Len(anomalies') <= writes'
    BY <2>2 DEF TypeOK
  <2> QED
    BY <2>1, <2>2, <2>5, <2>6, <2>7 DEF TypeOK
<1>3. ASSUME NEW r \in Runs, StoreAnomaly(r) PROVE StoreOK'
  <2>1. PICK a \in Name, t \in Times : anomalies' = Append(anomalies, [run |-> r, agent |-> a, at |-> t])
    BY <1>3, AnomalyStored
  <2>2. UNCHANGED <<status, group, names>> /\ r \in Stored /\ Stored' = Stored
    BY <1>3, AnomalyStored DEF Stored
  <2>3. writes' \in 0 .. MaxWrites /\ writes' = writes + 1
    BY <1>3, BoundAssumption DEF StoreAnomaly, TypeOK
  <2>4. /\ anomalies' \in Seq([run : Runs, agent : Name, at : Times])
        /\ Len(anomalies') = Len(anomalies) + 1
    BY <2>1 DEF TypeOK
  <2>5. \A i \in DOMAIN anomalies' : anomalies'[i].run \in Stored
    <3>1. /\ DOMAIN anomalies' = DOMAIN anomalies \cup {Len(anomalies) + 1}
          /\ \A i \in DOMAIN anomalies : anomalies'[i] = anomalies[i]
          /\ anomalies'[Len(anomalies) + 1].run = r
      BY <2>1 DEF TypeOK
    <3> QED
      BY <2>2, <3>1 DEF TypeOK
  <2>6. Len(anomalies') <= writes'
    BY <2>3, <2>4 DEF TypeOK
  <2> QED
    BY <2>2, <2>3, <2>4, <2>5, <2>6 DEF TypeOK
<1> QED
  BY <1>1, <1>2, <1>3, Actors, Frames DEF Writing, vars, store

\* The row of a group that has runs.
LEMMA RowType ==
  ASSUME TypeOK, NEW g \in Groups PROVE Row(g) \in Rows /\ Row(g).group = g
<1>1. IsFiniteSet(Runs) /\ Cardinality(Runs) \in Nat
  BY RunsAssumption, FS_CardinalityType
<1>2. ASSUME NEW rs \in SUBSET Runs PROVE Cardinality(rs) \in Count
  <2>1. IsFiniteSet(rs) /\ Cardinality(rs) <= Cardinality(Runs)
    BY <1>1, FS_Subset
  <2>2. Cardinality(rs) \in Nat
    BY <2>1, FS_CardinalityType
  <2> QED
    BY <1>1, <2>1, <2>2 DEF Count
<1>3. RunsOf(g) \in SUBSET Runs
  BY DEF RunsOf, Stored
<1>4. /\ Cardinality(RunsOf(g)) \in Count
      /\ Cardinality({r \in RunsOf(g) : status[r] = "success"}) \in Count
      /\ Cardinality({r \in RunsOf(g) : status[r] = "error"}) \in Count
  BY <1>2, <1>3
<1>5. g \in AllGroups
  BY DEF Groups, AllGroups, Stored, TypeOK
<1>6. DOMAIN anomalies \subseteq 1 .. MaxWrites
  BY BoundAssumption DEF TypeOK
<1>7. {i \in Own(RunsOf(g)) : anomalies[i].agent = g.agent} \in Marks /\ {} \in Marks
  BY <1>6 DEF Own, Marks
<1> QED
  BY <1>4, <1>5, <1>7 DEF Row, Rows

LEMMA CycleType == ASSUME TypeOK, [Next]_vars PROVE CycleOK'
<1> USE DEF CycleOK
<1>0. /\ faults \in 0 .. MaxFaults /\ cohorts = {}
      /\ rollups \in [Materializers -> [AllGroups -> Rows \cup {NoRow}]]
      /\ cycle \in [Materializers -> Cycles]
      /\ Idle \in Cycles
  BY DEF TypeOK, Idle, Cycles
<1>1. ASSUME UNCHANGED <<rollups, cohorts, cycle, faults>> PROVE CycleOK'
  BY <1>0, <1>1
<1>2. ASSUME NEW m \in Materializers, NEW c \in Cycles, cycle' = [cycle EXCEPT ![m] = c],
             UNCHANGED <<rollups, faults>>, cohorts' = cohorts
      PROVE  CycleOK'
  BY <1>0, <1>2
<1>3. ASSUME NEW m \in Materializers, NEW agent, NEW workload, GroupRuns(m, agent, workload)
      PROVE  CycleOK'
  <2> DEFINE rows == {Row(g) : g \in Selected(agent, workload)}
  <2>1. rows \subseteq Rows
    BY RowType DEF Selected
  <2>2. [pc |-> "count", rows |-> rows] \in Cycles
    BY <2>1 DEF Cycles
  <2> QED
    BY <1>2, <1>3, <2>2 DEF GroupRuns
<1>4. ASSUME NEW m \in Materializers, CountAnomalies(m) PROVE CycleOK'
  <2> DEFINE counted(row) == {i \in DOMAIN anomalies : Matches(i, row.group)}
  <2>1. PICK row \in cycle[m].rows :
          cycle' = [cycle EXCEPT ![m] = [pc |-> "persist", rows |-> cycle[m].rows \ {row},
                                         row |-> [row EXCEPT !.counted = counted(row)]]]
    BY <1>4 DEF CountAnomalies
  <2>2. cycle[m].rows \subseteq Rows
    BY <1>0 DEF Cycles
  <2>3. counted(row) \in Marks
    BY BoundAssumption DEF Marks, TypeOK
  <2>4. [row EXCEPT !.counted = counted(row)] \in Rows
    <3> HIDE DEF counted
    <3> QED
      BY <2>1, <2>2, <2>3 DEF Rows
  <2>5. [pc |-> "persist", rows |-> cycle[m].rows \ {row}, row |-> [row EXCEPT !.counted = counted(row)]]
          \in Cycles
    BY <2>2, <2>4 DEF Cycles
  <2> QED
    BY <1>2, <1>4, <2>1, <2>5 DEF CountAnomalies
<1>5. ASSUME NEW m \in Materializers, PersistRollup(m) PROVE CycleOK'
  <2>1. cycle[m].row \in Rows /\ cycle[m].rows \subseteq Rows
    BY <1>0, <1>5 DEF PersistRollup, Cycles
  <2>2. cycle[m].row.group \in AllGroups
    BY <2>1 DEF Rows
  <2>3. rollups' \in [Materializers -> [AllGroups -> Rows \cup {NoRow}]]
    <3>1. rollups[m] \in [AllGroups -> Rows \cup {NoRow}]
      BY <1>0
    <3>2. rollups' = [rollups EXCEPT ![m] = [rollups[m] EXCEPT ![cycle[m].row.group] = cycle[m].row]]
      BY <1>5 DEF PersistRollup
    <3>3. [rollups[m] EXCEPT ![cycle[m].row.group] = cycle[m].row] \in [AllGroups -> Rows \cup {NoRow}]
      BY <2>1, <2>2, <3>1
    <3> QED
      BY <1>0, <3>2, <3>3
  <2>4. [pc |-> "count", rows |-> cycle[m].rows] \in Cycles
    BY <2>1 DEF Cycles
  <2>5. cycle' \in [Materializers -> Cycles]
    BY <1>0, <1>5, <2>4 DEF PersistRollup
  <2> QED
    BY <1>0, <1>5, <2>3, <2>5 DEF PersistRollup
<1>6. ASSUME NEW m \in Materializers, MaterializeCohorts(m) PROVE CycleOK'
  BY <1>0, <1>2, <1>6 DEF MaterializeCohorts
<1>7. ASSUME NEW m \in Materializers, FleetFails(m) PROVE CycleOK'
  <2>1. cycle' \in [Materializers -> Cycles]
    BY <1>0, <1>7 DEF FleetFails
  <2>2. faults' \in 0 .. MaxFaults
    BY <1>0, <1>7, BoundAssumption DEF FleetFails
  <2> QED
    BY <1>0, <1>7, <2>1, <2>2 DEF FleetFails
<1>8. ASSUME NEW r \in Runs, Moved(r), UNCHANGED <<rollups, cohorts, faults>> PROVE CycleOK'
  <2>1. ASSUME NEW m \in Materializers, NEW row \in cycle[m].rows
        PROVE  [row EXCEPT !.own = @ \ Own({r})] \in Rows
    <3>1. row \in Rows
      BY <1>0 DEF Cycles
    <3> QED
      BY <3>1 DEF Rows, Marks
  <2>2. ASSUME NEW m \in Materializers
        PROVE  [cycle[m] EXCEPT !.rows = {[row EXCEPT !.own = @ \ Own({r})] : row \in @}] \in Cycles
    <3> DEFINE rows == {[row EXCEPT !.own = @ \ Own({r})] : row \in cycle[m].rows}
    <3>1. rows \subseteq Rows /\ (cycle[m].rows = {} => rows = {})
      BY <2>1
    <3>2. cycle[m] \in Cycles
      BY <1>0
    <3> HIDE DEF rows
    <3>3. [cycle[m] EXCEPT !.rows = rows] \in Cycles
      BY <3>1, <3>2 DEF Cycles
    <3> QED
      BY <3>3 DEF rows
  <2> QED
    BY <1>0, <1>8, <2>2 DEF Moved
<1>9. CASE Cycling
  BY <1>3, <1>4, <1>5, <1>6, <1>7, <1>9 DEF Cycling, Materialize
<1>10. CASE Writing
  <2>1. UNCHANGED <<rollups, cohorts, faults>>
    BY <1>10, Frames
  <2>2. ASSUME NEW r \in Runs, StoreAnomaly(r) PROVE cycle' = cycle
    BY <2>2 DEF StoreAnomaly
  <2> QED
    BY <1>1, <1>8, <1>10, <2>1, <2>2, RunStored DEF Writing
<1> QED
  BY <1>1, <1>9, <1>10, Actors, Frames DEF vars

LEMMA ClientType == ASSUME TypeOK, [Next]_vars PROVE ClientOK'
<1> USE DEF ClientOK
<1>0. ClientOK
  BY TypeParts
<1>1. ASSUME UNCHANGED client PROVE ClientOK'
  BY <1>0, <1>1
<1>2. ASSUME NEW r \in Runs, StoreAnomaly(r) PROVE ClientOK'
  <2>1. group[r] \in AllGroups
    BY <1>2 DEF StoreAnomaly, TypeOK, AllGroups
  <2>2. /\ client' = [client EXCEPT !.risen = IF client.pc \in {"count", "rows"} THEN @ \cup {group[r]} ELSE @]
    BY <1>2 DEF StoreAnomaly
  <2> QED
    BY <1>0, <2>1, <2>2, ClientFields
<1>3. ASSUME NEW r \in Runs, Moved(r) PROVE ClientOK'
  BY <1>0, <1>3, ClientFields DEF Moved
<1>4. ASSUME StartFleet \/ StartInbox \/ Answered PROVE ClientOK'
  <2>1. /\ client'.pc \in {"count", "ready"} /\ client'.kind # "timeline" /\ client'.risen = {}
        /\ client'.page = 1 /\ client'.total = 0 /\ client'.read = 0 /\ client'.moved = FALSE
        /\ DOMAIN client' = DOMAIN NoClient
    <3>1. CASE StartFleet
      BY <3>1, ClientFields DEF StartFleet
    <3>2. CASE StartInbox
      BY <3>2, ClientFields DEF StartInbox
    <3>3. CASE Answered
      BY <3>3, ClientFields DEF Answered
    <3> QED
      BY <1>4, <3>1, <3>2, <3>3
  <2>2. client'.pc \notin Runs
    BY <2>1, RunsAssumption
  <2>3. client'.page \in Nat /\ client'.total \in Nat /\ client'.read \in Nat
    <3>1. client'.page = 1 /\ client'.total = 0 /\ client'.read = 0
      BY <2>1
    <3> QED
      BY <3>1
  <2>4. client'.pc \in Runs <=> client'.kind = "timeline" /\ client'.pc # "done"
    BY <2>1, <2>2
  <2>5. client'.risen \subseteq AllGroups /\ client'.moved \in BOOLEAN /\ DOMAIN client' = DOMAIN NoClient
    BY <2>1
  <2>6. client'.pc \in {"none", "ready", "count", "rows", "done"} \cup Runs
    BY <2>1
  <2> QED
    BY <2>3, <2>4, <2>5, <2>6, Zenon
<1>5. ASSUME NEW r \in Runs, StartTimeline(r) PROVE ClientOK'
  <2>1. /\ \/ client'.pc = "done" /\ client'.kind = "404"
           \/ client'.pc = r /\ client'.kind = "timeline"
        /\ client'.risen = {} /\ client'.moved = FALSE
        /\ client'.page = 1 /\ client'.total = 0 /\ client'.read = 0
        /\ DOMAIN client' = DOMAIN NoClient
    BY <1>5, ClientFields DEF StartTimeline
  <2>2. "done" \notin Runs
    BY RunsAssumption
  <2>3. client'.page \in Nat /\ client'.total \in Nat /\ client'.read \in Nat
    <3>1. client'.page = 1 /\ client'.total = 0 /\ client'.read = 0
      BY <2>1
    <3> QED
      BY <3>1
  <2>4. client'.pc \in Runs <=> client'.kind = "timeline" /\ client'.pc # "done"
    BY <2>1, <2>2
  <2>5. client'.risen \subseteq AllGroups /\ client'.moved \in BOOLEAN /\ DOMAIN client' = DOMAIN NoClient
    BY <2>1
  <2>6. client'.pc \in {"none", "ready", "count", "rows", "done"} \cup Runs
    BY <2>1
  <2> QED
    BY <2>3, <2>4, <2>5, <2>6, Zenon
<1>6. CASE ReadTotal
  <2>1. /\ client'.pc = "rows" /\ client'.kind = client.kind /\ client'.risen = client.risen
        /\ client'.page = client.page /\ client'.read = client.read /\ client'.moved = client.moved
        /\ client'.total = (IF client.kind = "fleet" THEN Cardinality(Groups) ELSE Len(anomalies))
        /\ DOMAIN client' = DOMAIN client
    BY <1>0, <1>6, ClientFields DEF ReadTotal
  <2>2. client'.total \in Nat
    BY <2>1, GroupsFinite DEF TypeOK
  <2>3. client.pc \notin Runs /\ client.pc # "done" /\ "rows" \notin Runs
    BY <1>6, RunsAssumption DEF ReadTotal
  <2>4. client'.pc \in Runs <=> client'.kind = "timeline" /\ client'.pc # "done"
    BY <1>0, <2>1, <2>3, Zenon
  <2>5. client'.page \in Nat /\ client'.read \in Nat
    BY <1>0, <2>1
  <2>6. client'.risen \subseteq AllGroups /\ client'.moved \in BOOLEAN /\ DOMAIN client' = DOMAIN NoClient
    BY <1>0, <2>1, Zenon
  <2> QED
    BY <2>1, <2>2, <2>4, <2>5, <2>6, Zenon
<1>7. CASE ReadPage
  <2>1. PICK o \in IF client.kind = "fleet" THEN FleetOrders ELSE InboxOrders :
          client' = [client EXCEPT !.pc = IF Len(Page(o, client.page)) = PageSize THEN "count" ELSE "done",
                       !.page = IF Len(Page(o, client.page)) = PageSize THEN @ + 1 ELSE @,
                       !.read = @ + Len(Page(o, client.page)),
                       !.seen = @ \cup ToSet(Page(o, client.page))]
    BY <1>7 DEF ReadPage
  <2>2. /\ client'.pc \in {"count", "done"} /\ client'.kind = client.kind
        /\ client'.risen = client.risen /\ client'.total = client.total
        /\ client'.page \in {client.page, client.page + 1}
        /\ client'.read = client.read + Len(Page(o, client.page))
        /\ client'.moved = client.moved /\ DOMAIN client' = DOMAIN client
    BY <1>0, <2>1, ClientFields
  <2>3. Len(Page(o, client.page)) \in Nat
    <3>1. IsFiniteSet(DOMAIN anomalies)
      BY UpTo DEF TypeOK
    <3>2. o \in SetToSeqs(Groups) \/ o \in SetToSeqs(DOMAIN anomalies)
      BY DEF FleetOrders, InboxOrders
    <3>3. o \in Seq(Groups) \/ o \in Seq(DOMAIN anomalies)
      BY <3>1, <3>2, GroupsFinite, Listing
    <3> QED
      BY <1>0, <3>3, PageLength
  <2>4. client.pc \notin Runs /\ client.pc # "done" /\ "count" \notin Runs /\ "done" \notin Runs
    BY <1>7, RunsAssumption DEF ReadPage
  <2>5. client'.pc \in Runs <=> client'.kind = "timeline" /\ client'.pc # "done"
    BY <1>0, <2>2, <2>4, Zenon
  <2>6. client'.page \in Nat /\ client'.read \in Nat /\ client'.total \in Nat
    BY <1>0, <2>2, <2>3
  <2>7. client'.risen \subseteq AllGroups /\ client'.moved \in BOOLEAN /\ DOMAIN client' = DOMAIN NoClient
    BY <1>0, <2>2, Zenon
  <2> QED
    BY <2>2, <2>5, <2>6, <2>7, Zenon
<1>8. CASE ReadRunAnomalies
  <2>1. /\ client'.pc = "done" /\ client'.risen = client.risen /\ DOMAIN client' = DOMAIN client
        /\ client'.page = client.page /\ client'.read = client.read /\ client'.total = client.total
        /\ client'.moved = client.moved
    BY <1>0, <1>8, ClientFields DEF ReadRunAnomalies
  <2> QED
    BY <1>0, <2>1, RunsAssumption
<1>9. CASE Writing
  BY <1>1, <1>2, <1>3, <1>9, RunStored DEF Writing
<1> QED
  BY <1>1, <1>4, <1>5, <1>6, <1>7, <1>8, <1>9, Actors, Frames DEF Reading, vars

LEMMA TypeStep == ASSUME TypeOK, [Next]_vars PROVE TypeOK'
BY TypeParts, StoreType, CycleType, ClientType

-----------------------------------------------------------------------------
(***************************************************************************)
(* A rollup is never short of its runs' anomalies.                         *)
(***************************************************************************)

\* A row stays what it is held to while no run of its moves.
LEMMA HeldStays ==
  ASSUME TypeOK, Grows, NEW row, Held(row),
         \A i \in row.own : group'[anomalies[i].run] = group[anomalies[i].run]
  PROVE  Held(row)'
BY DEF Held, Grows

\* So it does for the anomalies of runs that stay, when one moves.
LEMMA HeldMoves ==
  ASSUME TypeOK, NEW r \in Runs, StoreRun(r), NEW row \in Rows, Held(row),
         NEW kept, kept = [row EXCEPT !.own = @ \ Own({r})]
  PROVE  Held(kept)'
<1>1. kept.own = row.own \ Own({r}) /\ kept.group = row.group
  BY DEF Rows
<1>2. Grows /\ \A q \in Runs \ {r} : group'[q] = group[q]
  BY RunStored
<1>3. ASSUME NEW i \in kept.own
      PROVE  /\ i \in DOMAIN anomalies' /\ anomalies'[i].agent = row.group.agent
             /\ group'[anomalies'[i].run] = row.group
  <2>1. i \in row.own /\ i \in DOMAIN anomalies /\ i \notin Own({r})
    BY <1>1, <1>3 DEF Held
  <2>2. anomalies[i].run # r /\ anomalies[i].run \in Runs
    BY <2>1 DEF Own, TypeOK, Stored
  <2>3. group'[anomalies[i].run] = group[anomalies[i].run]
    BY <1>2, <2>2
  <2>4. i \in DOMAIN anomalies' /\ anomalies'[i] = anomalies[i]
    BY <1>2, <2>1 DEF Grows
  <2> QED
    BY <2>1, <2>3, <2>4 DEF Held
<1> QED
  BY <1>1, <1>3 DEF Held

LEMMA CountStep ==
  ASSUME TypeOK, CountInv, NeverUndercounts, [Next]_vars
  PROVE  CountInv' /\ NeverUndercounts'
<1>0. Grows
  BY StepGrows
<1>1. ASSUME \A m \in Materializers : cycle'[m] = cycle[m], rollups' = rollups, Settled
      PROVE  CountInv' /\ NeverUndercounts'
  <2>1. ASSUME NEW m \in Materializers, NEW row \in cycle[m].rows PROVE Held(row)'
    <3>1. Held(row)
      BY DEF CountInv
    <3>2. \A i \in row.own : group'[anomalies[i].run] = group[anomalies[i].run]
      BY <1>1, <3>1 DEF Held, Settled, TypeOK
    <3> QED
      BY <1>0, <3>1, <3>2, HeldStays
  <2> QED
    BY <1>1, <2>1 DEF CountInv, NeverUndercounts
<1>2. ASSUME NEW r \in Runs, StoreRun(r), Moved(r) PROVE CountInv' /\ NeverUndercounts'
  <2>1. NeverUndercounts'
    BY <1>2 DEF StoreRun, NeverUndercounts
  <2>2. ASSUME NEW m \in Materializers
        PROVE  /\ \A row \in cycle'[m].rows : Held(row)'
               /\ cycle'[m].pc = "persist" => cycle'[m].row.own \subseteq cycle'[m].row.counted
    <3>1. cycle[m] \in Cycles
      BY DEF TypeOK
    <3>2. cycle'[m] = [cycle[m] EXCEPT !.rows = {[row EXCEPT !.own = @ \ Own({r})] : row \in @}]
      BY <1>2 DEF Moved
    <3>3. /\ cycle'[m].rows = {[row EXCEPT !.own = @ \ Own({r})] : row \in cycle[m].rows}
          /\ cycle'[m].pc = cycle[m].pc
          /\ cycle[m].pc = "persist" => cycle'[m].row = cycle[m].row
          /\ cycle[m].rows \subseteq Rows
      BY <3>1, <3>2 DEF Cycles
    <3>4. ASSUME NEW row \in cycle[m].rows, NEW kept, kept = [row EXCEPT !.own = @ \ Own({r})]
          PROVE  Held(kept)'
      BY <1>2, <3>3, <3>4, HeldMoves DEF CountInv
    <3> QED
      BY <3>3, <3>4 DEF CountInv
  <2> QED
    BY <2>1, <2>2 DEF CountInv
<1>3. CASE Writing
  <2>1. ASSUME NEW r \in Runs, StoreRun(r) PROVE CountInv' /\ NeverUndercounts'
    <3>1. rollups' = rollups
      BY <2>1 DEF StoreRun
    <3> QED
      BY <1>1, <1>2, <2>1, <3>1, RunStored
  <2>2. ASSUME NEW r \in Runs, StoreAnomaly(r) PROVE CountInv' /\ NeverUndercounts'
    <3>1. Settled /\ rollups' = rollups /\ cycle' = cycle
      BY <2>2, AnomalyStored DEF StoreAnomaly
    <3> QED
      BY <1>1, <3>1
  <2> QED
    BY <1>3, <2>1, <2>2 DEF Writing
<1>4. CASE UNCHANGED <<store, rollups, cycle>>
  BY <1>1, <1>4, StoreUnchanged
\* A materializer leaves the tables and the others alone.
<1>5. ASSUME NEW m \in Materializers, NEW c,
             UNCHANGED store, cycle' = [cycle EXCEPT ![m] = c],
             \A row \in c.rows : Held(row),
             c.pc = "persist" => c.row.own \subseteq c.row.counted
      PROVE  CountInv'
  <2>1. ASSUME NEW row, Held(row) PROVE Held(row)'
    BY <1>5, <2>1 DEF Held, store, runs
  <2>2. /\ cycle'[m] = c
        /\ \A o \in Materializers \ {m} : cycle'[o] = cycle[o]
    BY <1>5 DEF TypeOK
  <2>3. ASSUME NEW o \in Materializers
        PROVE  /\ \A row \in cycle'[o].rows : Held(row)'
               /\ cycle'[o].pc = "persist" => cycle'[o].row.own \subseteq cycle'[o].row.counted
    <3>1. CASE o = m
      BY <1>5, <2>1, <2>2, <3>1
    <3>2. CASE o # m
      BY <2>1, <2>2, <3>2 DEF CountInv
    <3> QED
      BY <3>1, <3>2
  <2> QED
    BY <2>3 DEF CountInv
<1>6. ASSUME NEW m \in Materializers, NEW agent, NEW workload, GroupRuns(m, agent, workload)
      PROVE  CountInv' /\ NeverUndercounts'
  <2> DEFINE c == [pc |-> "count", rows |-> {Row(g) : g \in Selected(agent, workload)}]
  <2>1. ASSUME NEW g \in Groups PROVE Held(Row(g))
    BY DEF Held, Row, Own, RunsOf
  <2>2. \A row \in c.rows : Held(row)
    BY <2>1 DEF Selected
  <2>3. cycle' = [cycle EXCEPT ![m] = c] /\ UNCHANGED <<store, rollups>> /\ c.pc = "count"
    BY <1>6 DEF GroupRuns
  <2> HIDE DEF c
  <2> QED
    BY <1>5, <2>2, <2>3 DEF NeverUndercounts
<1>7. ASSUME NEW m \in Materializers, CountAnomalies(m) PROVE CountInv' /\ NeverUndercounts'
  <2> DEFINE counted(row) == {i \in DOMAIN anomalies : Matches(i, row.group)}
             c(row) == [pc |-> "persist", rows |-> cycle[m].rows \ {row},
                        row |-> [row EXCEPT !.counted = counted(row)]]
  <2>1. PICK row \in cycle[m].rows : cycle' = [cycle EXCEPT ![m] = c(row)]
    BY <1>7 DEF CountAnomalies
  <2>2. Held(row) /\ row \in Rows
    <3>1. cycle[m].rows \subseteq Rows
      BY DEF TypeOK, Cycles
    <3> QED
      BY <2>1, <3>1 DEF CountInv
  <2>3. row.own \subseteq counted(row)
    BY <2>2 DEF Held, Matches
  <2>4. c(row).row.own \subseteq c(row).row.counted
    <3>1. c(row).row.own = row.own /\ c(row).row.counted = counted(row)
      BY <2>2 DEF Rows
    <3> QED
      BY <2>3, <3>1
  <2>5. \A q \in c(row).rows : Held(q)
    BY DEF CountInv
  <2>6. UNCHANGED <<store, rollups>>
    BY <1>7 DEF CountAnomalies
  <2> HIDE DEF c
  <2> QED
    BY <1>5, <2>1, <2>4, <2>5, <2>6 DEF NeverUndercounts
<1>8. ASSUME NEW m \in Materializers, PersistRollup(m) PROVE CountInv' /\ NeverUndercounts'
  <2> DEFINE c == [pc |-> "count", rows |-> cycle[m].rows]
  <2>1. cycle[m].row.own \subseteq cycle[m].row.counted
    BY <1>8 DEF PersistRollup, CountInv
  <2>2. NeverUndercounts'
    BY <1>8, <2>1 DEF PersistRollup, NeverUndercounts, TypeOK
  <2>3. cycle' = [cycle EXCEPT ![m] = c] /\ UNCHANGED store /\ c.pc = "count"
    BY <1>8 DEF PersistRollup
  <2>4. \A q \in c.rows : Held(q)
    BY DEF CountInv
  <2> HIDE DEF c
  <2> QED
    BY <1>5, <2>2, <2>3, <2>4
<1>9. ASSUME NEW m \in Materializers, MaterializeCohorts(m) \/ FleetFails(m)
      PROVE  CountInv' /\ NeverUndercounts'
  <2>1. cycle' = [cycle EXCEPT ![m] = Idle] /\ UNCHANGED <<store, rollups>>
    BY <1>9 DEF MaterializeCohorts, FleetFails
  <2>2. Idle.rows = {} /\ Idle.pc = "idle"
    BY DEF Idle
  <2> QED
    BY <1>5, <2>1, <2>2 DEF NeverUndercounts
<1>10. CASE Cycling
  BY <1>6, <1>7, <1>8, <1>9, <1>10 DEF Cycling, Materialize
<1> QED
  BY <1>3, <1>4, <1>10, Actors, Frames DEF vars

-----------------------------------------------------------------------------
(***************************************************************************)
(* What stands before an item.  Where an anomaly without ties, or a group  *)
(* without siblings, stands in an answer is decided by those before it:    *)
(* these only become more, unless a run moves or the group rises.          *)
(***************************************************************************)

\* The type of what the database sorts by.
LEMMA Sorted ==
  ASSUME TypeOK
  PROVE  /\ Len(anomalies) \in Nat /\ DOMAIN anomalies = 1 .. Len(anomalies)
         /\ IsFiniteSet(DOMAIN anomalies) /\ Cardinality(DOMAIN anomalies) = Len(anomalies)
         /\ \A i \in DOMAIN anomalies : anomalies[i].at \in Nat
         /\ \A g \in Groups : g.agent \in Int /\ g.version \in Int /\ FleetAnomalies(g) \in Nat
<1>1. Len(anomalies) \in Nat /\ DOMAIN anomalies = 1 .. Len(anomalies)
  BY DEF TypeOK
<1>2. IsFiniteSet(DOMAIN anomalies) /\ Cardinality(DOMAIN anomalies) = Len(anomalies)
  BY <1>1, UpTo
<1>3. ASSUME NEW i \in DOMAIN anomalies PROVE anomalies[i].at \in Nat
  <2>1. anomalies[i] \in [run : Runs, agent : Name, at : Times]
    <3> DEFINE R == [run : Runs, agent : Name, at : Times]
    <3>1. anomalies \in Seq(R) /\ i \in 1 .. Len(anomalies)
      BY <1>1, <1>3 DEF TypeOK
    <3> HIDE DEF R
    <3>2. anomalies[i] \in R
      BY <3>1
    <3> QED
      BY <3>2 DEF R
  <2>2. anomalies[i].at \in Times
    BY <2>1
  <2> QED
    BY <2>2, BoundAssumption
<1>4. ASSUME NEW g \in Groups PROVE g.agent \in Int /\ g.version \in Int
  BY GroupAssumption DEF Groups, Stored, Name, TypeOK
<1>5. ASSUME NEW g \in Groups PROVE FleetAnomalies(g) \in Nat
  <2>1. Own(RunsOf(g)) \in SUBSET (DOMAIN anomalies)
    BY DEF Own
  <2>2. Cardinality(Own(RunsOf(g))) \in Nat
    BY <1>2, <2>1, FS_Subset, FS_CardinalityType
  <2> QED
    BY <2>2 DEF FleetAnomalies
<1> QED
  BY <1>1, <1>2, <1>3, <1>4, <1>5

\* The same of the next state.
LEMMA SortedNext ==
  ASSUME TypeOK'
  PROVE  /\ Len(anomalies') \in Nat /\ DOMAIN anomalies' = 1 .. Len(anomalies')
         /\ IsFiniteSet(DOMAIN anomalies')
<1>1. Len(anomalies') \in Nat /\ DOMAIN anomalies' = 1 .. Len(anomalies')
  BY DEF TypeOK
<1> QED
  BY <1>1, UpTo

LEMMA TablesKept ==
  ASSUME UNCHANGED store
  PROVE  /\ Groups' = Groups /\ anomalies' = anomalies
         /\ \A rs : Own(rs)' = Own(rs)
         /\ \A i : Newer(i)' = Newer(i) /\ (Tied(i)' <=> Tied(i))
         /\ \A g : Ahead(g)' = Ahead(g) /\ (HasSibling(g)' <=> HasSibling(g))
<1>1. status' = status /\ group' = group /\ anomalies' = anomalies
  BY DEF store, runs
<1>2. Stored' = Stored /\ Groups' = Groups
  BY <1>1 DEF Stored, Groups
<1>3. \A g : FleetAnomalies(g)' = FleetAnomalies(g)
  BY <1>1, <1>2 DEF FleetAnomalies, Own, RunsOf
<1>4. \A g : Ahead(g)' = Ahead(g) /\ (HasSibling(g)' <=> HasSibling(g))
  BY <1>2, <1>3 DEF Ahead, Before, HasSibling, Siblings
<1> QED
  BY <1>1, <1>2, <1>4 DEF Own, Newer, Tied

\* No group disappears when no run moves.
LEMMA GroupsGrow ==
  ASSUME Grows, Settled
  PROVE  Groups \subseteq Groups' /\ Cardinality(Groups) <= Cardinality(Groups')
<1>1. Groups \in SUBSET Groups'
  BY DEF Grows, Settled, Groups
<1> QED
  BY <1>1, GroupsFinite, FS_Subset

\* What a group owns depends on the groups of the runs alone.
LEMMA OwnByGroup ==
  ASSUME TypeOK, NEW g
  PROVE  Own(RunsOf(g)) = {i \in DOMAIN anomalies : group[anomalies[i].run] = g}
BY DEF TypeOK, Own, RunsOf

LEMMA OwnByGroupNext ==
  ASSUME TypeOK', NEW g
  PROVE  Own(RunsOf(g))' = {i \in DOMAIN anomalies' : group'[anomalies'[i].run] = g}
BY DEF TypeOK, Own, RunsOf, Stored

\* A group keeps its anomalies, unless one of its own runs gains one.
LEMMA OthersKeep ==
  ASSUME TypeOK, TypeOK', Settled, NEW g,
         \/ anomalies' = anomalies
         \/ \E r \in Stored, a \in Name, t \in Times :
              anomalies' = Append(anomalies, [run |-> r, agent |-> a, at |-> t]) /\ group[r] # g
  PROVE  FleetAnomalies(g)' = FleetAnomalies(g)
<1>1. \A i \in DOMAIN anomalies : group'[anomalies[i].run] = group[anomalies[i].run]
  BY DEF TypeOK, Settled
<1>2. Own(RunsOf(g))' = Own(RunsOf(g))
  <2>1. CASE anomalies' = anomalies
    BY <1>1, <2>1, OwnByGroup, OwnByGroupNext
  <2>2. ASSUME NEW r \in Stored, NEW a \in Name, NEW t \in Times, group[r] # g,
               anomalies' = Append(anomalies, [run |-> r, agent |-> a, at |-> t])
        PROVE  Own(RunsOf(g))' = Own(RunsOf(g))
    <3>1. /\ DOMAIN anomalies' = DOMAIN anomalies \cup {Len(anomalies) + 1}
          /\ \A i \in DOMAIN anomalies : anomalies'[i] = anomalies[i]
          /\ anomalies'[Len(anomalies) + 1].run = r
      BY <2>2 DEF TypeOK
    <3>2. group'[r] # g
      BY <2>2 DEF Settled
    <3>3. {i \in DOMAIN anomalies' : group'[anomalies'[i].run] = g}
            = {i \in DOMAIN anomalies : group[anomalies[i].run] = g}
      BY <1>1, <3>1, <3>2
    <3> QED
      BY <3>3, OwnByGroup, OwnByGroupNext
  <2> QED
    BY <2>1, <2>2
<1> QED
  BY <1>2 DEF FleetAnomalies

\* No group loses anomalies.
LEMMA NoneLose ==
  ASSUME TypeOK, TypeOK', Grows, Settled, NEW h \in Groups
  PROVE  FleetAnomalies(h) <= FleetAnomalies(h)' /\ FleetAnomalies(h)' \in Nat
<1>1. Own(RunsOf(h)) \in SUBSET Own(RunsOf(h))'
  <2>1. \A i \in DOMAIN anomalies : group'[anomalies'[i].run] = group[anomalies[i].run]
    BY DEF TypeOK, Settled, Grows
  <2> QED
    BY <2>1, OwnByGroup, OwnByGroupNext DEF Grows
<1>2. Own(RunsOf(h))' \in SUBSET (DOMAIN anomalies')
  BY DEF Own
<1>3. IsFiniteSet(Own(RunsOf(h))')
  BY <1>2, SortedNext, FS_Subset
<1>4. /\ Cardinality(Own(RunsOf(h))) <= Cardinality(Own(RunsOf(h))')
      /\ Cardinality(Own(RunsOf(h))') \in Nat
  BY <1>1, <1>3, FS_Subset, FS_CardinalityType
<1> QED
  BY <1>4 DEF FleetAnomalies

\* So the groups before one that keeps its number stay before it.
LEMMA AheadGrows ==
  ASSUME TypeOK, TypeOK', Grows, Settled, NEW g \in Groups, FleetAnomalies(g)' = FleetAnomalies(g)
  PROVE  /\ Cardinality(Ahead(g)) \in Nat /\ Cardinality(Ahead(g)') \in Nat
         /\ Cardinality(Ahead(g)) <= Cardinality(Ahead(g)')
<1>1. ASSUME NEW h \in Ahead(g) PROVE h \in Ahead(g)'
  <2>1. h \in Groups /\ h \in Groups' /\ Before(h, g)
    BY <1>1, GroupsGrow DEF Ahead
  <2>2. FleetAnomalies(h) <= FleetAnomalies(h)' /\ FleetAnomalies(h)' \in Nat
    BY <2>1, NoneLose
  <2>3. FleetAnomalies(h) \in Nat /\ FleetAnomalies(g) \in Nat
    BY <2>1, Sorted
  <2>4. Before(h, g)'
    BY <2>1, <2>2, <2>3 DEF Before
  <2> QED
    BY <2>1, <2>4 DEF Ahead
<1>2. Ahead(g)' \in SUBSET Groups' /\ Ahead(g) \in SUBSET Ahead(g)'
  BY <1>1 DEF Ahead
<1>3. IsFiniteSet(Ahead(g)')
  BY <1>2, GroupsFinite, FS_Subset
<1> QED
  BY <1>2, <1>3, FS_Subset, FS_CardinalityType

\* And the anomalies newer than another.
LEMMA NewerGrows ==
  ASSUME TypeOK, TypeOK', Grows, NEW i \in DOMAIN anomalies
  PROVE  /\ Cardinality(Newer(i)) \in Nat /\ Cardinality(Newer(i)') \in Nat
         /\ Cardinality(Newer(i)) <= Cardinality(Newer(i)')
<1>1. Newer(i) \in SUBSET Newer(i)' /\ Newer(i)' \in SUBSET (DOMAIN anomalies')
  BY DEF Newer, Grows
<1>2. IsFiniteSet(Newer(i)')
  BY <1>1, SortedNext, FS_Subset
<1> QED
  BY <1>1, <1>2, FS_Subset, FS_CardinalityType

\* A page that does not hold an anomaly without ties ends before it.
LEMMA InboxPage ==
  ASSUME TypeOK, NEW o \in InboxOrders, NEW i \in DOMAIN anomalies, ~Tied(i),
         NEW page, NEW k \in Nat, k = Offset(page), k <= Cardinality(Newer(i)),
         i \notin ToSet(Page(o, page))
  PROVE  Len(Page(o, page)) = PageSize /\ k + PageSize <= Cardinality(Newer(i))
<1> DEFINE S == DOMAIN anomalies
           A == Newer(i)
<1>1. IsFiniteSet(S) /\ \A j \in S : anomalies[j].at \in Nat
  BY Sorted
<1>2. o \in SetToSeqs(S) /\ \A a, b \in DOMAIN o : anomalies[o[a]].at > anomalies[o[b]].at => a < b
  BY DEF InboxOrders
<1>3. \A a \in DOMAIN o : o[a] \in S
  BY <1>1, <1>2, Listing
<1>4. A \in SUBSET S /\ i \notin A
  BY <1>1 DEF Newer
<1>5. \A a, b \in DOMAIN o : o[a] \in A /\ o[b] = i => a < b
  BY <1>2 DEF Newer
<1>6. ASSUME NEW a \in DOMAIN o, NEW b \in DOMAIN o, o[a] = i, o[b] \notin A \cup {i} PROVE a < b
  <2>1. o[b] \in S /\ o[b] # i /\ ~(anomalies[o[b]].at > anomalies[i].at)
    BY <1>3, <1>6 DEF Newer
  <2>2. anomalies[o[b]].at # anomalies[i].at
    BY <2>1 DEF Tied
  <2>3. anomalies[i].at > anomalies[o[b]].at
    BY <1>1, <2>1, <2>2
  <2> QED
    BY <1>2, <1>6, <2>3
<1> HIDE DEF S, A
<1>7. Len(Page(o, page)) = PageSize /\ k + PageSize <= Cardinality(A)
  <2>1. i \in S /\ k <= Cardinality(A)
    BY DEF S, A
  <2> QED
    BY <1>1, <1>2, <1>4, <1>5, <1>6, <2>1, PageStopsBefore
<1> QED
  BY <1>7 DEF A

\* Nor a group without siblings.
LEMMA FleetPage ==
  ASSUME TypeOK, NEW o \in FleetOrders, NEW g \in Groups, ~HasSibling(g),
         NEW page, NEW k \in Nat, k = Offset(page), k <= Cardinality(Ahead(g)),
         g \notin ToSet(Page(o, page))
  PROVE  Len(Page(o, page)) = PageSize /\ k + PageSize <= Cardinality(Ahead(g))
<1> DEFINE A == Ahead(g)
<1>1. IsFiniteSet(Groups)
      /\ \A h \in Groups : h.agent \in Int /\ h.version \in Int /\ FleetAnomalies(h) \in Nat
  BY Sorted, GroupsFinite
<1>2. o \in SetToSeqs(Groups) /\ \A a, b \in DOMAIN o : Before(o[a], o[b]) => a < b
  BY DEF FleetOrders
<1>3. \A a \in DOMAIN o : o[a] \in Groups
  BY <1>1, <1>2, Listing
<1>4. A \in SUBSET Groups /\ g \notin A
  BY <1>1 DEF Ahead, Before
<1>5. \A a, b \in DOMAIN o : o[a] \in A /\ o[b] = g => a < b
  BY <1>2 DEF Ahead
<1>6. ASSUME NEW a \in DOMAIN o, NEW b \in DOMAIN o, o[a] = g, o[b] \notin A \cup {g} PROVE a < b
  <2>1. o[b] \in Groups /\ o[b] # g /\ ~Before(o[b], g)
    BY <1>3, <1>6 DEF Ahead
  <2>2. ~Siblings(g, o[b])
    BY <2>1 DEF HasSibling
  <2>3. Before(g, o[b])
    BY <1>1, <2>1, <2>2 DEF Before, Siblings
  <2> QED
    BY <1>2, <1>6, <2>3
<1> HIDE DEF A
<1>7. Len(Page(o, page)) = PageSize /\ k + PageSize <= Cardinality(A)
  <2>1. k <= Cardinality(A)
    BY DEF A
  <2> QED
    BY <1>1, <1>2, <1>4, <1>5, <1>6, <2>1, PageStopsBefore
<1> QED
  BY <1>7 DEF A

-----------------------------------------------------------------------------
(***************************************************************************)
(* The readers.                                                            *)
(***************************************************************************)

\* Readers stand by while others write or materialize.  A client of the fleet from
\* which a run moved is not held to its pages any more; for one from which none did,
\* the groups that do not rise keep their anomalies.
LEMMA ReaderRests ==
  ASSUME TypeOK, TypeOK', ReadersInv, Grows,
         \A f \in {"pc", "kind", "page", "total", "read", "expect", "seen"} : client'[f] = client[f],
         client.risen \subseteq client'.risen,
         client.moved => client'.moved,
         \/ client.pc \in {"count", "rows", "done"} => client'.moved
         \/ /\ Settled
            /\ \A g \in Groups :
                 client.pc \in {"count", "rows"} =>
                   g \in client'.risen \/ FleetAnomalies(g)' = FleetAnomalies(g)
  PROVE  ReadersInv'
<1>1. /\ client'.pc = client.pc /\ client'.kind = client.kind /\ client'.page = client.page
      /\ client'.total = client.total /\ client'.read = client.read
      /\ client'.expect = client.expect /\ client'.seen = client.seen
  OBVIOUS
<1>2. TotalIsDelivered' /\ TimelineComplete'
  BY <1>1 DEF ReadersInv, TotalIsDelivered, TimelineComplete
<1>3. TimelineInv'
  BY <1>1 DEF ReadersInv, TimelineInv, Own, Grows
<1>4. /\ Len(anomalies) \in Nat /\ Len(anomalies') \in Nat /\ Len(anomalies) <= Len(anomalies')
      /\ client.read \in Nat /\ client.total \in Nat
  BY DEF TypeOK, Grows
<1>5. PagesInv'
  <2> SUFFICES ASSUME client.pc \in {"count", "rows"} PROVE PagesInv'
    BY <1>1 DEF PagesInv
  <2>1. PagesInv
    BY DEF ReadersInv
  <2>2. client'.kind \in {"fleet", "inbox"} /\ client'.read = Offset(client'.page)
    BY <1>1, <2>1 DEF PagesInv, Offset
  <2>3. ASSUME ~Shifted'
        PROVE  client'.read <= Listed' /\ (client'.pc = "rows" => client'.total <= Listed')
    <3>1. ~Shifted
      BY <1>1, <2>3 DEF Shifted
    <3>2. client.read <= Listed /\ (client.pc = "rows" => client.total <= Listed)
      BY <2>1, <3>1 DEF PagesInv
    <3>3. Listed \in Nat /\ Listed' \in Nat /\ Listed <= Listed'
      <4>1. CASE client.kind = "fleet"
        <5>1. Settled
          BY <1>1, <2>3, <4>1 DEF Shifted
        <5> QED
          BY <1>1, <4>1, <5>1, GroupsGrow, GroupsFinite DEF Listed
      <4>2. CASE client.kind # "fleet"
        BY <1>1, <1>4, <4>2 DEF Listed
      <4> QED
        BY <4>1, <4>2
    <3> QED
      BY <1>1, <1>4, <3>2, <3>3
  <2> QED
    BY <2>2, <2>3 DEF PagesInv
<1>6. InboxInv'
  <2> SUFFICES ASSUME client.kind = "inbox", client.pc \in {"count", "rows", "done"}, NEW i \in client.expect
               PROVE  /\ i \in DOMAIN anomalies'
                      /\ \/ i \in client.seen
                         \/ Tied(i)'
                         \/ (client.pc # "done" /\ client.read <= Cardinality(Newer(i)'))
    BY <1>1 DEF InboxInv
  <2>1. /\ i \in DOMAIN anomalies
        /\ \/ i \in client.seen
           \/ Tied(i)
           \/ (client.pc # "done" /\ client.read <= Cardinality(Newer(i)))
    BY DEF ReadersInv, InboxInv
  <2>2. i \in DOMAIN anomalies'
    BY <2>1 DEF Grows
  <2>3. Tied(i) => Tied(i)'
    BY <2>1 DEF Tied, Grows
  <2>4. /\ Cardinality(Newer(i)) \in Nat /\ Cardinality(Newer(i)') \in Nat
        /\ Cardinality(Newer(i)) <= Cardinality(Newer(i)')
    BY <2>1, NewerGrows
  <2>5. client.read <= Cardinality(Newer(i)) => client.read <= Cardinality(Newer(i)')
    BY <1>4, <2>4
  <2> QED
    BY <2>1, <2>2, <2>3, <2>5
<1>7. FleetInv'
  <2> SUFFICES ASSUME client.kind = "fleet", client.pc \in {"count", "rows", "done"}, ~client'.moved,
                      NEW g \in client.expect
               PROVE  /\ g \in Groups'
                      /\ \/ g \in client.seen
                         \/ g \in client'.risen
                         \/ HasSibling(g)'
                         \/ (client.pc # "done" /\ client.read <= Cardinality(Ahead(g)'))
    BY <1>1 DEF FleetInv
  <2>1. /\ g \in Groups
        /\ \/ g \in client.seen
           \/ g \in client.risen
           \/ HasSibling(g)
           \/ (client.pc # "done" /\ client.read <= Cardinality(Ahead(g)))
    BY DEF ReadersInv, FleetInv
  <2>2. Settled
    OBVIOUS
  <2>3. g \in Groups' /\ (HasSibling(g) => HasSibling(g)')
    BY <2>1, <2>2, GroupsGrow DEF HasSibling, Siblings
  <2>4. CASE client.pc # "done" /\ client.read <= Cardinality(Ahead(g))
    <3>1. g \in client'.risen \/ FleetAnomalies(g)' = FleetAnomalies(g)
      BY <2>1, <2>4
    <3>2. ASSUME FleetAnomalies(g)' = FleetAnomalies(g)
          PROVE  client.read <= Cardinality(Ahead(g)')
      <4>1. /\ Cardinality(Ahead(g)) \in Nat /\ Cardinality(Ahead(g)') \in Nat
            /\ Cardinality(Ahead(g)) <= Cardinality(Ahead(g)')
        BY <2>1, <2>2, <3>2, AheadGrows
      <4> QED
        BY <1>4, <2>4, <4>1
    <3> QED
      BY <2>3, <2>4, <3>1, <3>2
  <2> QED
    BY <2>1, <2>3, <2>4
<1> QED
  BY <1>2, <1>3, <1>5, <1>6, <1>7 DEF ReadersInv

\* What is stored for a client that has begun.
LEMMA ReaderStores ==
  ASSUME TypeOK, TypeOK', ReadersInv, NEW r \in Runs, StoreRun(r) \/ StoreAnomaly(r)
  PROVE  ReadersInv'
<1>0. DOMAIN client = {"pc", "kind", "page", "total", "read", "expect", "seen", "risen", "moved"}
      /\ client.moved \in BOOLEAN
  BY ClientFields DEF TypeOK
<1>1. CASE StoreRun(r)
  <2>1. Grows /\ anomalies' = anomalies
    BY <1>1, RunStored
  <2>2. CASE Settled /\ client' = client
    <3>1. \A g \in Groups : FleetAnomalies(g)' = FleetAnomalies(g)
      BY <2>1, <2>2, OthersKeep
    <3> QED
      BY <2>1, <2>2, <3>1, ReaderRests
  <2>3. CASE Moved(r)
    <3>1. /\ \A f \in {"pc", "kind", "page", "total", "read", "expect", "seen"} : client'[f] = client[f]
          /\ client'.risen = client.risen
          /\ client'.moved = (client.moved \/ client.pc \in {"count", "rows", "done"})
      BY <1>0, <2>3 DEF Moved
    <3> QED
      BY <2>1, <3>1, ReaderRests
  <2> QED
    BY <1>1, <2>2, <2>3, RunStored
<1>2. CASE StoreAnomaly(r)
  <2>1. Grows /\ Settled /\ r \in Stored
    BY <1>2, AnomalyStored
  <2>2. PICK a \in Name, t \in Times : anomalies' = Append(anomalies, [run |-> r, agent |-> a, at |-> t])
    BY <1>2, AnomalyStored
  <2>3. /\ \A f \in {"pc", "kind", "page", "total", "read", "expect", "seen", "moved"} : client'[f] = client[f]
        /\ client'.risen = IF client.pc \in {"count", "rows"} THEN client.risen \cup {group[r]}
                           ELSE client.risen
    BY <1>0, <1>2 DEF StoreAnomaly
  <2>4. ASSUME NEW g \in Groups, client.pc \in {"count", "rows"}
        PROVE  g \in client'.risen \/ FleetAnomalies(g)' = FleetAnomalies(g)
    <3>1. CASE g = group[r]
      BY <2>3, <2>4, <3>1
    <3>2. CASE g # group[r]
      BY <2>1, <2>2, <3>2, OthersKeep
    <3> QED
      BY <3>1, <3>2
  <2> QED
    BY <2>1, <2>3, <2>4, ReaderRests
<1> QED
  BY <1>1, <1>2

\* Nothing is stored while others materialize.
LEMMA ReaderUntouched ==
  ASSUME TypeOK, TypeOK', ReadersInv, UNCHANGED <<store, client>>
  PROVE  ReadersInv'
<1>1. Grows /\ Settled /\ anomalies' = anomalies
  BY StoreUnchanged DEF store
<1>2. \A g \in Groups : FleetAnomalies(g)' = FleetAnomalies(g)
  BY <1>1, OthersKeep
<1> QED
  BY <1>1, <1>2, ReaderRests

\* A client begins with everything still to see.
LEMMA ReaderBegins ==
  ASSUME TypeOK, StartFleet \/ StartInbox \/ Answered \/ \E r \in Runs : StartTimeline(r)
  PROVE  ReadersInv'
<1>0. UNCHANGED store
  BY DEF StartFleet, StartInbox, Answered, StartTimeline
<1>1. Offset(1) = 0
  BY BoundAssumption DEF Offset
<1>2. CASE StartFleet \/ StartInbox
  <2>1. /\ client'.pc = "count" /\ client'.page = 1 /\ client'.total = 0 /\ client'.read = 0
        /\ client'.kind \in {"fleet", "inbox"} /\ client'.seen = {} /\ client'.moved = FALSE
        /\ client'.kind = "fleet" => client'.expect = Groups
        /\ client'.kind = "inbox" => client'.expect = DOMAIN anomalies
    <3>1. CASE StartFleet
      BY <3>1, ClientFields DEF StartFleet
    <3>2. CASE StartInbox
      BY <3>2, ClientFields DEF StartInbox
    <3> QED
      BY <1>2, <3>1, <3>2
  <2>2. PagesInv'
    <3>1. Listed' \in Nat
      BY <1>0, TablesKept, GroupsFinite, Sorted DEF Listed
    <3> QED
      BY <1>1, <2>1, <3>1 DEF PagesInv, Offset
  <2>3. TotalIsDelivered' /\ TimelineComplete' /\ TimelineInv'
    BY <2>1, RunsAssumption DEF TotalIsDelivered, TimelineComplete, TimelineInv
  <2>4. InboxInv'
    <3>1. ASSUME NEW i \in DOMAIN anomalies PROVE 0 <= Cardinality(Newer(i)')
      <4>1. Newer(i)' = Newer(i) /\ Newer(i) \in SUBSET (DOMAIN anomalies)
        BY <1>0, TablesKept DEF Newer
      <4> QED
        BY <4>1, Sorted, FS_Subset, FS_CardinalityType
    <3> QED
      BY <1>0, <2>1, <3>1, TablesKept DEF InboxInv
  <2>5. FleetInv'
    <3>1. ASSUME NEW g \in Groups PROVE 0 <= Cardinality(Ahead(g)')
      <4>1. Ahead(g)' = Ahead(g) /\ Ahead(g) \in SUBSET Groups
        BY <1>0, TablesKept DEF Ahead
      <4> QED
        BY <4>1, GroupsFinite, FS_Subset, FS_CardinalityType
    <3> QED
      BY <1>0, <2>1, <3>1, TablesKept DEF FleetInv
  <2> QED
    BY <2>2, <2>3, <2>4, <2>5 DEF ReadersInv
<1>3. CASE Answered
  <2>1. client'.pc = "ready"
    BY <1>3, ClientFields DEF Answered
  <2> QED
    BY <2>1, RunsAssumption DEF ReadersInv, PagesInv, TotalIsDelivered, TimelineInv, TimelineComplete,
       InboxInv, FleetInv
<1>4. ASSUME NEW r \in Runs, StartTimeline(r) PROVE ReadersInv'
  <2>1. /\ \/ client'.pc = "done" /\ client'.kind = "404"
           \/ client'.pc = r /\ client'.kind = "timeline" /\ client'.expect = Own({r})
        /\ client'.total = 0 /\ client'.read = 0
    BY <1>4, ClientFields DEF StartTimeline
  <2>2. client'.pc # "count" /\ client'.pc # "rows" /\ client'.kind # "fleet" /\ client'.kind # "inbox"
    BY <2>1, RunsAssumption
  <2>3. PagesInv' /\ InboxInv' /\ FleetInv'
    BY <2>2 DEF PagesInv, InboxInv, FleetInv
  <2>4. TotalIsDelivered' /\ TimelineComplete'
    BY <2>1, RunsAssumption DEF TotalIsDelivered, TimelineComplete
  <2>5. TimelineInv'
    BY <1>0, <2>1, TablesKept, RunsAssumption DEF TimelineInv
  <2> QED
    BY <2>3, <2>4, <2>5 DEF ReadersInv
<1> QED
  BY <1>2, <1>3, <1>4

LEMMA ReaderCounts == ASSUME TypeOK, ReadersInv, ReadTotal PROVE ReadersInv'
<1>0. UNCHANGED store /\ client.pc = "count"
  BY DEF ReadTotal
<1>1. /\ client'.pc = "rows" /\ client'.kind = client.kind
      /\ client'.page = client.page /\ client'.read = client.read /\ client'.risen = client.risen
      /\ client'.expect = client.expect /\ client'.seen = client.seen /\ client'.moved = client.moved
      /\ client'.total = IF client.kind = "fleet" THEN Cardinality(Groups) ELSE Len(anomalies)
  BY ClientFields DEF ReadTotal, TypeOK
<1>2. Listed' = Listed /\ client'.total = Listed /\ Listed \in Nat
  BY <1>0, <1>1, TablesKept, GroupsFinite, Sorted DEF Listed
<1>3. PagesInv'
  BY <1>0, <1>1, <1>2 DEF ReadersInv, PagesInv, Offset, Shifted
<1>4. TotalIsDelivered' /\ TimelineComplete' /\ TimelineInv'
  BY <1>1, RunsAssumption DEF TotalIsDelivered, TimelineComplete, TimelineInv
<1>5. InboxInv'
  BY <1>0, <1>1, TablesKept DEF ReadersInv, InboxInv
<1>6. FleetInv'
  BY <1>0, <1>1, TablesKept DEF ReadersInv, FleetInv
<1> QED
  BY <1>3, <1>4, <1>5, <1>6 DEF ReadersInv

LEMMA ReaderTurns == ASSUME TypeOK, ReadersInv, ReadPage PROVE ReadersInv'
<1> USE BoundAssumption
<1>0. UNCHANGED store /\ client.pc = "rows"
  BY DEF ReadPage
<1>1. PICK o \in IF client.kind = "fleet" THEN FleetOrders ELSE InboxOrders :
        client' = [client EXCEPT !.pc = IF Len(Page(o, client.page)) = PageSize THEN "count" ELSE "done",
                     !.page = IF Len(Page(o, client.page)) = PageSize THEN @ + 1 ELSE @,
                     !.read = @ + Len(Page(o, client.page)),
                     !.seen = @ \cup ToSet(Page(o, client.page))]
  BY DEF ReadPage
<1> DEFINE k == client.read
           n == Len(Page(o, client.page))
<1>2. /\ client'.pc = (IF n = PageSize THEN "count" ELSE "done")
      /\ client'.page = (IF n = PageSize THEN client.page + 1 ELSE client.page)
      /\ client'.read = k + n
      /\ client'.seen = client.seen \cup ToSet(Page(o, client.page))
      /\ client'.kind = client.kind /\ client'.total = client.total /\ client'.expect = client.expect
      /\ client'.risen = client.risen /\ client'.moved = client.moved
  BY <1>1, ClientFields DEF TypeOK
<1>3. k \in Nat /\ client.page \in Nat /\ client.total \in Nat /\ Listed \in Nat /\ Listed' = Listed
  BY <1>0, <1>2, TablesKept, GroupsFinite, Sorted DEF TypeOK, Listed
<1>4. /\ client.kind \in {"fleet", "inbox"} /\ k = Offset(client.page)
      /\ ~Shifted => k <= Listed /\ client.total <= Listed
  BY <1>0 DEF ReadersInv, PagesInv
<1>5. \E S : o \in Seq(S) /\ Len(o) = Listed
  <2>1. CASE client.kind = "fleet"
    BY <1>1, <2>1, GroupsFinite, Listing DEF FleetOrders, Listed
  <2>2. CASE client.kind # "fleet"
    BY <1>1, <2>2, Sorted, Listing DEF InboxOrders, Listed
  <2> QED
    BY <2>1, <2>2
<1>6. n \in Nat
  BY <1>3, <1>5, PageLength
<1>7. ASSUME ~Shifted PROVE k + n <= Listed /\ (n # PageSize => k + n = Listed)
  <2>1. k <= Listed /\ PageSize \in Nat
    BY <1>4, <1>7
  <2>2. n = IF k + PageSize <= Listed THEN PageSize ELSE Listed - k
    BY <1>3, <1>4, <1>5, <2>1, PageContents
  <2> HIDE DEF n, k
  <2> QED
    BY <1>3, <2>1, <2>2
<1>8. PagesInv'
  <2> SUFFICES ASSUME n = PageSize PROVE PagesInv'
    BY <1>2 DEF PagesInv
  <2>1. Offset(client.page + 1) = k + PageSize
    <3>1. Offset(client.page + 1) = client.page * PageSize
      BY <1>3 DEF Offset
    <3>2. Offset(client.page) = client.page * PageSize - PageSize
      BY <1>3 DEF Offset
    <3>3. client.page * PageSize \in Int
      BY <1>3
    <3> QED
      BY <1>4, <3>1, <3>2, <3>3
  <2>2. client'.pc = "count" /\ client'.read = Offset(client'.page)
    BY <1>2, <2>1 DEF Offset
  <2>3. ~Shifted' => client'.read <= Listed'
    BY <1>2, <1>3, <1>7 DEF Shifted
  <2> HIDE DEF n, k
  <2> QED
    BY <1>2, <1>4, <2>2, <2>3 DEF PagesInv
<1>9. TotalIsDelivered'
  <2> SUFFICES ASSUME n # PageSize, ~Shifted PROVE client'.read >= client'.total
    BY <1>2 DEF TotalIsDelivered, Shifted
  <2> HIDE DEF n, k
  <2> QED
    BY <1>2, <1>3, <1>4, <1>6, <1>7
<1>10. TimelineComplete' /\ TimelineInv'
  BY <1>2, <1>4, RunsAssumption DEF TimelineComplete, TimelineInv
<1>11. InboxInv'
  <2> SUFFICES ASSUME client.kind = "inbox", NEW i \in client.expect
               PROVE  /\ i \in DOMAIN anomalies
                      /\ \/ i \in client'.seen
                         \/ Tied(i)
                         \/ (client'.pc # "done" /\ client'.read <= Cardinality(Newer(i)))
    BY <1>0, <1>2, TablesKept DEF InboxInv
  <2>1. /\ i \in DOMAIN anomalies
        /\ i \in client.seen \/ Tied(i) \/ k <= Cardinality(Newer(i))
    BY <1>0 DEF ReadersInv, InboxInv
  <2>2. ASSUME ~Tied(i), i \notin client'.seen PROVE n = PageSize /\ k + n <= Cardinality(Newer(i))
    <3>1. i \notin ToSet(Page(o, client.page)) /\ k <= Cardinality(Newer(i)) /\ o \in InboxOrders
      BY <1>1, <1>2, <2>1, <2>2
    <3>2. Len(Page(o, client.page)) = PageSize /\ k + PageSize <= Cardinality(Newer(i))
      BY <1>3, <1>4, <2>1, <2>2, <3>1, InboxPage
    <3> QED
      BY <3>2
  <2> QED
    BY <1>2, <2>1, <2>2
<1>12. FleetInv'
  <2> SUFFICES ASSUME client.kind = "fleet", ~client.moved, NEW g \in client.expect
               PROVE  /\ g \in Groups
                      /\ \/ g \in client'.seen
                         \/ g \in client'.risen
                         \/ HasSibling(g)
                         \/ (client'.pc # "done" /\ client'.read <= Cardinality(Ahead(g)))
    BY <1>0, <1>2, TablesKept DEF FleetInv
  <2>1. /\ g \in Groups
        /\ g \in client.seen \/ g \in client.risen \/ HasSibling(g) \/ k <= Cardinality(Ahead(g))
    BY <1>0 DEF ReadersInv, FleetInv
  <2>2. ASSUME ~HasSibling(g), g \notin client'.seen, g \notin client.risen
        PROVE  n = PageSize /\ k + n <= Cardinality(Ahead(g))
    <3>1. g \notin ToSet(Page(o, client.page)) /\ k <= Cardinality(Ahead(g)) /\ o \in FleetOrders
      BY <1>1, <1>2, <2>1, <2>2
    <3>2. Len(Page(o, client.page)) = PageSize /\ k + PageSize <= Cardinality(Ahead(g))
      BY <1>3, <1>4, <2>1, <2>2, <3>1, FleetPage
    <3> QED
      BY <3>2
  <2> QED
    BY <1>2, <2>1, <2>2
<1> QED
  BY <1>8, <1>9, <1>10, <1>11, <1>12 DEF ReadersInv

LEMMA ReaderSees == ASSUME TypeOK, ReadersInv, ReadRunAnomalies PROVE ReadersInv'
<1>1. /\ client.pc \in Runs /\ client'.pc = "done" /\ client'.kind = client.kind
      /\ client'.total = client.total /\ client'.read = client.read
      /\ client'.expect = client.expect /\ client'.seen = Own({client.pc})
  BY ClientFields DEF ReadRunAnomalies, RunAnomalies, TypeOK
<1>2. client.kind = "timeline" /\ client.expect \subseteq Own({client.pc}) /\ client.total = 0
  BY <1>1 DEF ReadersInv, TypeOK, TimelineInv
<1>3. client'.read >= client'.total
  BY <1>1, <1>2 DEF TypeOK
<1> QED
  BY <1>1, <1>2, <1>3, RunsAssumption DEF ReadersInv, PagesInv, TotalIsDelivered, TimelineInv,
     TimelineComplete, InboxInv, FleetInv

LEMMA ReadersStep == ASSUME TypeOK, TypeOK', ReadersInv, [Next]_vars PROVE ReadersInv'
<1>1. CASE Writing
  BY <1>1, ReaderStores DEF Writing
<1>2. CASE UNCHANGED <<store, client>>
  BY <1>2, ReaderUntouched
<1>3. CASE Reading
  BY <1>3, ReaderBegins, ReaderCounts, ReaderTurns, ReaderSees DEF Reading
<1> QED
  BY <1>1, <1>2, <1>3, Actors, Frames DEF vars

LEMMA Inductive == ASSUME IInv, [Next]_vars PROVE IInv'
<1>1. TypeOK'
  BY TypeStep DEF IInv
<1>2. CountInv' /\ NeverUndercounts'
  BY CountStep DEF IInv
<1>3. ReadersInv'
  BY <1>1, ReadersStep DEF IInv
<1> QED
  BY <1>1, <1>2, <1>3 DEF IInv

LEMMA Invariant == Spec => []IInv
<1>1. IInv /\ [Next]_vars => IInv'
  BY Inductive
<1> QED
  BY <1>1, InitInv, PTL DEF Spec

-----------------------------------------------------------------------------
\* The tables, the materializers' rows and the client have their types, for any
\* runs and bounds.
THEOREM TypeCorrect == Spec => []TypeOK
<1>1. IInv => TypeOK
  BY DEF IInv
<1> QED
  BY <1>1, Invariant, PTL

\* No rollup lacks an anomaly that its runs had when they were grouped and that
\* bears the agent's name, but those of runs that moved since, whatever is stored
\* and fails between the statements of any number of materializers
\* (materializer.py:122-160).
THEOREM NeverUndercountsCorrect == Spec => []NeverUndercounts
<1>1. IInv => NeverUndercounts
  BY DEF IInv
<1> QED
  BY <1>1, Invariant, PTL

\* A client that reads all pages of the inbox misses nothing that was there when it
\* began but what shares its time with another, one that reads a timeline nothing,
\* for pages of any size (queries.py:311-328, routes.py:113-128).
THEOREM ReadersMissNothingCorrect == Spec => []ReadersMissNothing
<1>1. ReadersInv => ReadersMissNothing
  BY DEF ReadersInv, ReadersMissNothing, InboxWalkMissesOnlyTies, InboxInv, Tied
<1>2. IInv => ReadersInv
  BY DEF IInv
<1> QED
  BY <1>1, <1>2, Invariant, PTL

\* A client that reads all pages of the fleet misses only groups that gained an
\* anomaly since it began, or that share agent and version with another, unless a
\* run moved meanwhile, for pages of any size and any number of groups
\* (queries.py:240, routes.py:170).
THEOREM FleetWalkCorrect == Spec => []FleetWalkMissesOnlyRisen
<1>1. ReadersInv => FleetWalkMissesOnlyRisen
  BY DEF ReadersInv, FleetWalkMissesOnlyRisen, FleetInv, HasSibling
<1>2. IInv => ReadersInv
  BY DEF IInv
<1> QED
  BY <1>1, <1>2, Invariant, PTL

-----------------------------------------------------------------------------
(***************************************************************************)
(* A page of the web interface, through whose hook the answers of the API  *)
(* are shown: proofs about WebPage, for any filters and any number of      *)
(* requests.                                                               *)
(***************************************************************************)

\* A request whose answer will be taken was made for the parameters of the page,
\* unless the effect that cancels it is due, or by "Try again".
PageLive ==
  \A q \in requests :
    ~ q.cancelled => IF q.kept THEN effect \/ q.params = params ELSE q.params \in retried

\* The inductive invariant.
PageInv == PageTypeOK /\ PageLive /\ StaleOnlyByRetry /\ LoadingIsAwaited

-----------------------------------------------------------------------------
\* A cleanup cancels what its effect had started and nothing else.
LEMMA PageCleanup ==
  ASSUME PageTypeOK
  PROVE  /\ Cleanup(requests) \subseteq Request
         /\ \A q \in Cleanup(requests) : q.id < issued /\ (q.kept => q.cancelled)
         /\ \A q \in Cleanup(requests) : \E r \in requests :
              /\ q.id = r.id /\ q.params = r.params /\ q.kept = r.kept
              /\ r.cancelled => q.cancelled
<1>1. requests \in SUBSET Request /\ \A r \in requests : r.id < issued
  BY DEF PageTypeOK
<1>2. /\ Cleanup(requests) \subseteq Request
      /\ \A q \in Cleanup(requests) : q.kept => q.cancelled
      /\ \A q \in Cleanup(requests) : \E r \in requests :
           /\ q.id = r.id /\ q.params = r.params /\ q.kept = r.kept
           /\ r.cancelled => q.cancelled
  BY <1>1 DEF Cleanup, Request
<1>3. \A q \in Cleanup(requests) : q.id < issued
  <2> TAKE q \in Cleanup(requests)
  <2>1. PICK r \in requests : q.id = r.id
    BY <1>2
  <2> QED BY <1>1, <2>1
<1> QED BY <1>2, <1>3

\* The initial states: the effect of the first render is due.
LEMMA PageInitInv == ASSUME PageInit PROVE PageInv
  BY ParamsAssumption DEF PageInit, PageInv, PageTypeOK, PageLive, StaleOnlyByRetry,
         LoadingIsAwaited, Loading, Error, Data

\* The types are kept by every step.
LEMMA PageTypeStep == ASSUME PageInv, [PageNext]_pageVars PROVE PageTypeOK'
<1> USE ParamsAssumption DEF PageInv
<1>1. ASSUME NEW p \in Params, Render(p) PROVE PageTypeOK'
  BY <1>1 DEF Render, PageInv, PageTypeOK
<1>2. CASE RunEffect
  <2> DEFINE new == [id |-> issued, params |-> params, kept |-> TRUE, cancelled |-> FALSE]
  <2>1. Cleanup(requests) \subseteq Request
    BY PageCleanup DEF PageInv, PageTypeOK
  <2>2. requests' = Cleanup(requests) \cup {new} /\ issued' = issued + 1 /\ state' = Loading
    BY <1>2 DEF RunEffect, Execute
  <2>3. new \in Request
    BY DEF PageInv, PageTypeOK, Request
  <2>4. \A q \in Cleanup(requests) : q.id < issued /\ (q.kept => q.cancelled)
    BY PageCleanup DEF PageInv, PageTypeOK
  <2>5. \A q \in requests' : q.id < issued'
    BY <2>1, <2>2, <2>3, <2>4 DEF PageInv, PageTypeOK, Request
  <2>6. \A q, r \in requests' : q.kept /\ r.kept /\ ~ q.cancelled /\ ~ r.cancelled => q = r
    BY <2>2, <2>4
  <2>7. issued' \in Nat
    BY <2>2 DEF PageInv, PageTypeOK
  <2> HIDE DEF new
  <2>8. requests' \subseteq Request
    BY <2>1, <2>2, <2>3
  <2> QED BY <1>2, <2>2, <2>5, <2>6, <2>7, <2>8 DEF RunEffect, PageInv, PageTypeOK
<1>3. CASE Retry
  <2> DEFINE new == [id |-> issued, params |-> params, kept |-> FALSE, cancelled |-> FALSE]
  <2>1. requests' = requests \cup {new} /\ issued' = issued + 1 /\ state' = Loading
    BY <1>3 DEF Retry, Execute
  <2>2. new \in Request
    BY DEF PageInv, PageTypeOK, Request
  <2>3. \A q \in requests' : q.id < issued'
    BY <2>1, <2>2 DEF PageInv, PageTypeOK, Request
  <2>4. \A q, r \in requests' : q.kept /\ r.kept /\ ~ q.cancelled /\ ~ r.cancelled => q = r
    BY <2>1 DEF PageInv, PageTypeOK
  <2>5. issued' \in Nat
    BY <2>1 DEF PageInv, PageTypeOK
  <2> HIDE DEF new
  <2>6. requests' \subseteq Request
    BY <2>1, <2>2 DEF PageInv, PageTypeOK
  <2> QED BY <1>3, <2>1, <2>3, <2>4, <2>5, <2>6 DEF Retry, PageInv, PageTypeOK
<1>4. CASE Leave
  <2>1. requests' = Cleanup(requests)
    BY <1>4 DEF Leave
  <2>2. requests' \subseteq Request /\ \A q \in requests' : q.id < issued /\ (q.kept => q.cancelled)
    BY <2>1, PageCleanup DEF PageInv, PageTypeOK
  <2> QED BY <1>4, <2>2 DEF Leave, PageInv, PageTypeOK
<1>5. ASSUME NEW q \in requests, Settle(q) PROVE PageTypeOK'
  <2>1. q.params \in Params
    BY DEF PageInv, PageTypeOK, Request
  <2>2. state' \in {Loading, Error} \cup {Data(p) : p \in Params}
    BY <1>5, <2>1 DEF Settle, PageInv, PageTypeOK
  <2> QED BY <1>5, <2>2 DEF Settle, PageInv, PageTypeOK
<1>6. CASE UNCHANGED pageVars
  BY <1>6 DEF pageVars, PageInv, PageTypeOK
<1> QED BY <1>1, <1>2, <1>3, <1>4, <1>5, <1>6 DEF PageNext

\* So is what is known of the requests that are still taken.
LEMMA PageLiveStep == ASSUME PageInv, [PageNext]_pageVars PROVE PageLive'
<1>1. ASSUME NEW p \in Params, Render(p) PROVE PageLive'
  BY <1>1 DEF Render, PageInv, PageLive
<1>2. CASE RunEffect
  <2>1. \A q \in Cleanup(requests) : (q.kept => q.cancelled)
    BY PageCleanup DEF PageInv, PageTypeOK
  <2>2. \A q \in Cleanup(requests) : ~ q.cancelled /\ ~ q.kept => q.params \in retried
    BY PageCleanup DEF PageInv, PageTypeOK, PageLive
  <2> QED BY <1>2, <2>1, <2>2 DEF RunEffect, Execute, PageLive
<1>3. CASE Retry
  BY <1>3 DEF Retry, Execute, PageInv, PageLive
<1>4. CASE Leave
  <2>1. \A q \in Cleanup(requests) : (q.kept => q.cancelled)
    BY PageCleanup DEF PageInv, PageTypeOK
  <2>2. \A q \in Cleanup(requests) : ~ q.cancelled /\ ~ q.kept => q.params \in retried
    BY PageCleanup DEF PageInv, PageTypeOK, PageLive
  <2> QED BY <1>4, <2>1, <2>2 DEF Leave, PageLive
<1>5. ASSUME NEW q \in requests, Settle(q) PROVE PageLive'
  BY <1>5 DEF Settle, PageInv, PageLive
<1>6. CASE UNCHANGED pageVars
  BY <1>6 DEF pageVars, PageInv, PageLive
<1> QED BY <1>1, <1>2, <1>3, <1>4, <1>5, <1>6 DEF PageNext

\* What is shown changes only by an answer that is taken.
LEMMA PageShownStep == ASSUME PageInv, [PageNext]_pageVars PROVE StaleOnlyByRetry'
<1> USE ParamsAssumption DEF PageInv, Loading, Data, Error
<1>1. ASSUME NEW p \in Params, Render(p) PROVE StaleOnlyByRetry'
  BY <1>1 DEF Render, StaleOnlyByRetry
<1>2. CASE RunEffect
  BY <1>2 DEF RunEffect, Execute, StaleOnlyByRetry
<1>3. CASE Retry
  BY <1>3 DEF Retry, Execute, StaleOnlyByRetry
<1>4. CASE Leave
  BY <1>4 DEF Leave, StaleOnlyByRetry
<1>5. ASSUME NEW q \in requests, Settle(q) PROVE StaleOnlyByRetry'
  <2>1. CASE q.cancelled \/ ~ mounted
    BY <1>5, <2>1 DEF Settle, PageInv, StaleOnlyByRetry
  <2>2. CASE ~ q.cancelled /\ mounted
    <3>1. effect \/ q.params = params \/ q.params \in retried
      BY <2>2 DEF PageInv, PageLive
    <3>2. state'.data \in {q.params, Nothing}
      BY <1>5, <2>2 DEF Settle
    <3> QED BY <1>5, <3>1, <3>2 DEF Settle, StaleOnlyByRetry
  <2> QED BY <2>1, <2>2
<1>6. CASE UNCHANGED pageVars
  BY <1>6 DEF pageVars, PageInv, StaleOnlyByRetry
<1> QED BY <1>1, <1>2, <1>3, <1>4, <1>5, <1>6 DEF PageNext

\* A page starts to load with a request that is not cancelled, and no request is
\* cancelled while another effect is not due; an answer that is taken ends the
\* loading.
LEMMA PageAwaitedStep == ASSUME PageInv, [PageNext]_pageVars PROVE LoadingIsAwaited'
<1> USE DEF Loading, Data, Error
<1>1. ASSUME NEW p \in Params, Render(p) PROVE LoadingIsAwaited'
  BY <1>1 DEF Render, LoadingIsAwaited
<1>2. CASE RunEffect
  <2> DEFINE new == [id |-> issued, params |-> params, kept |-> TRUE, cancelled |-> FALSE]
  <2>1. new \in requests' /\ ~ new.cancelled
    BY <1>2 DEF RunEffect, Execute
  <2> QED BY <2>1 DEF LoadingIsAwaited
<1>3. CASE Retry
  <2> DEFINE new == [id |-> issued, params |-> params, kept |-> FALSE, cancelled |-> FALSE]
  <2>1. new \in requests' /\ ~ new.cancelled
    BY <1>3 DEF Retry, Execute
  <2> QED BY <2>1 DEF LoadingIsAwaited
<1>4. CASE Leave
  BY <1>4 DEF Leave, LoadingIsAwaited
<1>5. ASSUME NEW q \in requests, Settle(q) PROVE LoadingIsAwaited'
  <2>1. CASE q.cancelled \/ ~ mounted
    BY <1>5, <2>1 DEF Settle, PageInv, LoadingIsAwaited
  <2>2. CASE ~ q.cancelled /\ mounted
    BY <1>5, <2>2 DEF Settle, LoadingIsAwaited
  <2> QED BY <2>1, <2>2
<1>6. CASE UNCHANGED pageVars
  BY <1>6 DEF pageVars, PageInv, LoadingIsAwaited
<1> QED BY <1>1, <1>2, <1>3, <1>4, <1>5, <1>6 DEF PageNext

\* The invariant of WebPage.
THEOREM PageInvariance == PageSpec => []PageInv
<1>1. PageInit => PageInv
  BY PageInitInv
<1>2. PageInv /\ [PageNext]_pageVars => PageInv'
  BY PageTypeStep, PageLiveStep, PageShownStep, PageAwaitedStep DEF PageInv
<1> QED BY <1>1, <1>2, PTL DEF PageSpec

\* Type correctness of the hook's state and its requests, at most one of which
\* the effect would still cancel.
THEOREM PageTypeCorrect == PageSpec => []PageTypeOK
<1>1. PageInv => PageTypeOK
  BY DEF PageInv
<1> QED BY <1>1, PageInvariance, PTL

\* In whatever order answers arrive, data of other filters than the page's are
\* shown only if "Try again" was used for them (useAsync.ts:54-80).
THEOREM StaleOnlyByRetryCorrect == PageSpec => []StaleOnlyByRetry
<1>1. PageInv => StaleOnlyByRetry
  BY DEF PageInv
<1> QED BY <1>1, PageInvariance, PTL

\* A page that loads awaits an answer that it will take: it cannot load for ever
\* while all requests have ended (useAsync.ts:57-71).
THEOREM LoadingIsAwaitedCorrect == PageSpec => []LoadingIsAwaited
<1>1. PageInv => LoadingIsAwaited
  BY DEF PageInv
<1> QED BY <1>1, PageInvariance, PTL
=============================================================================

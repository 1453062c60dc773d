------------------------- MODULE TracePipelineProofs -------------------------
(***************************************************************************)
(* Proofs about TracePipeline, for any datasets, rows, batch size, target  *)
(* and number of faults and invocations.                                   *)
(***************************************************************************)
EXTENDS TracePipeline, Sums, SequenceTheorems

\* The batch that is about to be written came from the dataset whose turn it is.
InHand ==
  pc = "write" => todo # << >> /\ batch \subseteq DOMAIN Rows[Head(todo)]

\* The files this invocation wrote are there: they are the first ones.
SavesExist == \A d \in Datasets : saves[d] <= Len(disk[d])

\* A dataset that failed has no turn in this cycle either, because it has one
\* turn in a cycle.
FailedHasNoTurn ==
  /\ IsInjective(remaining) /\ IsInjective(todo)
  /\ failed \cap (open \cup Range(remaining) \cup Range(todo)) = {}

\* The inductive invariant.
IInv ==
  /\ TypeOK
  /\ InHand
  /\ SavesExist
  /\ FailedHasNoTurn
  /\ NoRowSkipped
  /\ CountedIsStored

\* A dataset that is not scheduled any more failed or was read to its end.  A cycle
\* without progress drops every dataset that has its turn.
ReadInv ==
  pc # "off" =>
    /\ \A d \in Datasets \ (failed \cup Range(remaining)) : AllRead(d)
    /\ pc = "write" => progress
    /\ total < Target =>
         /\ ~progress /\ pc = "visit" => Range(remaining) \subseteq Range(todo)
         /\ ~progress /\ pc = "cycle" => remaining = << >>
         /\ pc \in {"finish", "done"} => remaining = << >>

-----------------------------------------------------------------------------
\* list.remove on a list without repetitions leaves one, of the other members.
LEMMA RemoveOne ==
  ASSUME NEW S, NEW s \in Seq(S), NEW d, IsInjective(s)
  PROVE  /\ RemoveFirst(s, d) \in Seq(S)
         /\ IsInjective(RemoveFirst(s, d))
         /\ Range(RemoveFirst(s, d)) = Range(s) \ {d}
<1>1. CASE ~ \E i \in 1 .. Len(s) : s[i] = d
  <2>1. RemoveFirst(s, d) = s
    BY <1>1 DEF RemoveFirst
  <2>2. Range(s) = Range(s) \ {d}
    BY <1>1 DEF Range
  <2>3. QED BY <2>1, <2>2
<1>2. CASE \E i \in 1 .. Len(s) : s[i] = d
  <2> DEFINE I == {i \in 1 .. Len(s) : s[i] = d}
             i == Min(I)
             r == SubSeq(s, 1, i - 1) \o SubSeq(s, i + 1, Len(s))
  <2>1. i \in I
    <3>1. I \in SUBSET Nat /\ I # {}
      BY <1>2
    <3>2. \E x \in I : \A y \in I : x <= y
      <4> HIDE DEF I
      <4>1. QED BY <3>1, LeastMember
    <3>3. QED BY <3>2 DEF Min
  <2>2. RemoveFirst(s, d) = r
    BY <1>2 DEF RemoveFirst, RemoveAt, SelectInSeq
  <2>3. i \in 1 .. Len(s) /\ s[i] = d
    BY <2>1
  <2> HIDE DEF i
  <2>4. /\ r \in Seq(S)
        /\ Len(r) = Len(s) - 1
        /\ \A j \in 1 .. Len(r) : r[j] = IF j < i THEN s[j] ELSE s[j + 1]
    <3> DEFINE a == SubSeq(s, 1, i - 1)
               b == SubSeq(s, i + 1, Len(s))
    <3>1. Len(s) \in Nat /\ i \in Int /\ 1 <= i /\ i <= Len(s)
      BY <2>3
    <3>2. a \in Seq(S) /\ Len(a) = i - 1 /\ \A j \in 1 .. i - 1 : a[j] = s[j]
      BY <3>1
    <3>3. b \in Seq(S) /\ Len(b) = Len(s) - i /\ \A j \in 1 .. Len(s) - i : b[j] = s[i + j]
      BY <3>1
    <3>4. r = a \o b
      OBVIOUS
    <3> HIDE DEF a, b, r
    <3>5. /\ r \in Seq(S)
          /\ Len(r) = Len(a) + Len(b)
          /\ \A j \in 1 .. Len(a) + Len(b) : r[j] = IF j <= Len(a) THEN a[j] ELSE b[j - Len(a)]
      BY <3>2, <3>3, <3>4, ConcatProperties
    <3>6. Len(r) = Len(s) - 1
      BY <3>1, <3>2, <3>3, <3>5
    <3>7. ASSUME NEW j \in 1 .. Len(r) PROVE r[j] = IF j < i THEN s[j] ELSE s[j + 1]
      <4>1. CASE j < i
        BY <3>1, <3>2, <3>3, <3>5, <3>6, <4>1
      <4>2. CASE j >= i
        <5>1. r[j] = b[j - (i - 1)]
          BY <3>1, <3>2, <3>3, <3>5, <3>6, <4>2
        <5>2. j - (i - 1) \in 1 .. Len(s) - i /\ i + (j - (i - 1)) = j + 1 /\ ~ (j < i)
          BY <3>1, <3>6, <4>2
        <5>3. QED BY <3>3, <5>1, <5>2
      <4>3. QED BY <3>1, <4>1, <4>2
    <3>8. QED BY <3>5, <3>6, <3>7
  <2> HIDE DEF r
  <2>5. IsInjective(r)
    <3> DEFINE at(j) == IF j < i THEN j ELSE j + 1
    <3>1. \A j \in 1 .. Len(r) : at(j) \in 1 .. Len(s) /\ r[j] = s[at(j)]
      BY <2>3, <2>4
    <3>2. \A j, k \in 1 .. Len(r) : at(j) = at(k) => j = k
      BY <2>3, <2>4
    <3> HIDE DEF at
    <3>3. \A j, k \in 1 .. Len(s) : s[j] = s[k] => j = k
      BY DEF IsInjective
    <3>4. \A j, k \in 1 .. Len(r) : r[j] = r[k] => j = k
      BY <3>1, <3>2, <3>3
    <3>5. QED BY <2>4, <3>4 DEF IsInjective
  <2>6. Range(r) = Range(s) \ {d}
    <3>1. \A j \in 1 .. Len(r) : r[j] \in Range(s) \ {d}
      BY <2>3, <2>4 DEF IsInjective, Range
    <3>2. ASSUME NEW j \in 1 .. Len(s), s[j] # d PROVE s[j] \in Range(r)
      <4>1. CASE j < i
        BY <2>3, <2>4, <4>1 DEF Range
      <4>2. CASE j > i
        <5>1. j - 1 \in 1 .. Len(r) /\ r[j - 1] = s[j]
          BY <2>3, <2>4, <4>2
        <5>2. QED BY <2>4, <5>1 DEF Range
      <4>3. QED BY <2>3, <3>2, <4>1, <4>2
    <3>3. QED BY <2>4, <3>1, <3>2 DEF Range
  <2>7. QED BY <2>2, <2>4, <2>5, <2>6
<1>3. QED BY <1>1, <1>2

\* The head of a list without repetitions is not in its tail.
LEMMA TailWithoutHead ==
  ASSUME NEW S, NEW s \in Seq(S), s # << >>, IsInjective(s)
  PROVE  /\ Head(s) \in S /\ Tail(s) \in Seq(S)
         /\ IsInjective(Tail(s))
         /\ Range(Tail(s)) \subseteq Range(s) \ {Head(s)}
         /\ Head(s) \in Range(s)
<1>1. Len(s) \in Nat /\ Len(s) # 0 /\ DOMAIN s = 1 .. Len(s)
  BY EmptySeq, LenProperties
<1>2. /\ Tail(s) \in Seq(S) /\ Len(Tail(s)) = Len(s) - 1
      /\ \A i \in 1 .. Len(Tail(s)) : Tail(s)[i] = s[i + 1]
      /\ DOMAIN Tail(s) = 1 .. Len(s) - 1
  BY <1>1
<1>3. Head(s) = s[1] /\ Head(s) \in S
  BY <1>1
<1>4. IsInjective(Tail(s))
  BY <1>1, <1>2 DEF IsInjective
<1>5. Range(Tail(s)) \subseteq Range(s) \ {Head(s)}
  BY <1>1, <1>2, <1>3 DEF Range, IsInjective
<1>6. Head(s) \in Range(s)
  BY <1>1, <1>3 DEF Range
<1>7. QED BY <1>2, <1>3, <1>4, <1>5, <1>6

\* A file is created or overwritten and the others stay.
LEMMA PutOne ==
  ASSUME NEW V, NEW files \in Seq(V), NEW n \in 1 .. Len(files) + 1, NEW rows \in V
  PROVE  /\ PutFile(files, n, rows) \in Seq(V)
         /\ n <= Len(PutFile(files, n, rows))
         /\ Len(files) <= Len(PutFile(files, n, rows))
         /\ PutFile(files, n, rows)[n] = rows
         /\ \A k \in DOMAIN PutFile(files, n, rows) :
              \/ PutFile(files, n, rows)[k] = rows
              \/ k \in DOMAIN files /\ PutFile(files, n, rows)[k] = files[k]
         /\ \A k \in 1 .. n - 1 : PutFile(files, n, rows)[k] = files[k]
<1>1. Len(files) \in Nat /\ DOMAIN files = 1 .. Len(files)
  OBVIOUS
<1>2. CASE n > Len(files)
  <2>1. PutFile(files, n, rows) = Append(files, rows)
    BY <1>2 DEF PutFile
  <2>2. n = Len(files) + 1
    BY <1>1, <1>2
  <2>3. /\ Append(files, rows) \in Seq(V) /\ Len(Append(files, rows)) = n
        /\ Append(files, rows)[n] = rows
        /\ DOMAIN Append(files, rows) = 1 .. n
        /\ \A k \in 1 .. Len(files) : Append(files, rows)[k] = files[k]
    BY <2>2
  <2>4. \A k \in 1 .. n : k = n \/ k \in 1 .. Len(files)
    BY <1>1, <2>2
  <2>5. \A k \in 1 .. n - 1 : k \in 1 .. Len(files)
    BY <1>1, <2>2
  <2>6. Len(files) <= n
    BY <1>1, <2>2
  <2>7. QED BY <1>1, <2>1, <2>3, <2>4, <2>5, <2>6
<1>3. CASE ~ (n > Len(files))
  <2>1. PutFile(files, n, rows) = [files EXCEPT ![n] = rows]
    BY <1>3 DEF PutFile
  <2>2. n \in 1 .. Len(files)
    BY <1>1, <1>3
  <2>3. /\ [files EXCEPT ![n] = rows] \in Seq(V)
        /\ Len([files EXCEPT ![n] = rows]) = Len(files)
        /\ DOMAIN [files EXCEPT ![n] = rows] = 1 .. Len(files)
        /\ \A k \in 1 .. Len(files) : [files EXCEPT ![n] = rows][k] = IF k = n THEN rows ELSE files[k]
    BY <1>1, <2>2, ExceptSeq
  <2>4. \A k \in 1 .. n - 1 : k \in 1 .. Len(files) /\ k # n
    BY <1>1, <2>2
  <2>5. QED BY <1>1, <2>1, <2>2, <2>3, <2>4
<1>4. QED BY <1>2, <1>3

\* The rows of the next batch follow those that were given out.
LEMMA PulledFacts ==
  ASSUME TypeOK, NEW d \in Datasets
  PROVE  /\ Pulled(d) \subseteq DOMAIN Rows[d]
         /\ IsFiniteSet(Pulled(d)) /\ Cardinality(Pulled(d)) \in Nat
         /\ pos[d] + Cardinality(Pulled(d)) <= Len(Rows[d])
         /\ 1 .. pos[d] + Cardinality(Pulled(d)) = 1 .. pos[d] \cup Pulled(d)
<1> DEFINE left == Len(Rows[d]) - pos[d]
           n == IF left < BatchSize THEN left ELSE BatchSize
<1>1. pos[d] \in Nat /\ pos[d] <= Len(Rows[d]) /\ Len(Rows[d]) \in Nat /\ BatchSize \in Nat
      /\ DOMAIN Rows[d] = 1 .. Len(Rows[d])
  BY PipelineAssumption DEF TypeOK
<1>2. n \in Nat /\ pos[d] + n <= Len(Rows[d])
  BY <1>1
<1>3. Pulled(d) = pos[d] + 1 .. pos[d] + n
  BY DEF Pulled
<1> HIDE DEF n
<1>4. pos[d] + 1 \in Int /\ pos[d] + n \in Int
  BY <1>1, <1>2
<1>5. IsFiniteSet(Pulled(d)) /\ Cardinality(Pulled(d)) = n
  <2>1. IsFiniteSet(pos[d] + 1 .. pos[d] + n)
    BY <1>4, FS_Interval
  <2>2. Cardinality(pos[d] + 1 .. pos[d] + n) =
          IF pos[d] + 1 > pos[d] + n THEN 0 ELSE (pos[d] + n) - (pos[d] + 1) + 1
    BY <1>4, FS_Interval
  <2>3. QED BY <1>1, <1>2, <1>3, <2>1, <2>2
<1>6. 1 .. pos[d] + n = 1 .. pos[d] \cup (pos[d] + 1 .. pos[d] + n)
  BY <1>1, <1>2
<1>7. QED BY <1>1, <1>2, <1>3, <1>5, <1>6

\* A dataset is left out of the schedule, and has had its turn.
LEMMA DropFacts ==
  ASSUME IInv, NEW d \in Datasets, Visiting(d), DropDataset(d)
  PROVE  /\ remaining' \in Seq(Datasets) /\ todo' \in Seq(Datasets)
         /\ IsInjective(remaining') /\ IsInjective(todo')
         /\ Range(remaining') = Range(remaining) \ {d}
         /\ Range(todo') \subseteq Range(todo) \ {d}
<1>1. remaining \in Seq(Datasets) /\ todo \in Seq(Datasets) /\ todo # << >> /\ Head(todo) = d
      /\ IsInjective(remaining) /\ IsInjective(todo)
  BY DEF IInv, TypeOK, Visiting, FailedHasNoTurn
<1>2. remaining' = RemoveFirst(remaining, d) /\ todo' = Tail(todo)
  BY DEF DropDataset
<1>3. QED BY <1>1, <1>2, RemoveOne, TailWithoutHead

\* What storing rows of a dataset does to its files.
LEMMA StoreFacts ==
  ASSUME TypeOK, SavesExist, NEW d \in Datasets, NEW rows \in SUBSET Nat
  PROVE  LET new == PutFile(disk[d], NextFile(d), rows)
         IN  /\ new \in Seq(SUBSET Nat)
             /\ saves[d] + 1 <= Len(new) /\ Len(disk[d]) <= Len(new)
             /\ new[saves[d] + 1] = rows
             /\ \A k \in 1 .. saves[d] : new[k] = disk[d][k]
             /\ (rows \subseteq DOMAIN Rows[d] => \A k \in DOMAIN new : new[k] \subseteq DOMAIN Rows[d])
<1> DEFINE V == SUBSET Nat
           n == NextFile(d)
           files == disk[d]
           new == PutFile(files, n, rows)
<1>1. files \in Seq(V) /\ rows \in V
  BY DEF TypeOK
<1>2. saves[d] \in Nat /\ saves[d] <= Len(files) /\ n = saves[d] + 1 /\ Len(files) \in Nat
  BY <1>1 DEF TypeOK, SavesExist, NextFile
<1>3. n \in 1 .. Len(files) + 1 /\ n - 1 = saves[d]
  BY <1>2
<1>4. \A k \in DOMAIN files : files[k] \subseteq DOMAIN Rows[d]
  BY DEF TypeOK
<1> HIDE DEF V, n, files
<1>5. /\ new \in Seq(V)
      /\ n <= Len(new) /\ Len(files) <= Len(new)
      /\ new[n] = rows
      /\ \A k \in DOMAIN new : new[k] = rows \/ (k \in DOMAIN files /\ new[k] = files[k])
      /\ \A k \in 1 .. n - 1 : new[k] = files[k]
  BY <1>1, <1>3, PutOne, SMTT(30)
<1> HIDE DEF new
<1>6. rows \subseteq DOMAIN Rows[d] => \A k \in DOMAIN new : new[k] \subseteq DOMAIN Rows[d]
  BY <1>4, <1>5
<1>7. /\ new \in Seq(V) /\ saves[d] + 1 <= Len(new) /\ Len(files) <= Len(new)
      /\ new[saves[d] + 1] = rows /\ \A k \in 1 .. saves[d] : new[k] = files[k]
  BY <1>2, <1>3, <1>5
<1>8. QED BY <1>6, <1>7 DEF new, V, n, files

-----------------------------------------------------------------------------
\* Initially nothing is scheduled, nothing is open and there are no files.
LEMMA InitInv == ASSUME Init PROVE IInv
<1> USE PipelineAssumption DEF Init
<1>1. TypeOK
  <2>1. \A d \in Datasets : Len(Rows[d]) \in Nat
    OBVIOUS
  <2>2. remaining \in Seq(Datasets) /\ todo \in Seq(Datasets) /\ disk \in [Datasets -> Seq(SUBSET Nat)]
    BY EmptySeq
  <2>3. \A d \in Datasets : DOMAIN disk[d] = {}
    OBVIOUS
  <2>4. pos \in [Datasets -> Nat] /\ saves \in [Datasets -> Nat] /\ valid \in [Datasets -> Nat]
        /\ \A d \in Datasets : pos[d] <= Len(Rows[d])
    BY <2>1 DEF Zero
  <2>5. QED BY <2>2, <2>3, <2>4 DEF TypeOK
<1>2. InHand /\ SavesExist
  BY DEF InHand, SavesExist, Zero
<1>3. FailedHasNoTurn
  <2>1. DOMAIN << >> = {}
    OBVIOUS
  <2>2. IsInjective(<< >>)
    BY <2>1 DEF IsInjective
  <2>3. QED BY <2>2 DEF FailedHasNoTurn
<1>4. NoRowSkipped /\ CountedIsStored
  BY DEF NoRowSkipped, CountedIsStored, Running
<1>5. QED BY <1>1, <1>2, <1>3, <1>4 DEF IInv

\* The types are kept by every step.
LEMMA TypeStep == ASSUME IInv, [Next]_vars PROVE TypeOK'
<1> USE PipelineAssumption
<1> DEFINE Good == \A d \in Datasets : IsFiniteSet(Pulled(d)) /\ Cardinality(Pulled(d)) \in Nat
<1>1. CASE Start
  BY <1>1 DEF Start, IInv, TypeOK, Zero
<1>2. CASE StartCycle
  BY <1>2 DEF StartCycle, IInv, TypeOK
<1>3. CASE LeaveLoop
  BY <1>3 DEF LeaveLoop, IInv, TypeOK, memory
<1>4. CASE EndCycle
  BY <1>4 DEF EndCycle, IInv, TypeOK
<1>5. ASSUME NEW d \in Datasets, OpenDataset(d) PROVE TypeOK'
  <2>1. pos' \in [Datasets -> Nat] /\ \A e \in Datasets : pos'[e] <= Len(Rows[e])
    BY <1>5 DEF OpenDataset, IInv, TypeOK
  <2>2. open' \subseteq Datasets
    BY <1>5 DEF OpenDataset, IInv, TypeOK
  <2>3. QED BY <1>5, <2>1, <2>2 DEF OpenDataset, IInv, TypeOK
<1>6. ASSUME NEW d \in Datasets, Exhausted(d) PROVE TypeOK'
  <2>1. remaining' \in Seq(Datasets) /\ todo' \in Seq(Datasets)
    BY <1>6, DropFacts DEF Exhausted
  <2>2. QED BY <1>6, <2>1 DEF Exhausted, IInv, TypeOK
<1>7. ASSUME NEW d \in Datasets, Download(d) PROVE TypeOK'
  <2> DEFINE rows == Pulled(d)
             good == Valid(d, rows)
  <2>1. /\ rows \subseteq DOMAIN Rows[d] /\ IsFiniteSet(rows) /\ Cardinality(rows) \in Nat
        /\ pos[d] + Cardinality(rows) <= Len(Rows[d])
    BY PulledFacts DEF IInv
  <2>2. good \subseteq Nat /\ Cardinality(good) \in Nat
    <3>1. good \in SUBSET rows
      BY DEF Valid
    <3>2. DOMAIN Rows[d] \subseteq Nat
      <4>1. Rows[d] \in Seq(Kinds)
        OBVIOUS
      <4>2. DOMAIN Rows[d] = 1 .. Len(Rows[d])
        BY <4>1
      <4>3. QED BY <4>2
    <3>3. QED BY <2>1, <3>1, <3>2, FS_Subset, FS_CardinalityType
  <2>3. pos' = [pos EXCEPT ![d] = @ + Cardinality(rows)] /\ batch' = good
        /\ valid' = [valid EXCEPT ![d] = @ + Cardinality(good)] /\ total' = total + Cardinality(good)
    BY <1>7 DEF Download
  <2>4. todo' \in Seq(Datasets)
    <3>1. todo \in Seq(Datasets) /\ todo # << >> /\ IsInjective(todo)
      BY <1>7 DEF Download, Visiting, IInv, TypeOK, FailedHasNoTurn
    <3>2. todo' = todo \/ todo' = Tail(todo)
      BY <1>7 DEF Download
    <3>3. Tail(todo) \in Seq(Datasets)
      BY <3>1, HeadTailProperties
    <3>4. QED BY <3>1, <3>2, <3>3
  <2>5. pc' \in {"visit", "write"} /\ progress' = TRUE /\ open' \in SUBSET Datasets
    BY <1>7 DEF Download, Visiting, IInv, TypeOK
  <2> HIDE DEF rows, good
  <2>6. pos' \in [Datasets -> Nat] /\ \A e \in Datasets : pos'[e] <= Len(Rows[e])
    BY <2>1, <2>3 DEF IInv, TypeOK
  <2>7. valid' \in [Datasets -> Nat] /\ total' \in Nat /\ batch' \subseteq Nat
    <3>1. valid \in [Datasets -> Nat] /\ total \in Nat
      BY DEF IInv, TypeOK
    <3>2. valid[d] + Cardinality(good) \in Nat /\ total + Cardinality(good) \in Nat
      BY <2>2, <3>1
    <3>3. QED BY <2>2, <2>3, <3>1, <3>2
  <2>8. UNCHANGED <<remaining, saves, disk, manifest, failed>>
    BY <1>7 DEF Download
  <2>9. QED BY <2>4, <2>5, <2>6, <2>7, <2>8 DEF IInv, TypeOK
<1>8. CASE SaveTraces
  <2> DEFINE d == Head(todo)
             new == PutFile(disk[d], NextFile(d), batch)
  <2>1. d \in Datasets /\ todo' \in Seq(Datasets)
    BY <1>8, TailWithoutHead DEF SaveTraces, IInv, TypeOK, InHand, FailedHasNoTurn
  <2>2. new \in Seq(SUBSET Nat) /\ \A k \in DOMAIN new : new[k] \subseteq DOMAIN Rows[d]
    <3>1. batch \subseteq DOMAIN Rows[d]
      BY <1>8, <2>1 DEF SaveTraces, IInv, TypeOK, InHand
    <3>2. batch \in SUBSET Nat
      BY DEF IInv, TypeOK
    <3> HIDE DEF d
    <3>3. QED BY <2>1, <3>1, <3>2, StoreFacts DEF IInv
  <2>3. disk' = [disk EXCEPT ![d] = new] /\ saves' = [saves EXCEPT ![d] = saves[d] + 1]
        /\ batch' = {} /\ pc' = "visit"
        /\ UNCHANGED <<open, pos, remaining, progress, total, valid, manifest, failed>>
    BY <1>8 DEF SaveTraces, NextFile
  <2> HIDE DEF new, d
  <2>4. disk' \in [Datasets -> Seq(SUBSET Nat)] /\ saves' \in [Datasets -> Nat]
    BY <2>1, <2>2, <2>3 DEF IInv, TypeOK
  <2>5. \A e \in Datasets : \A k \in DOMAIN disk'[e] : disk'[e][k] \subseteq DOMAIN Rows[e]
    BY <2>1, <2>2, <2>3 DEF IInv, TypeOK
  <2>6. QED BY <2>1, <2>3, <2>4, <2>5 DEF IInv, TypeOK
<1>9. CASE GenerateManifest
  BY <1>9 DEF GenerateManifest, IInv, TypeOK, memory
<1>10. ASSUME NEW d \in Datasets, OpenFails(d) PROVE TypeOK'
  <2>1. remaining' \in Seq(Datasets) /\ todo' \in Seq(Datasets)
    BY <1>10, DropFacts DEF OpenFails
  <2>2. QED BY <1>10, <2>1 DEF OpenFails, IInv, TypeOK
<1>11. ASSUME NEW d \in Datasets, StreamFails(d) PROVE TypeOK'
  <2>1. remaining' \in Seq(Datasets) /\ todo' \in Seq(Datasets)
    BY <1>11, DropFacts DEF StreamFails
  <2>2. QED BY <1>11, <2>1 DEF StreamFails, IInv, TypeOK
<1>12. CASE Abort
  <2>1. CASE UNCHANGED disk
    BY <1>12, <2>1 DEF Abort, IInv, TypeOK, memory
  <2>2. CASE pc = "write" /\ disk' = [disk EXCEPT ![Head(todo)] = PutFile(@, NextFile(Head(todo)), {})]
    <3> DEFINE d == Head(todo)
               new == PutFile(disk[d], NextFile(d), {})
    <3>1. d \in Datasets
      BY <2>2 DEF IInv, TypeOK, InHand
    <3>2. disk' = [disk EXCEPT ![d] = new]
      BY <2>2
    <3>3. {} \in SUBSET Nat /\ {} \subseteq DOMAIN Rows[d]
      OBVIOUS
    <3>5. new \in Seq(SUBSET Nat) /\ \A k \in DOMAIN new : new[k] \subseteq DOMAIN Rows[d]
      <4> HIDE DEF d
      <4>1. QED BY <3>1, <3>3, StoreFacts DEF IInv
    <3> HIDE DEF new, d
    <3>8. disk' \in [Datasets -> Seq(SUBSET Nat)]
      BY <3>1, <3>2, <3>5 DEF IInv, TypeOK
    <3>9. \A e \in Datasets : \A k \in DOMAIN disk'[e] : disk'[e][k] \subseteq DOMAIN Rows[e]
      BY <3>1, <3>2, <3>5 DEF IInv, TypeOK
    <3>10. QED BY <1>12, <3>8, <3>9 DEF Abort, IInv, TypeOK, memory
  <2>3. QED BY <1>12, <2>1, <2>2 DEF Abort
<1>13. CASE UNCHANGED vars
  BY <1>13 DEF vars, memory, IInv, TypeOK
<1>14. QED BY <1>1, <1>2, <1>3, <1>4, <1>5, <1>6, <1>7, <1>8, <1>9, <1>10, <1>11, <1>12, <1>13
           DEF Next, LocalStep, StreamStep, Fault

\* A batch is in hand only between a download and the write.
LEMMA InHandStep == ASSUME IInv, [Next]_vars PROVE InHand'
<1>1. ASSUME NEW d \in Datasets, Download(d) PROVE InHand'
  <2>1. Pulled(d) \subseteq DOMAIN Rows[d]
    BY PulledFacts DEF IInv
  <2>2. batch' \subseteq DOMAIN Rows[d]
    BY <1>1, <2>1 DEF Download, Valid
  <2>3. pc' = "write" => todo' = todo
    BY <1>1 DEF Download, Visiting
  <2>4. todo # << >> /\ Head(todo) = d
    BY <1>1 DEF Download, Visiting
  <2>5. QED BY <2>2, <2>3, <2>4 DEF InHand
<1>2. CASE Start \/ StartCycle \/ LeaveLoop \/ EndCycle \/ SaveTraces \/ GenerateManifest \/ Abort
  BY <1>2 DEF Start, StartCycle, LeaveLoop, EndCycle, SaveTraces, GenerateManifest, Abort, InHand
<1>3. ASSUME NEW d \in Datasets, OpenDataset(d) \/ Exhausted(d) \/ OpenFails(d) \/ StreamFails(d)
      PROVE  InHand'
  BY <1>3 DEF OpenDataset, Exhausted, OpenFails, StreamFails, Visiting, InHand
<1>4. CASE UNCHANGED vars
  BY <1>4 DEF vars, memory, IInv, InHand
<1>5. QED BY <1>1, <1>2, <1>3, <1>4 DEF Next, LocalStep, StreamStep, Fault

\* Files are never removed, and are counted when they are written.
LEMMA SavesExistStep == ASSUME IInv, [Next]_vars PROVE SavesExist'
<1>1. CASE Start
  <2>1. \A d \in Datasets : Len(disk[d]) \in Nat
    BY DEF IInv, TypeOK
  <2>2. QED BY <1>1, <2>1 DEF Start, SavesExist, Zero
<1>2. CASE SaveTraces
  <2> DEFINE d == Head(todo)
             new == PutFile(disk[d], NextFile(d), batch)
  <2>1. d \in Datasets /\ batch \in SUBSET Nat
    BY <1>2 DEF SaveTraces, IInv, TypeOK, InHand
  <2>2. disk' = [disk EXCEPT ![d] = new] /\ saves' = [saves EXCEPT ![d] = saves[d] + 1]
    BY <1>2 DEF SaveTraces, NextFile
  <2>3. saves[d] + 1 <= Len(new)
    <3> HIDE DEF d
    <3>1. QED BY <2>1, StoreFacts DEF IInv
  <2> HIDE DEF d, new
  <2>4. QED BY <2>1, <2>2, <2>3 DEF SavesExist, IInv, TypeOK
<1>3. CASE Abort
  <2>1. CASE UNCHANGED disk
    BY <1>3, <2>1 DEF Abort, IInv, SavesExist, memory
  <2>2. CASE pc = "write" /\ disk' = [disk EXCEPT ![Head(todo)] = PutFile(@, NextFile(Head(todo)), {})]
    <3> DEFINE d == Head(todo)
               new == PutFile(disk[d], NextFile(d), {})
    <3>1. d \in Datasets /\ {} \in SUBSET Nat
      BY <2>2 DEF IInv, TypeOK, InHand
    <3>2. disk' = [disk EXCEPT ![d] = new] /\ saves' = saves
      BY <1>3, <2>2 DEF Abort, memory
    <3>3. saves[d] + 1 <= Len(new) /\ new \in Seq(SUBSET Nat)
      <4> HIDE DEF d
      <4>1. QED BY <3>1, StoreFacts DEF IInv
    <3> HIDE DEF d, new
    <3>4. saves[d] \in Nat /\ Len(new) \in Nat
      BY <3>1, <3>3 DEF IInv, TypeOK
    <3>5. saves[d] <= Len(new)
      BY <3>3, <3>4
    <3>6. QED BY <3>1, <3>2, <3>5 DEF SavesExist, IInv, TypeOK
  <2>3. QED BY <1>3, <2>1, <2>2 DEF Abort
<1>4. CASE StartCycle \/ LeaveLoop \/ EndCycle \/ GenerateManifest
  BY <1>4 DEF StartCycle, LeaveLoop, EndCycle, GenerateManifest, memory, IInv, SavesExist
<1>5. ASSUME NEW d \in Datasets,
             OpenDataset(d) \/ Exhausted(d) \/ Download(d) \/ OpenFails(d) \/ StreamFails(d)
      PROVE  SavesExist'
  BY <1>5 DEF OpenDataset, Exhausted, Download, OpenFails, StreamFails, IInv, SavesExist
<1>6. CASE UNCHANGED vars
  BY <1>6 DEF vars, memory, IInv, SavesExist
<1>7. QED BY <1>1, <1>2, <1>3, <1>4, <1>5, <1>6 DEF Next, LocalStep, StreamStep, Fault

\* A dataset that fails is left out of the schedule when it has its turn, and has
\* no other turn in the cycle.
LEMMA FailedStep == ASSUME IInv, [Next]_vars PROVE FailedHasNoTurn'
<1>0. /\ remaining \in Seq(Datasets) /\ todo \in Seq(Datasets)
      /\ IsInjective(remaining) /\ IsInjective(todo)
      /\ failed \cap (open \cup Range(remaining) \cup Range(todo)) = {}
  BY DEF IInv, TypeOK, FailedHasNoTurn
<1>a. IsInjective(<< >>) /\ Range(<< >>) = {}
  <2>1. DOMAIN << >> = {}
    OBVIOUS
  <2>2. QED BY <2>1 DEF IsInjective, Range
<1>1. CASE Start
  BY <1>1, <1>a, PipelineAssumption DEF Start, FailedHasNoTurn
<1>2. CASE StartCycle
  BY <1>0, <1>2 DEF StartCycle, FailedHasNoTurn
<1>3. CASE EndCycle
  BY <1>0, <1>3, <1>a DEF EndCycle, FailedHasNoTurn
<1>4. CASE LeaveLoop \/ GenerateManifest \/ Abort
  BY <1>0, <1>4 DEF LeaveLoop, GenerateManifest, Abort, memory, FailedHasNoTurn
<1>5. ASSUME NEW d \in Datasets, OpenDataset(d) PROVE FailedHasNoTurn'
  <2>1. d \in Range(todo)
    BY <1>0, <1>5, TailWithoutHead DEF OpenDataset, Visiting
  <2>2. QED BY <1>0, <1>5, <2>1 DEF OpenDataset, FailedHasNoTurn
<1>6. ASSUME NEW d \in Datasets, Visiting(d), DropDataset(d), open' \in {open, open \ {d}},
             failed' = failed \/ (failed' = failed \cup {d} /\ d \notin open')
      PROVE  FailedHasNoTurn'
  <2>1. /\ IsInjective(remaining') /\ IsInjective(todo')
        /\ Range(remaining') = Range(remaining) \ {d}
        /\ Range(todo') \subseteq Range(todo) \ {d}
    BY <1>6, DropFacts
  <2>2. QED BY <1>0, <1>6, <2>1 DEF FailedHasNoTurn
<1>7. ASSUME NEW d \in Datasets, Exhausted(d) \/ OpenFails(d) \/ StreamFails(d) PROVE FailedHasNoTurn'
  BY <1>6, <1>7 DEF Exhausted, OpenFails, StreamFails
<1>8. ASSUME todo # << >>, todo' = Tail(todo), open' \subseteq open, UNCHANGED <<remaining, failed>>
      PROVE  FailedHasNoTurn'
  <2>1. IsInjective(todo') /\ Range(todo') \subseteq Range(todo)
    BY <1>0, <1>8, TailWithoutHead
  <2>2. QED BY <1>0, <1>8, <2>1 DEF FailedHasNoTurn
<1>9. ASSUME NEW d \in Datasets, Download(d) PROVE FailedHasNoTurn'
  <2>1. todo # << >> /\ open' \subseteq open /\ UNCHANGED <<remaining, failed>>
    BY <1>9 DEF Download, Visiting
  <2>2. CASE todo' = Tail(todo)
    BY <1>8, <2>1, <2>2
  <2>3. CASE UNCHANGED todo
    BY <1>0, <2>1, <2>3 DEF FailedHasNoTurn
  <2>4. QED BY <1>9, <2>2, <2>3 DEF Download
<1>10. CASE SaveTraces
  BY <1>8, <1>10 DEF SaveTraces, IInv, InHand
<1>11. CASE UNCHANGED vars
  BY <1>0, <1>11 DEF vars, memory, FailedHasNoTurn
<1>12. QED BY <1>1, <1>2, <1>3, <1>4, <1>5, <1>7, <1>9, <1>10, <1>11 DEF Next, LocalStep, StreamStep, Fault

\* What is in one more file is added to what is in the files before it.
LEMMA OneMoreFile ==
  ASSUME NEW old, NEW new, NEW n \in Nat, \A k \in 1 .. n : new[k] = old[k],
         \A k \in 1 .. n + 1 : IsFiniteSet(new[k])
  PROVE  SumFunctionOnSet([k \in 1 .. n + 1 |-> Cardinality(new[k])], 1 .. n + 1) =
           SumFunctionOnSet([k \in 1 .. n |-> Cardinality(old[k])], 1 .. n) + Cardinality(new[n + 1])
<1> DEFINE h == [k \in 1 .. n + 1 |-> Cardinality(new[k])]
           g == [k \in 1 .. n |-> Cardinality(old[k])]
<1>1. \A k \in 1 .. n + 1 : Cardinality(new[k]) \in Int
  BY FS_CardinalityType
<1>2. n + 1 \in Int /\ 1 \in Int
  OBVIOUS
<1>3. IsFiniteSet(1 .. n + 1) /\ IsFiniteSet(1 .. n)
  BY <1>2, FS_Interval
<1>4. \A k \in 1 .. n + 1 : h[k] \in Int
  BY <1>1
<1>5. \A k \in 1 .. n : h[k] = g[k]
  <2>1. \A k \in 1 .. n : k \in 1 .. n + 1
    OBVIOUS
  <2>2. QED BY <2>1
<1>6. h[n + 1] = Cardinality(new[n + 1])
  BY <1>2
<1> HIDE DEF h, g
<1>7. SumFunctionOnSet(h, 1 .. n) = SumFunctionOnSet(g, 1 .. n)
  BY <1>3, <1>5, SumSame
<1> DEFINE S == 1 .. n
           V == 1 .. n + 1
           x == n + 1
<1>8. S \in SUBSET V /\ x \in V \ S /\ S \cup {x} = V
  OBVIOUS
<1>9. IsFiniteSet(V) /\ \A k \in V : h[k] \in Int
  BY <1>3, <1>4
<1> HIDE DEF S, V, x
<1>10. SumFunctionOnSet(h, S \cup {x}) = SumFunctionOnSet(h, S) + h[x]
  BY <1>8, <1>9, SumAdd
<1>11. SumFunctionOnSet(h, V) = SumFunctionOnSet(h, S) + h[x]
  BY <1>8, <1>10
<1>12. QED BY <1>6, <1>7, <1>11 DEF h, g, S, V, x

\* Rows are given out in order, and a batch is written before another is pulled.
LEMMA NoRowStep == ASSUME IInv, [Next]_vars PROVE NoRowSkipped'
<1>1. CASE Start
  BY <1>1 DEF Start, NoRowSkipped
<1>2. CASE StartCycle \/ LeaveLoop \/ EndCycle
  BY <1>2 DEF StartCycle, LeaveLoop, EndCycle, memory, IInv, NoRowSkipped, Running
<1>3. CASE GenerateManifest \/ Abort
  BY <1>3 DEF GenerateManifest, Abort, NoRowSkipped, Running
<1>4. ASSUME NEW d \in Datasets, OpenDataset(d) PROVE NoRowSkipped'
  <2>1. pos'[d] = 0 /\ \A e \in Datasets : e # d => pos'[e] = pos[e]
    BY <1>4 DEF OpenDataset, IInv, TypeOK
  <2>2. 1 .. pos'[d] = {}
    BY <2>1
  <2>3. open \subseteq Datasets /\ open' = open \cup {d} /\ pc = "visit"
        /\ UNCHANGED <<saves, disk, pc, todo, batch>>
    BY <1>4 DEF OpenDataset, Visiting, IInv, TypeOK
  <2>4. QED BY <2>1, <2>2, <2>3 DEF IInv, NoRowSkipped, Running, Valid
<1>5. ASSUME NEW d \in Datasets, Exhausted(d) \/ OpenFails(d) \/ StreamFails(d) PROVE NoRowSkipped'
  <2>1. open' \subseteq open /\ pc = "visit" /\ UNCHANGED <<pos, saves, disk, pc>>
    BY <1>5 DEF Exhausted, OpenFails, StreamFails, Visiting
  <2>2. QED BY <2>1 DEF IInv, NoRowSkipped, Running
<1>6. ASSUME NEW d \in Datasets, Download(d) PROVE NoRowSkipped'
  <2> DEFINE rows == Pulled(d)
  <2>1. 1 .. pos[d] + Cardinality(rows) = 1 .. pos[d] \cup rows
    BY PulledFacts DEF IInv
  <2>2. /\ pc = "visit" /\ Head(todo) = d /\ open' \subseteq open
        /\ pos' = [pos EXCEPT ![d] = @ + Cardinality(rows)]
        /\ batch' = Valid(d, rows)
        /\ (Valid(d, rows) = {} /\ UNCHANGED pc) \/ (pc' = "write" /\ UNCHANGED todo)
        /\ UNCHANGED <<saves, disk>>
    BY <1>6 DEF Download, Visiting
  <2> HIDE DEF rows
  <2>3. pos'[d] = pos[d] + Cardinality(rows) /\ \A e \in Datasets : e # d => pos'[e] = pos[e]
    BY <2>2 DEF IInv, TypeOK
  <2>4. Valid(d, 1 .. pos'[d]) = Valid(d, 1 .. pos[d]) \cup Valid(d, rows)
    BY <2>1, <2>3 DEF Valid
  <2>5. open \subseteq Datasets
    BY DEF IInv, TypeOK
  <2>6. \A e \in open : \A i \in Valid(e, 1 .. pos[e]) : \E k \in 1 .. saves[e] : i \in disk[e][k]
    BY <2>2 DEF IInv, NoRowSkipped, Running
  <2> SUFFICES ASSUME NEW e \in open', NEW i \in Valid(e, 1 .. pos'[e])
               PROVE  \/ \E k \in 1 .. saves'[e] : i \in disk'[e][k]
                      \/ pc' = "write" /\ Head(todo') = e /\ i \in batch'
    BY DEF NoRowSkipped, Valid
  <2>7. CASE e # d
    BY <2>2, <2>3, <2>5, <2>6, <2>7
  <2>8. CASE e = d /\ i \in Valid(d, 1 .. pos[d])
    BY <2>2, <2>6, <2>8
  <2>9. CASE e = d /\ i \in Valid(d, rows)
    BY <2>2, <2>9
  <2>10. QED BY <2>4, <2>7, <2>8, <2>9
<1>7. CASE SaveTraces
  <2> DEFINE d == Head(todo)
             new == PutFile(disk[d], NextFile(d), batch)
  <2>1. d \in Datasets /\ batch \in SUBSET Nat /\ saves[d] \in Nat
    BY <1>7 DEF SaveTraces, IInv, TypeOK, InHand
  <2>2. disk' = [disk EXCEPT ![d] = new] /\ saves' = [saves EXCEPT ![d] = saves[d] + 1]
        /\ pc = "write" /\ UNCHANGED <<open, pos>>
    BY <1>7 DEF SaveTraces, NextFile
  <2>3. new[saves[d] + 1] = batch /\ \A k \in 1 .. saves[d] : new[k] = disk[d][k]
    <3> HIDE DEF d
    <3>1. QED BY <2>1, StoreFacts DEF IInv
  <2>4. \A e \in open : \A i \in Valid(e, 1 .. pos[e]) :
          (\E k \in 1 .. saves[e] : i \in disk[e][k]) \/ (e = d /\ i \in batch)
    BY <2>2 DEF IInv, NoRowSkipped, Running
  <2> HIDE DEF d, new
  <2>5. disk'[d] = new /\ saves'[d] = saves[d] + 1
        /\ \A e \in Datasets : e # d => disk'[e] = disk[e] /\ saves'[e] = saves[e]
    BY <2>1, <2>2 DEF IInv, TypeOK
  <2>6. \A k \in 1 .. saves[d] : k \in 1 .. saves'[d]
    BY <2>1, <2>5
  <2>7. saves[d] + 1 \in 1 .. saves'[d]
    BY <2>1, <2>5
  <2>8. open \subseteq Datasets
    BY DEF IInv, TypeOK
  <2>9. \A e \in open : \A i \in Valid(e, 1 .. pos[e]) : \E k \in 1 .. saves'[e] : i \in disk'[e][k]
    <3> SUFFICES ASSUME NEW e \in open, NEW i \in Valid(e, 1 .. pos[e])
                 PROVE  \E k \in 1 .. saves'[e] : i \in disk'[e][k]
      OBVIOUS
    <3>1. CASE e # d
      BY <2>4, <2>5, <2>8, <3>1
    <3>2. CASE e = d
      BY <2>3, <2>4, <2>5, <2>6, <2>7, <3>2
    <3>3. QED BY <3>1, <3>2
  <2>10. QED BY <2>2, <2>9 DEF NoRowSkipped, Valid
<1>8. CASE UNCHANGED vars
  BY <1>8 DEF vars, memory, IInv, NoRowSkipped, Running
<1>9. QED BY <1>1, <1>2, <1>3, <1>4, <1>5, <1>6, <1>7, <1>8 DEF Next, LocalStep, StreamStep, Fault

\* The rows of a dataset, and so what is in its files, are finitely many.
LEMMA RowsAreFinite == \A d \in Datasets : IsFiniteSet(DOMAIN Rows[d])
<1> SUFFICES ASSUME NEW d \in Datasets PROVE IsFiniteSet(DOMAIN Rows[d])
  OBVIOUS
<1>1. Rows[d] \in Seq(Kinds)
  BY PipelineAssumption
<1>2. DOMAIN Rows[d] = 1 .. Len(Rows[d]) /\ Len(Rows[d]) \in Int /\ 1 \in Int
  BY <1>1
<1>3. QED BY <1>2, FS_Interval

LEMMA FilesAreFinite ==
  ASSUME NEW d \in Datasets, NEW files \in Seq(SUBSET Nat), NEW n \in Nat, n <= Len(files),
         \A k \in DOMAIN files : files[k] \subseteq DOMAIN Rows[d]
  PROVE  /\ \A k \in 1 .. n : IsFiniteSet(files[k])
         /\ SumFunctionOnSet([k \in 1 .. n |-> Cardinality(files[k])], 1 .. n) \in Int
<1> DEFINE h == [k \in 1 .. n |-> Cardinality(files[k])]
<1>1. \A k \in 1 .. n : k \in DOMAIN files
  OBVIOUS
<1>2. \A k \in 1 .. n : IsFiniteSet(files[k])
  BY <1>1, RowsAreFinite, FS_Subset
<1>3. n \in Int /\ 1 \in Int
  OBVIOUS
<1>4. IsFiniteSet(1 .. n)
  BY <1>3, FS_Interval
<1>5. \A k \in 1 .. n : h[k] \in Int
  BY <1>2, FS_CardinalityType
<1> HIDE DEF h
<1>6. SumFunctionOnSet(h, 1 .. n) \in Int
  BY <1>4, <1>5, SumType
<1>7. QED BY <1>2, <1>6 DEF h

\* What is counted when a batch is validated is in hand, then in a new file.
LEMMA CountedStep == ASSUME IInv, [Next]_vars PROVE CountedIsStored'
<1> DEFINE Hand(d) == IF pc = "write" /\ Head(todo) = d THEN Cardinality(batch) ELSE 0
           Held(d) == Stored(d, 1 .. saves[d])
<1>a. ASSUME NEW d \in Datasets, Running \/ pc = "done"
      PROVE  valid[d] = Held(d) + Hand(d) /\ (pc = "done" => manifest[d] = valid[d])
  BY <1>a DEF IInv, CountedIsStored
<1>1. CASE Start
  <2> SUFFICES ASSUME NEW d \in Datasets PROVE Stored(d, 1 .. saves[d])' = 0
    BY <1>1 DEF Start, CountedIsStored, Zero
  <2>1. saves'[d] = 0 /\ 1 .. saves'[d] = {}
    BY <1>1 DEF Start, Zero
  <2>2. QED BY <2>1, SumEmpty DEF Stored
<1>2. CASE StartCycle \/ LeaveLoop
  BY <1>2, <1>a DEF StartCycle, LeaveLoop, memory, CountedIsStored, Running, Stored
<1>3. CASE EndCycle
  BY <1>3, <1>a DEF EndCycle, CountedIsStored, Running, Stored
<1>4. ASSUME NEW d \in Datasets,
             OpenDataset(d) \/ Exhausted(d) \/ OpenFails(d) \/ StreamFails(d)
      PROVE  CountedIsStored'
  <2>1. pc = "visit" /\ UNCHANGED <<valid, saves, disk, pc>>
    BY <1>4 DEF OpenDataset, Exhausted, OpenFails, StreamFails, Visiting
  <2>2. QED BY <2>1, <1>a DEF CountedIsStored, Running, Stored
<1>5. ASSUME NEW d \in Datasets, Download(d) PROVE CountedIsStored'
  <2> DEFINE good == Valid(d, Pulled(d))
  <2>1. /\ pc = "visit" /\ Head(todo) = d /\ batch' = good
        /\ valid' = [valid EXCEPT ![d] = @ + Cardinality(good)]
        /\ (good = {} /\ UNCHANGED pc) \/ (pc' = "write" /\ UNCHANGED todo)
        /\ UNCHANGED <<saves, disk>>
    BY <1>5 DEF Download, Visiting
  <2>2. IsFiniteSet(good) /\ Cardinality(good) \in Nat /\ (good = {} => Cardinality(good) = 0)
    <3>1. IsFiniteSet(Pulled(d)) /\ good \in SUBSET Pulled(d)
      BY PulledFacts DEF IInv, Valid
    <3>2. QED BY <3>1, FS_Subset, FS_CardinalityType, FS_EmptySet
  <2>3. pc' = "write" \/ (good = {} /\ pc' = "visit")
    BY <2>1
  <2> SUFFICES ASSUME NEW e \in Datasets
               PROVE  valid'[e] = Stored(e, 1 .. saves[e])
                        + (IF pc' = "write" /\ Head(todo') = e THEN Cardinality(batch') ELSE 0)
    BY <2>1, <2>3 DEF CountedIsStored, Stored
  <2>4. valid[e] = Held(e) /\ valid[e] \in Nat
    <3>1. valid[e] = Held(e) + 0 /\ valid[e] \in Nat
      BY <2>1, <1>a DEF Running, IInv, TypeOK
    <3>2. Held(e) \in Int
      <4> DEFINE files == disk[e]
                 n == saves[e]
      <4>1. files \in Seq(SUBSET Nat) /\ n \in Nat /\ n <= Len(files)
            /\ \A k \in DOMAIN files : files[k] \subseteq DOMAIN Rows[e]
        BY DEF IInv, TypeOK, SavesExist
      <4> HIDE DEF files, n
      <4>2. SumFunctionOnSet([k \in 1 .. n |-> Cardinality(files[k])], 1 .. n) \in Int
        BY <4>1, FilesAreFinite
      <4>3. QED BY <4>2 DEF Stored, files, n
    <3> HIDE DEF Held
    <3>3. QED BY <3>1, <3>2
  <2> HIDE DEF good, Held
  <2>5. valid'[e] = IF e = d THEN valid[e] + Cardinality(good) ELSE valid[e]
    BY <2>1 DEF IInv, TypeOK
  <2>6. valid'[e] = Held(e) + (IF pc' = "write" /\ Head(todo') = e THEN Cardinality(batch') ELSE 0)
    <3>1. CASE e # d
      <4>1. ~ (pc' = "write" /\ Head(todo') = e)
        BY <2>1, <2>3, <3>1
      <4>2. QED BY <2>4, <2>5, <3>1, <4>1
    <3>2. CASE e = d /\ pc' = "write" /\ good # {}
      <4>1. Head(todo') = e /\ batch' = good
        BY <2>1, <3>2
      <4>2. QED BY <2>2, <2>4, <2>5, <3>2, <4>1
    <3>3. CASE e = d /\ good = {}
      <4>1. Cardinality(batch') = 0
        BY <2>1, <2>2, <3>3
      <4>2. QED BY <2>2, <2>4, <2>5, <3>3, <4>1
    <3>4. QED BY <2>3, <3>1, <3>2, <3>3
  <2>7. QED BY <2>6 DEF Held
<1>6. CASE SaveTraces
  <2> DEFINE d == Head(todo)
             new == PutFile(disk[d], NextFile(d), batch)
  <2>1. d \in Datasets /\ batch \in SUBSET Nat /\ saves[d] \in Nat /\ batch \subseteq DOMAIN Rows[d]
    BY <1>6 DEF SaveTraces, IInv, TypeOK, InHand
  <2>2. disk' = [disk EXCEPT ![d] = new] /\ saves' = [saves EXCEPT ![d] = saves[d] + 1]
        /\ pc = "write" /\ pc' = "visit" /\ UNCHANGED valid
    BY <1>6 DEF SaveTraces, NextFile
  <2>3. /\ new[saves[d] + 1] = batch /\ \A k \in 1 .. saves[d] : new[k] = disk[d][k]
        /\ new \in Seq(SUBSET Nat) /\ saves[d] + 1 <= Len(new)
        /\ \A k \in DOMAIN new : new[k] \subseteq DOMAIN Rows[d]
    <3> HIDE DEF d
    <3>1. QED BY <2>1, StoreFacts DEF IInv
  <2>4. ASSUME NEW e \in Datasets
        PROVE  valid[e] = Held(e) + (IF e = d THEN Cardinality(batch) ELSE 0)
    BY <2>2, <1>a DEF Running
  <2> HIDE DEF d, new, Hand, Held
  <2>5. disk'[d] = new /\ saves'[d] = saves[d] + 1
        /\ \A e \in Datasets : e # d => disk'[e] = disk[e] /\ saves'[e] = saves[e]
    BY <2>1, <2>2 DEF IInv, TypeOK
  <2> DEFINE After(e) == SumFunctionOnSet([k \in 1 .. saves'[e] |-> Cardinality(disk'[e][k])],
                                           1 .. saves'[e])
  <2>6. ASSUME NEW e \in Datasets, e # d PROVE valid[e] = After(e) + 0
    <3>1. After(e) = Held(e)
      BY <2>5, <2>6 DEF Stored, Held
    <3>2. valid[e] \in Nat /\ valid[e] = Held(e) + 0
      BY <2>4, <2>6 DEF IInv, TypeOK
    <3> HIDE DEF After
    <3>3. QED BY <3>1, <3>2
  <2>7. valid[d] = After(d) + 0
    <3> DEFINE n == saves[d]
               old == disk[d]
    <3>1. n \in Nat /\ n + 1 \in Nat /\ (\A k \in 1 .. n : new[k] = old[k])
      BY <2>1, <2>3
    <3>2. After(d) = SumFunctionOnSet([k \in 1 .. n + 1 |-> Cardinality(new[k])], 1 .. n + 1)
      BY <2>5
    <3>3. Held(d) = SumFunctionOnSet([k \in 1 .. n |-> Cardinality(old[k])], 1 .. n)
      BY DEF Held, Stored
    <3>4. n + 1 <= Len(new)
      BY <2>3
    <3>5. new[n + 1] = batch
      BY <2>3
    <3> HIDE DEF n, old, After
    <3>6. /\ \A k \in 1 .. n + 1 : IsFiniteSet(new[k])
          /\ SumFunctionOnSet([k \in 1 .. n + 1 |-> Cardinality(new[k])], 1 .. n + 1) \in Int
      BY <2>1, <2>3, <3>1, <3>4, FilesAreFinite
    <3>7. SumFunctionOnSet([k \in 1 .. n + 1 |-> Cardinality(new[k])], 1 .. n + 1) =
            SumFunctionOnSet([k \in 1 .. n |-> Cardinality(old[k])], 1 .. n) + Cardinality(new[n + 1])
      BY <3>1, <3>6, OneMoreFile
    <3>8. valid[d] = After(d) /\ After(d) \in Int
      BY <2>1, <2>4, <3>2, <3>3, <3>5, <3>6, <3>7
    <3>9. QED BY <3>8
  <2>8. \A e \in Datasets : valid[e] = After(e) + 0
    <3> HIDE DEF After
    <3>1. QED BY <2>6, <2>7
  <2>9. QED BY <2>2, <2>8 DEF CountedIsStored, Stored
<1>7. CASE GenerateManifest
  <2>1. manifest' = valid /\ pc = "finish" /\ pc' = "done" /\ UNCHANGED <<valid, saves, disk>>
    BY <1>7 DEF GenerateManifest, memory
  <2>2. QED BY <2>1, <1>a DEF CountedIsStored, Running, Stored
<1>8. CASE Abort
  BY <1>8 DEF Abort, CountedIsStored, Running
<1>9. CASE UNCHANGED vars
  BY <1>9, <1>a DEF vars, memory, CountedIsStored, Running, Stored
<1>10. QED BY <1>1, <1>2, <1>3, <1>4, <1>5, <1>6, <1>7, <1>8, <1>9 DEF Next, LocalStep, StreamStep, Fault

\* The invariant of TracePipeline.
THEOREM Invariance == Spec => []IInv
<1>1. Init => IInv
  BY InitInv
<1>2. IInv /\ [Next]_vars => IInv'
  BY TypeStep, InHandStep, SavesExistStep, FailedStep, NoRowStep, CountedStep DEF IInv
<1> QED BY <1>1, <1>2, PTL DEF Spec

\* Type correctness of a download and of the files it leaves.
THEOREM TypeCorrect == Spec => []TypeOK
<1>1. IInv => TypeOK
  BY DEF IInv
<1> QED BY <1>1, Invariance, PTL

\* Wherever streams fail, writes fail and invocations end, the traces that the
\* counters of the manifest count are those in the files of this invocation
\* (pipeline.py:216-233).
THEOREM CountedIsStoredCorrect == Spec => []CountedIsStored
<1>1. IInv => CountedIsStored
  BY DEF IInv
<1> QED BY <1>1, Invariance, PTL

\* A stream is read through: no row between the first that was pulled and the
\* last was left out, and a stream that failed is never pulled from again
\* (pipeline.py:170-195).
THEOREM ReadThroughCorrect == Spec => []ReadThrough
<1>1. IInv => ReadThrough
  BY DEF IInv, FailedHasNoTurn, ReadThrough, FailedNotRead
<1> QED BY <1>1, Invariance, PTL

-----------------------------------------------------------------------------
(* Reading to the end.                                                     *)

\* A list is its head and its tail.
LEMMA HeadAndTail ==
  ASSUME NEW S, NEW s \in Seq(S), s # << >>
  PROVE  Range(s) \subseteq Range(Tail(s)) \cup {Head(s)}
<1>1. Len(s) \in Nat /\ Len(s) # 0 /\ DOMAIN s = 1 .. Len(s)
  BY EmptySeq, LenProperties
<1>2. /\ Tail(s) \in Seq(S) /\ Len(Tail(s)) = Len(s) - 1
      /\ \A i \in 1 .. Len(Tail(s)) : Tail(s)[i] = s[i + 1]
      /\ DOMAIN Tail(s) = 1 .. Len(s) - 1
  BY <1>1
<1>3. Head(s) = s[1]
  BY <1>1
<1>4. ASSUME NEW i \in 1 .. Len(s), i # 1 PROVE s[i] \in Range(Tail(s))
  <2>1. i - 1 \in 1 .. Len(s) - 1 /\ Tail(s)[i - 1] = s[i]
    BY <1>1, <1>2, <1>4
  <2>2. QED BY <1>2, <2>1 DEF Range
<1>5. QED BY <1>1, <1>3, <1>4 DEF Range

\* An empty list is one that holds nothing.
LEMMA NoneIsEmpty == ASSUME NEW S, NEW s \in Seq(S) PROVE Range(s) = {} <=> s = << >>
<1>1. DOMAIN s = 1 .. Len(s) /\ Len(s) \in Nat /\ (s = << >> <=> Len(s) = 0)
  BY EmptySeq, LenProperties
<1>2. CASE Len(s) = 0
  <2>1. DOMAIN s = {}
    BY <1>1, <1>2
  <2>2. QED BY <1>1, <1>2, <2>1 DEF Range
<1>3. CASE Len(s) # 0
  <2>1. 1 \in DOMAIN s
    BY <1>1, <1>3
  <2>2. QED BY <1>1, <1>3, <2>1 DEF Range
<1>4. QED BY <1>2, <1>3

\* A stream that has nothing more to give was read to the end.
LEMMA ExhaustedIsRead ==
  ASSUME IInv, NEW d \in Datasets, Exhausted(d) PROVE AllRead(d)
<1>1. pc = "visit" /\ d \in open /\ Pulled(d) = {}
  BY DEF Exhausted, Visiting
<1>2. /\ pos[d] \in Nat /\ Len(Rows[d]) \in Nat /\ pos[d] <= Len(Rows[d])
      /\ BatchSize \in Nat \ {0} /\ DOMAIN Rows[d] = 1 .. Len(Rows[d])
  BY PipelineAssumption DEF IInv, TypeOK
<1>3. pos[d] = Len(Rows[d])
  <2>1. pos[d] < Len(Rows[d]) => pos[d] + 1 \in Pulled(d)
    BY <1>2 DEF Pulled
  <2>2. QED BY <1>1, <1>2, <2>1
<1>4. \A i \in Valid(d, 1 .. pos[d]) : \E k \in 1 .. saves[d] : i \in disk[d][k]
  BY <1>1 DEF IInv, NoRowSkipped, Running
<1>5. QED BY <1>2, <1>3, <1>4 DEF AllRead

\* What is in the files of an invocation stays there while it runs.
LEMMA StaysRead ==
  ASSUME IInv, [Next]_vars, ~Start, pc' # "off", NEW e \in Datasets, AllRead(e)
  PROVE  AllRead(e)'
<1>1. ASSUME UNCHANGED <<saves, disk>> PROVE AllRead(e)'
  BY <1>1 DEF AllRead, Valid
<1>2. CASE SaveTraces
  <2> DEFINE d == Head(todo)
             new == PutFile(disk[d], NextFile(d), batch)
  <2>1. d \in Datasets /\ batch \in SUBSET Nat /\ saves[d] \in Nat
    BY <1>2 DEF SaveTraces, IInv, TypeOK, InHand
  <2>2. disk' = [disk EXCEPT ![d] = new] /\ saves' = [saves EXCEPT ![d] = saves[d] + 1]
    BY <1>2 DEF SaveTraces, NextFile
  <2>3. \A k \in 1 .. saves[d] : new[k] = disk[d][k]
    <3> HIDE DEF d
    <3>1. QED BY <2>1, StoreFacts DEF IInv
  <2> HIDE DEF d, new
  <2>4. \A k \in 1 .. saves[e] : k \in 1 .. saves'[e] /\ disk'[e][k] = disk[e][k]
    <3>1. CASE e = d
      BY <2>1, <2>2, <2>3, <3>1 DEF IInv, TypeOK
    <3>2. CASE e # d
      BY <2>1, <2>2, <3>2 DEF IInv, TypeOK
    <3>3. QED BY <3>1, <3>2
  <2>5. QED BY <2>4 DEF AllRead, Valid
<1>3. CASE StartCycle \/ LeaveLoop \/ EndCycle \/ GenerateManifest
  BY <1>1, <1>3 DEF StartCycle, LeaveLoop, EndCycle, GenerateManifest, memory
<1>4. ASSUME NEW d \in Datasets,
             OpenDataset(d) \/ Exhausted(d) \/ Download(d) \/ OpenFails(d) \/ StreamFails(d)
      PROVE  AllRead(e)'
  BY <1>1, <1>4 DEF OpenDataset, Exhausted, Download, OpenFails, StreamFails
<1>5. ~Abort
  BY DEF Abort
<1>6. CASE UNCHANGED vars
  BY <1>1, <1>6 DEF vars, memory
<1>7. QED BY <1>2, <1>3, <1>4, <1>5, <1>6 DEF Next, LocalStep, StreamStep, Fault

\* A dataset that is dropped failed or was read, and leaves the cycle with it.
LEMMA DropReads ==
  ASSUME IInv, ReadInv, NEW d \in Datasets, Exhausted(d) \/ OpenFails(d) \/ StreamFails(d)
  PROVE  ReadInv'
<1>1. /\ pc = "visit" /\ pc' = pc /\ Visiting(d) /\ DropDataset(d)
      /\ UNCHANGED <<progress, total, saves, disk>>
      /\ (failed' = failed /\ Exhausted(d)) \/ failed' = failed \cup {d}
  BY DEF Exhausted, OpenFails, StreamFails, Visiting
<1>2. Range(remaining') = Range(remaining) \ {d}
  BY <1>1, DropFacts
<1>3. todo \in Seq(Datasets) /\ todo # << >> /\ Head(todo) = d /\ todo' = Tail(todo)
  BY <1>1 DEF Visiting, DropDataset, IInv, TypeOK
<1>4. Range(todo) \subseteq Range(todo') \cup {d}
  BY <1>3, HeadAndTail
<1>5. ASSUME NEW e \in Datasets \ (failed' \cup Range(remaining')) PROVE AllRead(e)'
  <2>1. AllRead(e)
    <3>1. CASE e = d
      BY <1>1, <1>5, <3>1, ExhaustedIsRead
    <3>2. CASE e # d
      BY <1>1, <1>2, <1>5, <3>2 DEF ReadInv
    <3>3. QED BY <3>1, <3>2
  <2>2. QED BY <1>1, <2>1 DEF AllRead, Valid
<1>6. total < Target /\ ~progress => Range(remaining) \subseteq Range(todo)
  BY <1>1 DEF ReadInv
<1>7. QED BY <1>1, <1>2, <1>4, <1>5, <1>6 DEF ReadInv

LEMMA ReadStep == ASSUME IInv, ReadInv, [Next]_vars PROVE ReadInv'
<1>1. CASE Start
  <2>1. Range(remaining') = Datasets /\ progress' /\ pc' = "cycle"
    BY <1>1 DEF Start, Datasets
  <2>2. QED BY <2>1 DEF ReadInv
<1>2. CASE pc' = "off"
  BY <1>2 DEF ReadInv
<1>3. ASSUME NEW d \in Datasets, Exhausted(d) \/ OpenFails(d) \/ StreamFails(d) PROVE ReadInv'
  BY <1>3, DropReads
<1>4. ASSUME ~Start, pc # "off", pc' # "off", UNCHANGED <<remaining, failed>>
      PROVE  \A d \in Datasets \ (failed' \cup Range(remaining')) : AllRead(d)'
  BY <1>4, StaysRead DEF ReadInv
<1>5. CASE StartCycle
  <2>1. pc = "cycle" /\ pc' = "visit" /\ todo' = remaining /\ ~Start
        /\ UNCHANGED <<remaining, failed>>
    BY <1>5 DEF StartCycle, Start
  <2>2. QED BY <1>4, <2>1 DEF ReadInv
<1>6. CASE LeaveLoop
  <2>1. /\ pc = "cycle" /\ pc' = "finish" /\ ~Start
        /\ total >= Target \/ remaining = << >> \/ ~progress
        /\ UNCHANGED <<remaining, failed, total>>
    BY <1>6 DEF LeaveLoop, Start, memory
  <2>2. total < Target => ~ (total >= Target)
    BY PipelineAssumption DEF IInv, TypeOK
  <2>3. total < Target => remaining = << >>
    BY <2>1, <2>2 DEF ReadInv
  <2>4. QED BY <1>4, <2>1, <2>3 DEF ReadInv
<1>7. CASE EndCycle
  <2>1. /\ pc = "visit" /\ pc' = "cycle" /\ ~Start
        /\ todo = << >> \/ total >= Target
        /\ UNCHANGED <<remaining, failed, total, progress>>
    BY <1>7 DEF EndCycle, Start
  <2>2. total < Target => ~ (total >= Target)
    BY PipelineAssumption DEF IInv, TypeOK
  <2>3. remaining \in Seq(Datasets) /\ todo \in Seq(Datasets)
    BY DEF IInv, TypeOK
  <2>4. todo = << >> => Range(todo) = {}
    BY <2>3, NoneIsEmpty
  <2>5. total < Target /\ ~progress => Range(remaining) = {}
    BY <2>1, <2>2, <2>4 DEF ReadInv
  <2>6. total < Target /\ ~progress => remaining = << >>
    BY <2>3, <2>5, NoneIsEmpty
  <2>7. QED BY <1>4, <2>1, <2>6 DEF ReadInv
<1>8. ASSUME NEW d \in Datasets, OpenDataset(d) PROVE ReadInv'
  <2>1. pc = "visit" /\ ~Start /\ UNCHANGED <<pc, remaining, todo, progress, total, failed>>
    BY <1>8 DEF OpenDataset, Visiting, Start
  <2>2. QED BY <1>4, <2>1 DEF ReadInv
<1>9. ASSUME NEW d \in Datasets, Download(d) PROVE ReadInv'
  <2>1. pc = "visit" /\ pc' \in {"visit", "write"} /\ progress' /\ ~Start
        /\ UNCHANGED <<remaining, failed>>
    BY <1>9 DEF Download, Visiting, Start
  <2>2. QED BY <1>4, <2>1 DEF ReadInv
<1>10. CASE SaveTraces
  <2>1. pc = "write" /\ pc' = "visit" /\ ~Start /\ UNCHANGED <<remaining, failed, progress>>
    BY <1>10 DEF SaveTraces, Start
  <2>2. QED BY <1>4, <2>1 DEF ReadInv
<1>11. CASE GenerateManifest
  <2>1. pc = "finish" /\ pc' = "done" /\ ~Start /\ UNCHANGED <<remaining, failed, total>>
    BY <1>11 DEF GenerateManifest, Start, memory
  <2>2. QED BY <1>4, <2>1 DEF ReadInv
<1>12. CASE UNCHANGED vars
  BY <1>12 DEF vars, memory, ReadInv, AllRead, Valid
<1>13. CASE Abort
  BY <1>2, <1>13 DEF Abort
<1>14. QED BY <1>1, <1>3, <1>5, <1>6, <1>7, <1>8, <1>9, <1>10, <1>11, <1>12, <1>13
           DEF Next, LocalStep, StreamStep, Fault

\* A run that stops before its target has read every dataset that did not fail to
\* its end, whatever the datasets hold and whichever of them fail
\* (pipeline.py:114-115).
THEOREM ShortOnlyWhenAllReadCorrect == Spec => []ShortOnlyWhenAllRead
<1>1. Init => ReadInv
  BY DEF Init, ReadInv
<1>2. IInv /\ ReadInv /\ [Next]_vars => ReadInv'
  BY ReadStep
<1>3. ReadInv => ShortOnlyWhenAllRead
  <2>1. Range(<< >>) = {}
    BY NoneIsEmpty, EmptySeq
  <2>2. QED BY <2>1 DEF ReadInv, ShortOnlyWhenAllRead
<1> QED BY <1>1, <1>2, <1>3, Invariance, PTL DEF Spec
=============================================================================

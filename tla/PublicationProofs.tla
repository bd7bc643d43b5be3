------------------------- MODULE PublicationProofs -------------------------
(***************************************************************************)
(* Proofs about Publication, for any modules, parts, scrapes and times.    *)
(*                                                                         *)
(* The inductive invariant relates the number of a fetch to the number of  *)
(* the published one: fetches of a dataset are numbered, a published       *)
(* vector never has a higher number than the latest fetch, and a running   *)
(* fetch always has a higher one.  So what is written is not published.    *)
(***************************************************************************)
EXTENDS Publication, SequenceTheorems, TLAPS

LEMMA Membership ==
  ASSUME NEW m \in Modules
  PROVE  /\ Count(m) \in Nat \ {0}
         /\ 1 \in 1..Count(m)
         /\ \A i \in 1..Count(m) : Part(m, i) \in Datasets
         /\ Plain(m) => Count(m) = 1 /\ Part(m, 1) = m
<1>1. Parts[m] \in Seq(Datasets) /\ Parts[m] # <<>>
  BY ModulesAssumption
<1>2. Count(m) \in Nat \ {0}
  BY <1>1, EmptySeq DEF Count
<1>3. \A i \in 1..Count(m) : Part(m, i) \in PartsOf(m)
  BY DEF PartsOf
<1>4. PartsOf(m) \subseteq Datasets
  BY DEF Datasets
<1>5. Plain(m) => Count(m) = 1 /\ Part(m, 1) = m
  BY DEF Plain, Count, Part
<1> QED
  BY <1>2, <1>3, <1>4, <1>5

LEMMA WritingTo ==
  ASSUME TypeOK, NEW m \in Modules
  PROVE  /\ Dataset(m) \in Datasets
         /\ runs[Dataset(m)] \in 0..MaxRuns
         /\ VectorOf(m) = <<Dataset(m), runs[Dataset(m)]>>
         /\ VectorOf(m) \in Vectors
         /\ rows[VectorOf(m)] \in 0..Rows
         /\ part[m] \in 1..Count(m)
         /\ Count(m) \in Nat
BY Membership DEF TypeOK, Dataset, VectorOf, Vectors

-----------------------------------------------------------------------------
(* Fetch counts: within a run, the parts up to the current one have been   *)
(* fetched once more than the others.                                      *)
Fetched(m, i) == runs[Part(m, i)]

CountsInStep ==
  \A m \in Modules : \A i \in 1..Count(m) :
    Fetched(m, i) = IF stage[m] = "fetch" /\ i > part[m]
                    THEN Fetched(m, 1) - 1 ELSE Fetched(m, 1)

(* What a stage says of the part index. *)
PartShape ==
  \A m \in Modules :
    /\ stage[m] \in {"idle", "closing"} => part[m] = 1
    /\ stage[m] = "finish" => part[m] = Count(m)

Counts == TypeOK /\ CountsInStep /\ PartShape

LEMMA CountsInit == Init => Counts
<1>1. Init => TypeOK
  BY Membership, BoundsAssumption DEF Init, Never, TypeOK, Vectors
<1>2. Init => CountsInStep
  BY Membership DEF Init, CountsInStep, Fetched
<1>3. ASSUME Init, NEW m \in Modules
      PROVE  stage[m] = "idle" /\ part[m] = 1
  BY <1>3 DEF Init
<1>4. Init => PartShape
  BY <1>3 DEF PartShape
<1> QED
  BY <1>1, <1>2, <1>4 DEF Counts

(* A new fetch of a dataset: how the counts move.                          *)
LEMMA Advance ==
  ASSUME Counts, NEW m \in Modules, NextPart(m), stage[m] = "fetch"
  PROVE  /\ CountsInStep' /\ PartShape'
         /\ stage' \in [Modules -> {"idle", "fetch", "finish", "closing"}]
         /\ part' \in [Modules -> Nat] /\ \A n \in Modules : part'[n] \in 1..Count(n)
         /\ runs' \in [Datasets -> 0..MaxRuns]
         /\ \A k \in Datasets : runs'[k] >= runs[k]
         /\ stage'[m] = "fetch" =>
              runs'[Part(m, part'[m])] = runs[Part(m, part'[m])] + 1
         /\ \A n \in Modules \ {m} : \A i \in 1..Count(n) :
              runs'[Part(n, i)] = runs[Part(n, i)]
<1> USE DEF Counts, Fetched, CountsInStep, PartShape
<1>0. /\ part[m] \in 1..Count(m) /\ Count(m) \in Nat
      /\ \A n \in Modules : \A i \in 1..Count(n) :
           Part(n, i) \in Datasets /\ runs[Part(n, i)] \in 0..MaxRuns
  BY Membership DEF TypeOK
<1>1. CASE part[m] < Count(m)
  <2> DEFINE j == part[m] + 1
  <2>1. /\ part' = [part EXCEPT ![m] = j]
        /\ runs' = [runs EXCEPT ![Part(m, j)] = @ + 1]
        /\ stage' = stage
    BY <1>1, <1>0 DEF NextPart, TypeOK
  <2>2. j \in 1..Count(m) /\ j # 1 /\ j > part[m]
    BY <1>0, <1>1
  <2>3. \A n \in Modules : \A i \in 1..Count(n) :
          runs'[Part(n, i)] = IF n = m /\ i = j THEN runs[Part(n, i)] + 1
                               ELSE runs[Part(n, i)]
    BY <2>1, <2>2, <1>0, PartsAssumption, Membership DEF TypeOK
  <2>4. runs[Part(m, j)] = runs[Part(m, 1)] - 1
    BY <2>2
  <2>5. 1 \in 1..Count(m) /\ MaxRuns \in Nat
    BY <2>2, <1>0, BoundsAssumption
  <2>6. runs' \in [Datasets -> 0..MaxRuns]
    BY <2>1, <2>2, <2>4, <2>5, <1>0 DEF TypeOK
  <2>7. CountsInStep'
    <3> SUFFICES ASSUME NEW n \in Modules, NEW i \in 1..Count(n)
                 PROVE  runs'[Part(n, i)] =
                          IF stage'[n] = "fetch" /\ i > part'[n]
                          THEN runs'[Part(n, 1)] - 1 ELSE runs'[Part(n, 1)]
      OBVIOUS
    <3>1. 1 \in 1..Count(n)
      BY Membership
    <3>2. CASE n # m
      BY <3>1, <3>2, <2>1, <2>3 DEF TypeOK
    <3>3. CASE n = m
      <4>1. part'[n] = j /\ stage'[n] = "fetch"
        BY <3>3, <2>1 DEF TypeOK
      <4>2. runs'[Part(m, 1)] = runs[Part(m, 1)]
        BY <2>2, <2>3, <2>5
      <4>3. CASE i = j
        BY <3>3, <4>1, <4>2, <4>3, <2>3, <2>4, <2>2, <2>5, <1>0
      <4>4. CASE i # j
        <5>1. i > j <=> i > part[m]
          BY <4>4, <3>3, <1>0
        <5> QED
          BY <5>1, <4>4, <3>3, <4>1, <4>2, <2>3
      <4> QED
        BY <4>3, <4>4
    <3> QED
      BY <3>2, <3>3
  <2>8. PartShape'
    BY <2>1 DEF TypeOK
  <2>9. part' \in [Modules -> Nat] /\ \A n \in Modules : part'[n] \in 1..Count(n)
    BY <2>1, <2>2, Membership DEF TypeOK
  <2>10. \A k \in Datasets : runs'[k] >= runs[k]
    BY <2>1 DEF TypeOK
  <2>11. runs'[Part(m, part'[m])] = runs[Part(m, part'[m])] + 1
    BY <2>1, <2>2, <2>3 DEF TypeOK
  <2> QED
    BY <2>1, <2>3, <2>6, <2>7, <2>8, <2>9, <2>10, <2>11 DEF TypeOK
<1>2. CASE ~(part[m] < Count(m))
  <2>1. stage' = [stage EXCEPT ![m] = "finish"] /\ part' = part /\ runs' = runs
    BY <1>2 DEF NextPart
  <2>2. part[m] = Count(m)
    BY <1>0, <1>2
  <2>3. CountsInStep'
    BY <2>1, <2>2, <1>0 DEF TypeOK
  <2> QED
    BY <2>1, <2>2, <2>3, <1>0 DEF TypeOK
<1> QED
  BY <1>1, <1>2

LEMMA CountsStep == ASSUME Counts, [Next]_vars PROVE Counts'
<1> USE DEF Counts
<1>0. TypeOK /\ CountsInStep /\ PartShape
  OBVIOUS
<1>1. ASSUME NEW m \in Modules, BeginRun(m)
      PROVE  Counts'
  <2>1. /\ 1 \in 1..Count(m) /\ Part(m, 1) \in Datasets
        /\ stage' = [stage EXCEPT ![m] = "fetch"]
        /\ part' = part /\ part[m] = 1
        /\ runs' = [runs EXCEPT ![Part(m, 1)] = @ + 1]
        /\ runs[Part(m, 1)] < MaxRuns
    BY <1>1, Membership DEF BeginRun, PartShape
  <2>2. runs' \in [Datasets -> 0..MaxRuns]
    BY <2>1, BoundsAssumption DEF TypeOK
  <2>3. TypeOK'
    BY <1>1, <2>1, <2>2 DEF BeginRun, TypeOK, snapVars, scrapeVars
  <2>4. \A n \in Modules : \A i \in 1..Count(n) :
          runs'[Part(n, i)] = IF n = m /\ i = 1 THEN runs[Part(n, i)] + 1
                              ELSE runs[Part(n, i)]
    BY <2>1, PartsAssumption, Membership DEF TypeOK
  <2>5. CountsInStep'
    <3> SUFFICES ASSUME NEW n \in Modules, NEW i \in 1..Count(n)
                 PROVE  runs'[Part(n, i)] =
                          IF stage'[n] = "fetch" /\ i > part'[n]
                          THEN runs'[Part(n, 1)] - 1 ELSE runs'[Part(n, 1)]
      BY DEF CountsInStep, Fetched
    <3>1. runs[Part(n, i)] = IF stage[n] = "fetch" /\ i > part[n]
                             THEN runs[Part(n, 1)] - 1 ELSE runs[Part(n, 1)]
      BY DEF CountsInStep, Fetched
    <3>2. 1 \in 1..Count(n) /\ Part(n, 1) \in Datasets /\ Count(n) \in Nat
      BY Membership
    <3>3. CASE n = m
      <4>1. stage[m] = "idle" /\ stage'[m] = "fetch" /\ part'[m] = 1
        BY <1>1, <2>1 DEF BeginRun, TypeOK
      <4> QED
        <5>1. runs[Part(m, 1)] \in Nat /\ runs[Part(m, i)] = runs[Part(m, 1)]
          BY <3>1, <3>2, <3>3, <4>1 DEF TypeOK
        <5>2. runs'[Part(m, 1)] = runs[Part(m, 1)] + 1
          BY <3>2, <3>3, <2>4
        <5>3. CASE i = 1
          BY <5>3, <4>1, <3>3
        <5>4. CASE i # 1
          <6>1. i > 1 /\ runs'[Part(m, i)] = runs[Part(m, i)]
            BY <5>4, <2>4, <3>3
          <6> QED
            BY <6>1, <5>1, <5>2, <4>1, <3>3
        <5> QED
          BY <5>3, <5>4
    <3>4. CASE n # m
      BY <3>1, <3>2, <3>4, <2>1, <2>4 DEF TypeOK
    <3> QED
      BY <3>3, <3>4
  <2>6. PartShape'
    BY <2>1 DEF PartShape, TypeOK
  <2> QED
    BY <2>3, <2>5, <2>6
<1>2. ASSUME NEW m \in Modules, WriteRow(m)
      PROVE  Counts'
  <2>1. rows' \in [Vectors -> 0..Rows]
    <3>1. rows[VectorOf(m)] + 1 \in 0..Rows /\ VectorOf(m) \in Vectors
      BY <1>2, WritingTo, BoundsAssumption DEF WriteRow, Complete
    <3>2. rows' = [rows EXCEPT ![VectorOf(m)] = rows[VectorOf(m)] + 1]
      BY <1>2 DEF WriteRow
    <3> QED
      BY <3>1, <3>2 DEF TypeOK
  <2>2. TypeOK'
    BY <1>2, <2>1 DEF WriteRow, TypeOK, snapVars, scrapeVars
  <2>3. CountsInStep' /\ PartShape'
    BY <1>2 DEF WriteRow, CountsInStep, PartShape, Fetched
  <2> QED
    BY <2>2, <2>3
<1>3. ASSUME NEW m \in Modules, SubSucceeds(m)
      PROVE  Counts'
  <2>1. TypeOK'
    BY <1>3, WritingTo, Advance DEF SubSucceeds, TypeOK, scrapeVars
  <2> QED
    BY <1>3, <2>1, Advance DEF SubSucceeds
<1>4. ASSUME NEW m \in Modules, SubFails(m)
      PROVE  Counts'
  <2>1. TypeOK'
    BY <1>4, Advance DEF SubFails, TypeOK, snapVars, scrapeVars
  <2> QED
    BY <1>4, <2>1, Advance DEF SubFails
<1>5. ASSUME NEW m \in Modules, RunSucceeds(m) \/ RunFails(m)
      PROVE  Counts'
  <2>1. /\ stage[m] \in {"fetch", "finish"}
        /\ stage[m] = "fetch" => Count(m) = 1
        /\ runs' = runs /\ rows' = rows
        /\ \E label \in {"idle", "closing"} : Leave(m, label)
    BY <1>5, Membership DEF RunSucceeds, RunFails
  <2>2. 1 \in 1..Count(m) /\ Count(m) \in Nat
    BY Membership
  <2>3. /\ \A n \in Modules \ {m} : stage'[n] = stage[n] /\ part'[n] = part[n]
        /\ stage'[m] \in {"idle", "closing"} /\ part'[m] = 1
    BY <2>1 DEF Leave, TypeOK
  <2>4. CountsInStep'
    <3> SUFFICES ASSUME NEW n \in Modules, NEW i \in 1..Count(n)
                 PROVE  runs[Part(n, i)] =
                          IF stage'[n] = "fetch" /\ i > part'[n]
                          THEN runs[Part(n, 1)] - 1 ELSE runs[Part(n, 1)]
      BY <2>1 DEF CountsInStep, Fetched
    <3>1. runs[Part(n, i)] = IF stage[n] = "fetch" /\ i > part[n]
                             THEN runs[Part(n, 1)] - 1 ELSE runs[Part(n, 1)]
      BY DEF CountsInStep, Fetched
    <3>2. CASE n = m
      <4>1. ~(stage[m] = "fetch" /\ i > part[m])
        BY <2>1, <2>2, <3>2 DEF TypeOK
      <4> QED
        BY <4>1, <3>1, <3>2, <2>3
    <3> QED
      BY <3>1, <3>2, <2>3
  <2>5. PartShape'
    BY <2>3 DEF PartShape
  <2>6. vector' \in [Datasets -> Vectors] /\ time' \in [Datasets -> Nat]
    <3>1. CASE Plain(m) /\ RunSucceeds(m)
      BY <3>1, WritingTo DEF RunSucceeds, TypeOK
    <3>2. CASE ~(Plain(m) /\ RunSucceeds(m))
      BY <1>5, <3>2 DEF RunSucceeds, RunFails, TypeOK, snapVars
    <3> QED
      BY <3>1, <3>2
  <2>7. TypeOK'
    <3>1. /\ stage' \in [Modules -> {"idle", "fetch", "finish", "closing"}]
          /\ part' \in [Modules -> Nat] /\ \A n \in Modules : part'[n] \in 1..Count(n)
          /\ begun' \in [Modules -> Nat] /\ hurt' \in [Modules -> BOOLEAN]
      BY <2>1, <2>2 DEF Leave, TypeOK, Never
    <3>2. pub' \in [Modules -> Nat] /\ since' \in [Modules -> Nat]
      BY <1>5 DEF RunSucceeds, RunFails, TypeOK, snapVars
    <3>3. now' = now /\ stale' = stale /\ scrapeVars' = scrapeVars /\ asked' = asked
      BY <1>5 DEF RunSucceeds, RunFails
    <3> QED
      BY <2>1, <2>6, <3>1, <3>2, <3>3 DEF TypeOK, scrapeVars
  <2> QED
    BY <2>4, <2>5, <2>7
<1>6. ASSUME NEW m \in Modules, CloseCycle(m)
      PROVE  Counts'
  <2>1. TypeOK'
    BY <1>6 DEF CloseCycle, TypeOK, snapVars, scrapeVars, StaleAt
  <2>2. CountsInStep' /\ PartShape'
    BY <1>6 DEF CloseCycle, CountsInStep, PartShape, Fetched, TypeOK
  <2> QED
    BY <2>1, <2>2
<1>7. ASSUME UNCHANGED <<stage, part, begun, hurt, runs, rows>>, TypeOK'
      PROVE  Counts'
  BY <1>7 DEF CountsInStep, PartShape, Fetched
<1>8. CASE Tick
  <2>1. TypeOK'
    BY <1>8 DEF Tick, TypeOK, runVars, snapVars, scrapeVars
  <2> QED
    BY <1>7, <1>8, <2>1 DEF Tick, runVars
<1>9. ASSUME NEW s \in Scrapers, Capture(s)
      PROVE  Counts'
  <2>1. {<<k, vector[k]>> : k \in Served(now)} \subseteq Datasets \X Vectors
    BY DEF Served, TypeOK
  <2>2. TypeOK'
    BY <1>9, <2>1 DEF Capture, TypeOK, runVars, snapVars, StaleAt
  <2> QED
    BY <1>7, <1>9, <2>2 DEF Capture, runVars
<1>10. ASSUME NEW s \in Scrapers, NEW m \in Modules, ReadStatus(s, m)
       PROVE  Counts'
  <2>1. TypeOK'
    <3>1. PICK value \in {0, 1} :
            status' = [status EXCEPT ![s] = status[s] \cup {<<m, value>>}]
      BY <1>10 DEF ReadStatus
    <3>2. status' \in [Scrapers -> SUBSET (Modules \X {0, 1})]
      BY <3>1 DEF TypeOK
    <3> QED
      BY <1>10, <3>2 DEF ReadStatus, TypeOK, runVars, snapVars
  <2> QED
    BY <1>7, <1>10, <2>1 DEF ReadStatus, runVars
<1>11. ASSUME NEW s \in Scrapers, ReadVector(s)
       PROVE  Counts'
  <2>1. PICK c \in list[s] :
          /\ seen' = [seen EXCEPT ![s] = @ \cup {<<c[1], ResultIn(c[1], c[2])>>}]
          /\ list' = [list EXCEPT ![s] = @ \ {c}]
    BY <1>11 DEF ReadVector
  <2>2. c[1] \in Datasets /\ ResultIn(c[1], c[2]) \in {-1} \cup Nat
    BY DEF TypeOK, ResultIn, Vectors
  <2>3. TypeOK'
    BY <1>11, <2>1, <2>2 DEF ReadVector, TypeOK, runVars, snapVars
  <2> QED
    BY <1>7, <1>11, <2>3 DEF ReadVector, runVars
<1>12. ASSUME NEW p \in Probes, Ask(p) \/ Tell(p)
       PROVE  Counts'
  <2>1. TypeOK'
    BY <1>12 DEF Ask, Tell, TypeOK, runVars, snapVars, scrapeVars, StaleAt, Never
  <2> QED
    BY <1>7, <1>12, <2>1 DEF Ask, Tell, runVars
<1>13. CASE UNCHANGED vars
  <2>1. TypeOK'
    BY <1>13 DEF vars, TypeOK, runVars, snapVars, scrapeVars
  <2> QED
    BY <1>7, <1>13, <2>1 DEF vars, runVars
<1> QED
  BY <1>1, <1>2, <1>3, <1>4, <1>5, <1>6, <1>8, <1>9, <1>10, <1>11, <1>12, <1>13
  DEF Next

(* Whatever the modules and their parts, the state is well typed. *)
THEOREM TypeCorrect == Spec => []TypeOK
BY CountsInit, CountsStep, PTL DEF Spec, Counts

(* A failing subcollector never costs a sibling its fetch. *)
THEOREM SiblingsFetched == Spec => []SiblingsFetchedEqually
<1>1. Counts => SiblingsFetchedEqually
  <2> SUFFICES ASSUME Counts, NEW m \in Modules, stage[m] \in {"idle", "closing"},
                      NEW k \in PartsOf(m)
               PROVE  runs[k] = runs[Part(m, 1)]
    BY DEF SiblingsFetchedEqually
  <2>1. PICK i \in 1..Count(m) : k = Part(m, i)
    BY DEF PartsOf
  <2> QED
    BY <2>1 DEF Counts, CountsInStep, Fetched
<1> QED
  BY <1>1, CountsInit, CountsStep, PTL DEF Spec

-----------------------------------------------------------------------------
(* Published vectors are complete and older than any fetch under way. *)
Published ==
  \A k \in Datasets :
    /\ vector[k] = <<k, vector[k][2]>>
    /\ vector[k][2] <= runs[k]
    /\ time[k] # Never <=> vector[k][2] # 0
    /\ vector[k][2] # 0 => rows[vector[k]] = Rows

FetchesAhead ==
  \A m \in Modules : stage[m] = "fetch" =>
    vector[Dataset(m)][2] < runs[Dataset(m)]

(* What a scrape holds was published, and is at most as new as what is. *)
Captured ==
  \A s \in Scrapers :
    /\ scrape[s] = "idle" => list[s] = {} /\ seen[s] = {}
    /\ \A c \in list[s] :
         /\ c = <<c[1], <<c[1], c[2][2]>>>>
         /\ c[2][2] # 0 /\ rows[c[2]] = Rows
         /\ c[2][2] <= vector[c[1]][2]

VInv == Counts /\ Published /\ FetchesAhead /\ Captured

LEMMA VectorNumbers ==
  ASSUME TypeOK
  PROVE  /\ \A k \in Datasets : vector[k] \in Vectors /\ vector[k][2] \in 0..MaxRuns
         /\ \A s \in Scrapers : \A c \in list[s] :
              c[1] \in Datasets /\ c[2] \in Vectors /\ c[2][2] \in 0..MaxRuns
BY DEF TypeOK, Vectors

(* Nobody can read what a run is writing. *)
LEMMA WrittenUnpublished ==
  ASSUME VInv, NEW m \in Modules, stage[m] = "fetch"
  PROVE  /\ \A k \in Datasets : vector[k] # VectorOf(m)
         /\ \A s \in Scrapers : \A c \in list[s] : c[2] # VectorOf(m)
<1> USE DEF VInv
<1>0. TypeOK
  BY DEF Counts
<1>1. /\ Dataset(m) \in Datasets /\ VectorOf(m) = <<Dataset(m), runs[Dataset(m)]>>
      /\ runs[Dataset(m)] \in 0..MaxRuns
      /\ vector[Dataset(m)][2] < runs[Dataset(m)]
  BY <1>0, WritingTo DEF FetchesAhead
<1>2. ASSUME NEW k \in Datasets, vector[k] = VectorOf(m)
      PROVE  FALSE
  <2>1. vector[k] = <<k, vector[k][2]>>
    BY DEF Published
  <2>2. k = Dataset(m) /\ vector[k][2] = runs[Dataset(m)]
    BY <1>1, <1>2, <2>1
  <2> QED
    BY <1>1, <2>2
<1>3. ASSUME NEW s \in Scrapers, NEW c \in list[s], c[2] = VectorOf(m)
      PROVE  FALSE
  <2>1. c[2] = <<c[1], c[2][2]>> /\ c[2][2] <= vector[c[1]][2]
    BY DEF Captured
  <2>2. c[1] = Dataset(m) /\ c[2][2] = runs[Dataset(m)]
    BY <1>1, <1>3, <2>1
  <2>3. vector[Dataset(m)][2] \in 0..MaxRuns
    BY <1>0, <1>1, VectorNumbers
  <2> QED
    BY <1>1, <2>1, <2>2, <2>3
<1> QED
  BY <1>2, <1>3

LEMMA VInvInit == Init => VInv
<1>1. Init => Published /\ FetchesAhead /\ Captured
  BY DEF Init, Published, FetchesAhead, Captured, Never
<1> QED
  BY <1>1, CountsInit DEF VInv

(* Fetch numbers only grow, so steps that leave snapshots alone keep them  *)
(* behind.                                                                 *)
LEMMA Unpublishing ==
  ASSUME VInv, Counts', UNCHANGED <<vector, time, rows, scrape, list, seen>>,
         \A k \in Datasets : runs'[k] >= runs[k]
  PROVE  Published' /\ Captured'
<1>1. \A k \in Datasets : /\ runs[k] \in Nat /\ runs'[k] \in Nat
                          /\ vector[k][2] \in Nat
  BY VectorNumbers DEF VInv, Counts, TypeOK
<1>2. Published'
  <2> SUFFICES ASSUME NEW k \in Datasets
               PROVE  /\ vector[k] = <<k, vector[k][2]>>
                      /\ vector[k][2] <= runs'[k]
                      /\ time[k] # Never <=> vector[k][2] # 0
                      /\ vector[k][2] # 0 => rows[vector[k]] = Rows
    BY DEF Published
  <2> QED
    BY <1>1 DEF VInv, Published
<1>3. Captured'
  BY DEF VInv, Captured
<1> QED
  BY <1>2, <1>3

(* A completed fetch replaces the snapshot of its dataset. *)
LEMMA Publishing ==
  ASSUME VInv, Counts', NEW m \in Modules, stage[m] = "fetch", Complete(m),
         vector' = [vector EXCEPT ![Dataset(m)] = VectorOf(m)],
         time' = [time EXCEPT ![Dataset(m)] = now],
         UNCHANGED <<rows, scrape, list, seen>>,
         \A k \in Datasets : runs'[k] >= runs[k]
  PROVE  Published' /\ Captured'
<1> DEFINE d == Dataset(m)
<1>0. TypeOK /\ Published /\ FetchesAhead /\ Captured
  BY DEF VInv, Counts
<1>1. /\ d \in Datasets /\ VectorOf(m) = <<d, runs[d]>> /\ VectorOf(m) \in Vectors
      /\ runs[d] \in Nat /\ vector[d][2] \in Nat /\ vector[d][2] < runs[d]
      /\ rows[VectorOf(m)] = Rows /\ now # 0
  BY <1>0, WritingTo, VectorNumbers DEF FetchesAhead, Complete, TypeOK
<1>2. \A k \in Datasets : vector'[k] = IF k = d THEN <<d, runs[d]>> ELSE vector[k]
  BY <1>0, <1>1 DEF TypeOK
<1>3. \A k \in Datasets : time'[k] = IF k = d THEN now ELSE time[k]
  BY <1>0, <1>1 DEF TypeOK
<1>4. \A k \in Datasets : /\ runs[k] \in Nat /\ runs'[k] \in Nat
                          /\ vector[k][2] \in Nat
  BY <1>0, VectorNumbers DEF Counts, TypeOK
<1>5. Published'
  <2> SUFFICES ASSUME NEW k \in Datasets
               PROVE  /\ vector'[k] = <<k, vector'[k][2]>>
                      /\ vector'[k][2] <= runs'[k]
                      /\ time'[k] # Never <=> vector'[k][2] # 0
                      /\ vector'[k][2] # 0 => rows[vector'[k]] = Rows
    BY DEF Published
  <2>1. CASE k = d
    BY <1>1, <1>2, <1>3, <1>4, <2>1 DEF Never
  <2>2. CASE k # d
    <3>1. vector'[k] = vector[k] /\ time'[k] = time[k]
      BY <1>2, <1>3, <2>2
    <3> QED
      BY <1>0, <1>4, <3>1 DEF Published
  <2> QED
    BY <2>1, <2>2
<1>6. Captured'
  <2>1. ASSUME NEW s \in Scrapers, NEW c \in list[s]
        PROVE  c[2][2] <= vector'[c[1]][2]
    <3>1. /\ c[1] \in Datasets /\ c[2][2] \in 0..MaxRuns
          /\ c[2][2] <= vector[c[1]][2]
      BY <1>0, VectorNumbers DEF Captured
    <3>2. vector'[c[1]][2] = IF c[1] = d THEN runs[d] ELSE vector[c[1]][2]
      BY <1>2, <3>1
    <3> QED
      BY <1>1, <1>4, <3>1, <3>2
  <2> QED
    BY <1>0, <2>1 DEF Captured
<1> QED
  BY <1>5, <1>6

(* The next fetch starts ahead of its dataset's snapshot, and publishing   *)
(* a part does not touch what the others fetch.                            *)
LEMMA StillAhead ==
  ASSUME VInv, Counts', NEW m \in Modules, stage[m] = "fetch", NextPart(m),
         \A k \in Datasets : k # Dataset(m) => vector'[k] = vector[k]
  PROVE  FetchesAhead'
<1>0. TypeOK /\ Published /\ FetchesAhead
  BY DEF VInv, Counts
<1>1. /\ \A k \in Datasets : runs'[k] >= runs[k]
      /\ stage'[m] = "fetch" =>
           runs'[Part(m, part'[m])] = runs[Part(m, part'[m])] + 1
  BY Advance DEF VInv
<1>2. \A k \in Datasets : /\ runs[k] \in Nat /\ runs'[k] \in Nat
                          /\ vector[k][2] \in Nat
  BY <1>0, VectorNumbers DEF Counts, TypeOK
<1> SUFFICES ASSUME NEW n \in Modules, stage'[n] = "fetch"
             PROVE  vector'[Part(n, part'[n])][2] < runs'[Part(n, part'[n])]
  BY DEF FetchesAhead, Dataset
<1>3. part[n] \in 1..Count(n) /\ part'[n] \in 1..Count(n) /\ part[m] \in 1..Count(m)
  BY <1>0 DEF Counts, TypeOK
<1>4. Part(n, part'[n]) \in Datasets
  BY <1>3, Membership
<1>5. CASE n = m
  <2>1. part'[m] = part[m] + 1
    BY <1>0, <1>5 DEF NextPart, TypeOK
  <2>2. Part(m, part'[m]) # Dataset(m)
    BY <1>3, <1>5, <2>1, PartsAssumption DEF Dataset
  <2>3. vector'[Part(m, part'[m])] = vector[Part(m, part'[m])]
    BY <1>4, <1>5, <2>2
  <2>4. vector[Part(m, part'[m])][2] <= runs[Part(m, part'[m])]
    BY <1>0, <1>4, <1>5 DEF Published
  <2> QED
    BY <1>1, <1>2, <1>4, <1>5, <2>3, <2>4
<1>6. CASE n # m
  <2>1. part'[n] = part[n] /\ stage'[n] = stage[n]
    BY <1>0, <1>6 DEF NextPart, TypeOK
  <2>2. Part(n, part'[n]) # Dataset(m)
    BY <1>3, <1>6, PartsAssumption DEF Dataset
  <2>3. vector'[Part(n, part'[n])] = vector[Part(n, part'[n])]
    BY <1>4, <2>2
  <2>4. vector[Part(n, part'[n])][2] < runs[Part(n, part'[n])]
    BY <1>0, <2>1 DEF FetchesAhead, Dataset
  <2> QED
    BY <1>1, <1>2, <1>4, <2>3, <2>4
<1> QED
  BY <1>5, <1>6

LEMMA VInvStep == ASSUME VInv, [Next]_vars PROVE VInv'
<1>0. Counts /\ Counts' /\ TypeOK /\ Published /\ FetchesAhead /\ Captured
  BY CountsStep DEF VInv, Counts
<1>1. \A k \in Datasets : runs[k] \in Nat
  BY <1>0 DEF TypeOK
<1>2. ASSUME NEW m \in Modules, BeginRun(m)
      PROVE  VInv'
  <2>1. /\ Part(m, 1) \in Datasets /\ part[m] = 1
        /\ stage' = [stage EXCEPT ![m] = "fetch"]
        /\ part' = part /\ vector' = vector
        /\ runs' = [runs EXCEPT ![Part(m, 1)] = @ + 1]
    BY <1>0, <1>2, Membership DEF BeginRun, Counts, PartShape, snapVars
  <2>2. \A k \in Datasets :
          runs'[k] = IF k = Part(m, 1) THEN runs[k] + 1 ELSE runs[k]
    BY <1>0, <2>1 DEF TypeOK
  <2>3. Published' /\ Captured'
    BY <1>0, <1>1, <1>2, <2>2, Unpublishing DEF BeginRun, snapVars, scrapeVars
  <2>4. ASSUME NEW n \in Modules, stage'[n] = "fetch"
        PROVE  vector'[Part(n, part'[n])][2] < runs'[Part(n, part'[n])]
    <3>1. Part(n, part[n]) \in Datasets
      BY <1>0, Membership DEF TypeOK
    <3>2. /\ runs[Part(n, part[n])] \in Nat
          /\ vector[Part(n, part[n])][2] \in Nat
          /\ vector[Part(n, part[n])][2] <= runs[Part(n, part[n])]
      BY <1>0, <1>1, <3>1, VectorNumbers DEF Published
    <3>3. CASE n = m
      BY <2>1, <2>2, <3>1, <3>2, <3>3
    <3>4. CASE n # m
      <4>1. vector[Part(n, part[n])][2] < runs[Part(n, part[n])]
        BY <1>0, <2>1, <2>4, <3>4 DEF FetchesAhead, Dataset, TypeOK
      <4> QED
        BY <2>1, <2>2, <3>1, <3>2, <4>1
    <3> QED
      BY <3>3, <3>4
  <2> QED
    BY <1>0, <2>3, <2>4 DEF VInv, FetchesAhead, Dataset
<1>3. ASSUME NEW m \in Modules, WriteRow(m)
      PROVE  VInv'
  <2>1. /\ \A v \in Vectors : v # VectorOf(m) => rows'[v] = rows[v]
        /\ UNCHANGED <<stage, part, runs, vector, time, scrape, list, seen>>
    BY <1>0, <1>3 DEF WriteRow, TypeOK, snapVars, scrapeVars
  <2>2. /\ \A k \in Datasets : rows'[vector[k]] = rows[vector[k]]
        /\ \A s \in Scrapers : \A c \in list[s] : rows'[c[2]] = rows[c[2]]
    BY <1>0, <1>3, <2>1, WrittenUnpublished, VectorNumbers DEF WriteRow
  <2>3. Published'
    BY <1>0, <2>1, <2>2 DEF Published
  <2>4. Captured'
    BY <1>0, <2>1, <2>2 DEF Captured
  <2>5. FetchesAhead'
    BY <1>0, <2>1 DEF FetchesAhead, Dataset
  <2> QED
    BY <1>0, <2>3, <2>4, <2>5 DEF VInv
<1>4. ASSUME NEW m \in Modules, SubSucceeds(m)
      PROVE  VInv'
  <2>1. \A k \in Datasets : runs'[k] >= runs[k]
    BY <1>0, <1>4, Advance DEF SubSucceeds
  <2>2. Published' /\ Captured'
    BY <1>0, <1>4, <2>1, Publishing DEF SubSucceeds, scrapeVars
  <2>3. FetchesAhead'
    BY <1>0, <1>4, StillAhead DEF SubSucceeds, TypeOK
  <2> QED
    BY <1>0, <2>2, <2>3 DEF VInv
<1>5. ASSUME NEW m \in Modules, SubFails(m)
      PROVE  VInv'
  <2>1. \A k \in Datasets : runs'[k] >= runs[k]
    BY <1>0, <1>5, Advance DEF SubFails
  <2>2. Published' /\ Captured'
    BY <1>0, <1>5, <2>1, Unpublishing DEF SubFails, snapVars, scrapeVars
  <2>3. FetchesAhead'
    BY <1>0, <1>5, StillAhead DEF SubFails, snapVars
  <2> QED
    BY <1>0, <2>2, <2>3 DEF VInv
<1>6. ASSUME NEW m \in Modules, RunSucceeds(m) \/ RunFails(m)
      PROVE  VInv'
  <2>1. /\ runs' = runs /\ rows' = rows /\ scrapeVars' = scrapeVars
        /\ \E label \in {"idle", "closing"} : Leave(m, label)
    BY <1>6 DEF RunSucceeds, RunFails
  <2>2. \A n \in Modules : stage'[n] = "fetch" =>
          n # m /\ stage[n] = "fetch" /\ part'[n] = part[n]
    BY <1>0, <2>1 DEF Leave, TypeOK
  <2>3. \A k \in Datasets : runs'[k] >= runs[k]
    BY <1>1, <2>1
  <2>4. CASE Plain(m) /\ RunSucceeds(m)
    <3>1. Dataset(m) = m
      BY <1>0, Membership, <2>4 DEF Dataset, TypeOK
    <3>2. Published' /\ Captured'
      BY <1>0, <2>1, <2>3, <2>4, <3>1, Publishing DEF RunSucceeds, scrapeVars
    <3>3. ASSUME NEW n \in Modules, stage'[n] = "fetch"
          PROVE  vector'[Part(n, part'[n])][2] < runs'[Part(n, part'[n])]
      <4>1. n # m /\ stage[n] = "fetch" /\ part'[n] = part[n]
        BY <2>2, <3>3
      <4>2. Part(n, part[n]) # Dataset(m) /\ Part(n, part[n]) \in Datasets
        BY <1>0, <4>1, PartsAssumption, Membership DEF Dataset, TypeOK
      <4>3. vector'[Part(n, part[n])] = vector[Part(n, part[n])]
        BY <1>0, <2>4, <3>1, <4>2 DEF RunSucceeds, TypeOK
      <4> QED
        BY <1>0, <2>1, <4>1, <4>3 DEF FetchesAhead, Dataset
    <3> QED
      BY <1>0, <3>2, <3>3 DEF VInv, FetchesAhead, Dataset
  <2>5. CASE ~(Plain(m) /\ RunSucceeds(m))
    <3>1. UNCHANGED <<vector, time>>
      BY <1>6, <2>5 DEF RunSucceeds, RunFails, snapVars
    <3>2. Published' /\ Captured'
      BY <1>0, <2>1, <2>3, <3>1, Unpublishing DEF scrapeVars
    <3>3. FetchesAhead'
      BY <1>0, <2>1, <2>2, <3>1 DEF FetchesAhead, Dataset
    <3> QED
      BY <1>0, <3>2, <3>3 DEF VInv
  <2> QED
    BY <2>4, <2>5
<1>7. ASSUME NEW s \in Scrapers, Capture(s)
      PROVE  VInv'
  <2>1. /\ scrape' = [scrape EXCEPT ![s] = "open"]
        /\ list' = [list EXCEPT ![s] = {<<k, vector[k]>> : k \in Served(now)}]
        /\ UNCHANGED <<stage, part, runs, rows, vector, time, seen>>
    BY <1>7 DEF Capture, runVars, snapVars
  <2>2. Published' /\ FetchesAhead'
    BY <1>0, <2>1 DEF Published, FetchesAhead, Dataset
  <2>3. ASSUME NEW k \in Served(now)
        PROVE  /\ vector[k] = <<k, vector[k][2]>> /\ vector[k][2] # 0
               /\ rows[vector[k]] = Rows /\ vector[k][2] <= vector[k][2]
    <3>1. k \in Datasets /\ vector[k][2] \in Nat
      BY <1>0, VectorNumbers DEF Served
    <3> QED
      BY <1>0, <3>1 DEF Published, Served
  <2>4. \A c \in {<<k, vector[k]>> : k \in Served(now)} :
          /\ c = <<c[1], <<c[1], c[2][2]>>>>
          /\ c[2][2] # 0 /\ rows[c[2]] = Rows /\ c[2][2] <= vector[c[1]][2]
    BY <2>3
  <2>5. Captured'
    BY <1>0, <2>1, <2>4 DEF Captured, TypeOK
  <2> QED
    BY <1>0, <2>2, <2>5 DEF VInv
<1>8. ASSUME NEW s \in Scrapers, ReadVector(s)
      PROVE  VInv'
  <2>1. PICK c \in list[s] :
          /\ seen' = [seen EXCEPT ![s] = @ \cup {<<c[1], ResultIn(c[1], c[2])>>}]
          /\ list' = [list EXCEPT ![s] = @ \ {c}]
    BY <1>8 DEF ReadVector
  <2>2. UNCHANGED <<stage, part, runs, rows, vector, time, scrape>>
    BY <1>8 DEF ReadVector, runVars, snapVars
  <2>3. Published' /\ FetchesAhead'
    BY <1>0, <2>2 DEF Published, FetchesAhead, Dataset
  <2>4. Captured'
    BY <1>0, <2>1, <2>2 DEF Captured, TypeOK
  <2> QED
    BY <1>0, <2>3, <2>4 DEF VInv
<1>9. ASSUME UNCHANGED <<part, runs, rows, vector, time, scrape, list, seen>>,
             \A n \in Modules : stage'[n] = "fetch" => stage[n] = "fetch"
      PROVE  VInv'
  BY <1>0, <1>9 DEF VInv, Published, FetchesAhead, Captured, Dataset
<1>10. ASSUME NEW m \in Modules, CloseCycle(m)
       PROVE  VInv'
  BY <1>0, <1>9, <1>10 DEF CloseCycle, TypeOK, snapVars, scrapeVars
<1>11. ASSUME \/ Tick \/ UNCHANGED vars
              \/ \E s \in Scrapers, m \in Modules : ReadStatus(s, m)
              \/ \E p \in Probes : Ask(p) \/ Tell(p)
       PROVE  VInv'
  BY <1>9, <1>11 DEF Tick, ReadStatus, Ask, Tell, vars, runVars, snapVars, scrapeVars
<1> QED
  BY <1>2, <1>3, <1>4, <1>5, <1>6, <1>7, <1>8, <1>10, <1>11 DEF Next

(* What a snapshot or a scrape refers to is complete and never written to  *)
(* again.                                                                  *)
THEOREM VectorsFrozen == Spec => []PublishedVectorsFrozen
<1>1. ASSUME VInv
      PROVE  PublishedVectorsFrozen
  <2>0. TypeOK /\ Published /\ Captured
    BY <1>1 DEF VInv, Counts
  <2>1. ASSUME NEW k \in Datasets, time[k] # Never
        PROVE  ResultIn(k, vector[k]) > 0
    <3>1. /\ vector[k] = <<k, vector[k][2]>> /\ vector[k][2] # 0
          /\ rows[vector[k]] = Rows /\ vector[k][2] \in Nat
      BY <2>0, <2>1, VectorNumbers DEF Published
    <3>2. vector[k][1] = k
      BY <3>1
    <3> QED
      BY <3>1, <3>2 DEF ResultIn
  <2>2. ASSUME NEW s \in Scrapers, NEW c \in list[s]
        PROVE  ResultIn(c[1], c[2]) > 0
    <3>1. /\ c = <<c[1], <<c[1], c[2][2]>>>> /\ c[2][2] # 0
          /\ rows[c[2]] = Rows /\ c[2][2] \in Nat
      BY <2>0, VectorNumbers DEF Captured
    <3>2. c[2][1] = c[1]
      BY <3>1
    <3> QED
      BY <3>1, <3>2 DEF ResultIn
  <2> QED
    BY <1>1, <2>1, <2>2, WrittenUnpublished DEF PublishedVectorsFrozen
<1> QED
  BY <1>1, VInvInit, VInvStep, PTL DEF Spec

-----------------------------------------------------------------------------
(* Refinement: results by number, and views that do not change once taken. *)

resultOf == [k \in Datasets |-> ResultIn(k, vector[k])]
viewOf == [s \in Scrapers |-> View(s)]

ResultsAreNumbers ==
  /\ \A k \in Datasets : ResultIn(k, vector[k]) = vector[k][2]
  /\ \A s \in Scrapers : \A c \in list[s] : ResultIn(c[1], c[2]) = c[2][2]

LEMMA Numbered == VInv => ResultsAreNumbers
<1> SUFFICES ASSUME VInv
             PROVE  ResultsAreNumbers
  OBVIOUS
<1>1. Published /\ Captured
  BY DEF VInv
<1>2. ASSUME NEW k \in Datasets
      PROVE  ResultIn(k, vector[k]) = vector[k][2]
  <2>1. vector[k][1] = k /\ (vector[k][2] # 0 => rows[vector[k]] = Rows)
    BY <1>1 DEF Published
  <2> QED
    BY <2>1 DEF ResultIn
<1>3. ASSUME NEW s \in Scrapers, NEW c \in list[s]
      PROVE  ResultIn(c[1], c[2]) = c[2][2]
  <2>1. c[2][1] = c[1] /\ c[2][2] # 0 /\ rows[c[2]] = Rows
    BY <1>1 DEF Captured
  <2> QED
    BY <2>1 DEF ResultIn
<1> QED
  BY <1>2, <1>3 DEF ResultsAreNumbers

LEMMA NumberedNext == ASSUME VInv' PROVE ResultsAreNumbers'
BY Numbered, PTL

(* A step that moves no scrape leaves every view as it is. *)
LEMMA ViewsStay ==
  ASSUME VInv, VInv', UNCHANGED <<list, seen>>
  PROVE  viewOf' = viewOf
<1>1. ASSUME NEW s \in Scrapers
      PROVE  View(s)' = View(s)
  <2>1. \A c \in list[s] : ResultIn(c[1], c[2])' = ResultIn(c[1], c[2])
    BY Numbered, NumberedNext DEF ResultsAreNumbers
  <2> QED
    BY <2>1 DEF View
<1> QED
  BY <1>1 DEF viewOf

(* Nor does one that publishes nothing change a result. *)
LEMMA ResultsStay ==
  ASSUME VInv, VInv', UNCHANGED vector
  PROVE  resultOf' = resultOf
<1>1. \A k \in Datasets : ResultIn(k, vector[k])' = ResultIn(k, vector[k])
  BY Numbered, NumberedNext DEF ResultsAreNumbers
<1> QED
  BY <1>1 DEF resultOf

LEMMA PublishImplements ==
  ASSUME VInv, VInv', NEW m \in Modules, stage[m] = "fetch",
         vector' = [vector EXCEPT ![Dataset(m)] = VectorOf(m)],
         time' = [time EXCEPT ![Dataset(m)] = now],
         UNCHANGED <<now, list, seen>>
  PROVE  Cache!Publish(Dataset(m))
<1> DEFINE d == Dataset(m)
<1>0. TypeOK /\ FetchesAhead
  BY DEF VInv, Counts
<1>1. /\ d \in Datasets /\ VectorOf(m) = <<d, runs[d]>>
      /\ runs[d] \in 0..MaxRuns /\ vector[d][2] \in 0..MaxRuns
      /\ vector[d][2] < runs[d]
  BY <1>0, WritingTo, VectorNumbers DEF FetchesAhead
<1>2. \A k \in Datasets : vector'[k] = IF k = d THEN <<d, runs[d]>> ELSE vector[k]
  BY <1>0, <1>1 DEF TypeOK
<1>3. \A k \in Datasets : resultOf'[k] = IF k = d THEN runs[d] ELSE resultOf[k]
  BY <1>1, <1>2, Numbered, NumberedNext DEF resultOf, ResultsAreNumbers
<1>4. resultOf' = [resultOf EXCEPT ![d] = runs[d]]
  BY <1>1, <1>3 DEF resultOf
<1>5. runs[d] \in 1..MaxRuns /\ runs[d] > resultOf[d]
  BY <1>1, Numbered, BoundsAssumption DEF resultOf, ResultsAreNumbers
<1>6. viewOf' = viewOf
  BY ViewsStay
<1> QED
  BY <1>1, <1>4, <1>5, <1>6 DEF Cache!Publish, resultOf, viewOf

LEMMA StepImplements ==
  ASSUME VInv, VInv', [Next]_vars
  PROVE  [Cache!CacheNext]_(Cache!cacheVars)
<1>0. TypeOK /\ Published /\ Captured
  BY DEF VInv, Counts
<1>1. ASSUME UNCHANGED <<now, vector, time, list, seen>>
      PROVE  UNCHANGED Cache!cacheVars
  BY <1>1, ViewsStay, ResultsStay DEF Cache!cacheVars, resultOf, viewOf
<1>2. CASE Tick
  <2>1. now' = now + 1 /\ UNCHANGED <<vector, time, list, seen>>
    BY <1>2 DEF Tick, snapVars, scrapeVars
  <2>2. Cache!Pass
    BY <2>1, ViewsStay, ResultsStay DEF Cache!Pass, resultOf, viewOf
  <2> QED
    BY <2>2 DEF Cache!CacheNext
<1>3. ASSUME NEW m \in Modules, SubSucceeds(m) \/ (Plain(m) /\ RunSucceeds(m))
      PROVE  Cache!CacheNext
  <2>1. Dataset(m) \in Datasets /\ (Plain(m) => Dataset(m) = m)
    BY <1>0, Membership DEF Dataset, TypeOK
  <2>2. Cache!Publish(Dataset(m))
    BY <1>3, <2>1, PublishImplements DEF SubSucceeds, RunSucceeds, scrapeVars
  <2> QED
    BY <2>1, <2>2 DEF Cache!CacheNext
<1>4. ASSUME NEW s \in Scrapers, Capture(s)
      PROVE  Cache!CacheNext
  <2>1. /\ scrape[s] = "idle"
        /\ list' = [list EXCEPT ![s] = {<<k, vector[k]>> : k \in Served(now)}]
        /\ UNCHANGED <<now, vector, time, rows, seen>>
    BY <1>4 DEF Capture, runVars, snapVars
  <2>2. list[s] = {} /\ seen[s] = {} /\ View(s) = {}
    BY <1>0, <2>1 DEF Captured, View
  <2>3. Served(now) = {d \in Datasets : resultOf[d] # 0 /\ now - time[d] <= MaxStale}
    BY <1>0, Numbered DEF Served, Published, resultOf, ResultsAreNumbers
  <2>4. \A n \in Scrapers : View(n)' =
          IF n = s THEN {<<k, resultOf[k]>> : k \in Served(now)} ELSE View(n)
    <3> SUFFICES ASSUME NEW n \in Scrapers
                 PROVE  View(n)' =
                   IF n = s THEN {<<k, resultOf[k]>> : k \in Served(now)} ELSE View(n)
      OBVIOUS
    <3>1. View(n)' = seen[n] \cup {<<c[1], ResultIn(c[1], c[2])>> : c \in list'[n]}
      BY <2>1 DEF View, ResultIn
    <3>2. CASE n = s
      <4>1. list'[n] = {<<k, vector[k]>> : k \in Served(now)}
        BY <1>0, <2>1, <3>2 DEF TypeOK
      <4>2. \A k \in Served(now) : resultOf[k] = ResultIn(k, vector[k])
        BY DEF Served, resultOf
      <4>3. \A c : c \in list'[n] <=> \E k \in Served(now) : c = <<k, vector[k]>>
        BY <4>1
      <4>4. \A e : e \in View(n)' <=>
              \E c \in list'[n] : e = <<c[1], ResultIn(c[1], c[2])>>
        BY <2>2, <3>1, <3>2
      <4>5. \A k \in Served(now) : \A c : c = <<k, vector[k]>> =>
              <<c[1], ResultIn(c[1], c[2])>> = <<k, resultOf[k]>>
        BY <4>2
      <4>6. ASSUME NEW k \in Served(now)
            PROVE  <<k, resultOf[k]>> \in View(n)'
        <5>1. PICK c \in list'[n] : c = <<k, vector[k]>>
          BY <4>3
        <5> QED
          BY <4>4, <4>5, <5>1
      <4>7. ASSUME NEW e \in View(n)'
            PROVE  \E k \in Served(now) : e = <<k, resultOf[k]>>
        <5>1. PICK c \in list'[n] : e = <<c[1], ResultIn(c[1], c[2])>>
          BY <4>4
        <5>2. PICK k \in Served(now) : c = <<k, vector[k]>>
          BY <4>3, <5>1
        <5> QED
          BY <4>5, <5>1, <5>2
      <4> QED
        BY <3>2, <4>6, <4>7
    <3>3. CASE n # s
      BY <1>0, <2>1, <3>1, <3>3 DEF TypeOK, View
    <3> QED
      BY <3>2, <3>3
  <2>5. viewOf' = [viewOf EXCEPT ![s] = {<<k, resultOf[k]>> :
          k \in {d \in Datasets : resultOf[d] # 0 /\ now - time[d] <= MaxStale}}]
    BY <2>3, <2>4 DEF viewOf
  <2>6. resultOf' = resultOf
    BY <2>1, ResultsStay
  <2>7. Cache!Scrape(s)
    BY <2>1, <2>2, <2>5, <2>6 DEF Cache!Scrape, viewOf, resultOf
  <2> QED
    BY <2>7 DEF Cache!CacheNext
<1>5. ASSUME NEW s \in Scrapers, ReadVector(s)
      PROVE  UNCHANGED Cache!cacheVars
  <2>1. PICK c \in list[s] :
          /\ seen' = [seen EXCEPT ![s] = @ \cup {<<c[1], ResultIn(c[1], c[2])>>}]
          /\ list' = [list EXCEPT ![s] = @ \ {c}]
    BY <1>5 DEF ReadVector
  <2>2. UNCHANGED <<now, rows, vector, time>>
    BY <1>5 DEF ReadVector, runVars, snapVars
  <2>3. ASSUME NEW n \in Scrapers
        PROVE  View(n)' = View(n)
    <3>1. View(n)' = seen'[n] \cup {<<e[1], ResultIn(e[1], e[2])>> : e \in list'[n]}
      BY <2>2 DEF View, ResultIn
    <3>2. CASE n = s
      <4>1. /\ seen'[n] = seen[n] \cup {<<c[1], ResultIn(c[1], c[2])>>}
            /\ list'[n] = list[n] \ {c} /\ c \in list[n]
        BY <1>0, <2>1, <3>2 DEF TypeOK
      <4> QED
        BY <3>1, <4>1 DEF View
    <3>3. CASE n # s
      BY <1>0, <2>1, <3>1, <3>3 DEF TypeOK, View
    <3> QED
      BY <3>2, <3>3
  <2>4. viewOf' = viewOf
    BY <2>3 DEF viewOf
  <2> QED
    BY <2>2, <2>4, ResultsStay DEF Cache!cacheVars, resultOf, viewOf
<1>6. ASSUME NEW m \in Modules,
             \/ BeginRun(m) \/ WriteRow(m) \/ SubFails(m) \/ RunFails(m)
             \/ CloseCycle(m) \/ (~Plain(m) /\ RunSucceeds(m))
      PROVE  UNCHANGED Cache!cacheVars
  BY <1>1, <1>6
  DEF BeginRun, WriteRow, SubFails, RunFails, CloseCycle, RunSucceeds, snapVars, scrapeVars
<1>7. ASSUME \/ UNCHANGED vars
             \/ \E s \in Scrapers, m \in Modules : ReadStatus(s, m)
             \/ \E p \in Probes : Ask(p) \/ Tell(p)
      PROVE  UNCHANGED Cache!cacheVars
  BY <1>1, <1>7 DEF ReadStatus, Ask, Tell, vars, snapVars, scrapeVars
<1> QED
  BY <1>2, <1>3, <1>4, <1>5, <1>6, <1>7 DEF Next

(* Scrapes read vectors by reference, after unlocking, while runs write    *)
(* and publish; still every scrape shows complete results looked up at one *)
(* moment and no older than MaxStale.                                      *)
THEOREM ScrapesImplementCache == Spec => ScrapesAreAtomic
<1>1. Init => Cache!CacheInit
  <2> SUFFICES ASSUME Init
               PROVE  Cache!CacheInit
    OBVIOUS
  <2>1. \A k \in Datasets : ResultIn(k, vector[k]) = 0
    BY DEF Init, ResultIn
  <2>2. \A s \in Scrapers : View(s) = {}
    BY DEF Init, View
  <2> QED
    BY <2>1, <2>2 DEF Init, Cache!CacheInit, Never
<1>2. VInv /\ [Next]_vars => VInv'
  BY VInvStep
<1>3. VInv /\ VInv' /\ [Next]_vars => [Cache!CacheNext]_(Cache!cacheVars)
  BY StepImplements
<1> QED
  BY <1>1, <1>2, <1>3, VInvInit, PTL DEF Spec, ScrapesAreAtomic, Cache!CacheSpec

-----------------------------------------------------------------------------
(* Freshness: the parts a run has fetched without an error are no older    *)
(* than the run, and so are those of the run behind the module snapshot.   *)
PastTimes == \A k \in Datasets : time[k] <= now

RunTimely ==
  \A m \in Modules : stage[m] \in {"fetch", "finish"} =>
    /\ begun[m] <= now
    /\ \A i \in 1..Count(m) :
         ~hurt[m] /\ (i < part[m] \/ stage[m] = "finish") => time[Part(m, i)] >= begun[m]

SnapshotTimely ==
  \A m \in Modules : pub[m] # Never =>
    \A i \in 1..Count(m) : time[Part(m, i)] >= since[m]

Timely == Counts /\ PastTimes /\ RunTimely /\ SnapshotTimely

(* Times only move forward. *)
LEMMA TimesGrow ==
  ASSUME TypeOK, TypeOK', PastTimes, [Next]_vars
  PROVE  /\ now' >= now
         /\ \A k \in Datasets : time'[k] >= time[k] /\ time'[k] <= now'
<1>0. now \in Nat /\ \A k \in Datasets : time[k] \in Nat /\ time[k] <= now
  BY DEF TypeOK, PastTimes
<1>1. ASSUME UNCHANGED time, now' >= now
      PROVE  \A k \in Datasets : time'[k] >= time[k] /\ time'[k] <= now'
  BY <1>0, <1>1 DEF TypeOK
<1>2. CASE Tick
  BY <1>0, <1>1, <1>2 DEF Tick, snapVars
<1>3. ASSUME NEW d \in Datasets, time' = [time EXCEPT ![d] = now], now' = now
      PROVE  \A k \in Datasets : time'[k] >= time[k] /\ time'[k] <= now'
  BY <1>0, <1>3 DEF TypeOK
<1>4. ASSUME NEW m \in Modules, SubSucceeds(m) \/ (Plain(m) /\ RunSucceeds(m))
      PROVE  /\ now' >= now
             /\ \A k \in Datasets : time'[k] >= time[k] /\ time'[k] <= now'
  <2>1. Dataset(m) \in Datasets /\ (Plain(m) => Dataset(m) = m)
    BY Membership DEF Dataset, TypeOK
  <2> QED
    BY <1>0, <1>3, <1>4, <2>1 DEF SubSucceeds, RunSucceeds
<1>5. ASSUME UNCHANGED <<now, time>>
      PROVE  /\ now' >= now
             /\ \A k \in Datasets : time'[k] >= time[k] /\ time'[k] <= now'
  BY <1>0, <1>1, <1>5
<1> QED
  BY <1>0, <1>2, <1>4, <1>5
  DEF Next, BeginRun, WriteRow, SubFails, RunFails, CloseCycle, RunSucceeds, Capture,
      ReadStatus, ReadVector, Ask, Tell, vars, snapVars, Tick

LEMMA TimelyStep == ASSUME Timely, [Next]_vars PROVE Timely'
<1>0. Counts /\ Counts' /\ TypeOK /\ TypeOK' /\ PartShape /\ PastTimes /\ RunTimely
      /\ SnapshotTimely
  BY CountsStep DEF Timely, Counts
<1>1. /\ PastTimes' /\ now \in Nat /\ now' \in Nat /\ now' >= now
      /\ \A k \in Datasets : /\ time[k] \in Nat /\ time'[k] \in Nat
                              /\ time'[k] >= time[k]
  BY <1>0, TimesGrow DEF PastTimes, TypeOK
<1>2. \A m \in Modules : /\ begun[m] \in Nat /\ since[m] \in Nat /\ part[m] \in 1..Count(m)
                         /\ Count(m) \in Nat
                         /\ \A i \in 1..Count(m) : Part(m, i) \in Datasets
  BY <1>0, Membership DEF TypeOK
<1>3. ASSUME NEW n \in Modules, stage'[n] = stage[n], begun'[n] = begun[n],
             hurt'[n] = hurt[n], part'[n] = part[n], stage[n] \in {"fetch", "finish"}
      PROVE  /\ begun'[n] <= now'
             /\ \A i \in 1..Count(n) :
                  ~hurt'[n] /\ (i < part'[n] \/ stage'[n] = "finish")
                    => time'[Part(n, i)] >= begun'[n]
  BY <1>0, <1>1, <1>2, <1>3 DEF RunTimely
<1>4. ASSUME NEW n \in Modules, pub'[n] = pub[n], since'[n] = since[n], pub[n] # Never
      PROVE  \A i \in 1..Count(n) : time'[Part(n, i)] >= since'[n]
  BY <1>0, <1>1, <1>2, <1>4 DEF SnapshotTimely
<1>5. ASSUME UNCHANGED <<pub, since>>
      PROVE  SnapshotTimely'
  BY <1>4, <1>5 DEF SnapshotTimely
<1>6. ASSUME UNCHANGED <<stage, part, begun, hurt>>
      PROVE  RunTimely'
  BY <1>3, <1>6 DEF RunTimely
<1>7. ASSUME NEW m \in Modules, BeginRun(m)
      PROVE  RunTimely' /\ SnapshotTimely'
  <2>1. /\ stage' = [stage EXCEPT ![m] = "fetch"] /\ begun' = [begun EXCEPT ![m] = now]
        /\ part' = part /\ hurt' = hurt /\ part[m] = 1 /\ UNCHANGED <<pub, since>>
    BY <1>0, <1>7 DEF BeginRun, snapVars, PartShape
  <2>2. ASSUME NEW n \in Modules, stage'[n] \in {"fetch", "finish"}
        PROVE  /\ begun'[n] <= now'
               /\ \A i \in 1..Count(n) :
                    ~hurt'[n] /\ (i < part'[n] \/ stage'[n] = "finish")
                      => time'[Part(n, i)] >= begun'[n]
    <3>1. CASE n = m
      <4>1. begun'[m] = now /\ stage'[m] = "fetch" /\ part'[m] = 1
        BY <1>0, <2>1 DEF TypeOK
      <4> QED
        BY <1>1, <1>2, <3>1, <4>1
    <3>2. CASE n # m
      <4>1. /\ stage'[n] = stage[n] /\ begun'[n] = begun[n]
            /\ hurt'[n] = hurt[n] /\ part'[n] = part[n]
        BY <1>0, <2>1, <3>2 DEF TypeOK
      <4> QED
        BY <1>3, <2>2, <4>1
    <3> QED
      BY <3>1, <3>2
  <2> QED
    BY <1>5, <2>1, <2>2 DEF RunTimely
<1>8. ASSUME NEW m \in Modules, SubSucceeds(m) \/ SubFails(m)
      PROVE  RunTimely' /\ SnapshotTimely'
  <2>1. /\ stage[m] = "fetch" /\ NextPart(m) /\ begun' = begun /\ now' = now
        /\ UNCHANGED <<pub, since>>
    BY <1>8 DEF SubSucceeds, SubFails, snapVars
  <2>2. /\ hurt' = hurt \/ hurt' = [hurt EXCEPT ![m] = TRUE]
        /\ ~hurt'[m] => time'[Dataset(m)] = now /\ ~hurt[m]
    <3>1. CASE SubSucceeds(m)
      BY <1>0, <3>1, WritingTo DEF SubSucceeds, TypeOK
    <3>2. CASE SubFails(m)
      BY <1>0, <3>2 DEF SubFails, TypeOK
    <3> QED
      BY <1>8, <3>1, <3>2
  <2>3. ASSUME NEW n \in Modules, stage'[n] \in {"fetch", "finish"}
        PROVE  /\ begun'[n] <= now'
               /\ \A i \in 1..Count(n) :
                    ~hurt'[n] /\ (i < part'[n] \/ stage'[n] = "finish")
                      => time'[Part(n, i)] >= begun'[n]
    <3>1. CASE n = m
      <4>1. begun[m] <= now
        BY <1>0, <2>1 DEF RunTimely
      <4>2. ASSUME NEW i \in 1..Count(m), ~hurt'[m], i < part'[m] \/ stage'[m] = "finish"
            PROVE  time'[Part(m, i)] >= begun[m]
        <5>1. i <= part[m]
          BY <1>0, <1>2, <2>1, <4>2 DEF NextPart, TypeOK
        <5>2. CASE i = part[m]
          BY <2>2, <4>1, <4>2, <5>2, <1>1, <1>2 DEF Dataset
        <5>3. CASE i < part[m]
          <6>1. time[Part(m, i)] >= begun[m]
            BY <1>0, <2>1, <2>2, <4>2, <5>3 DEF RunTimely
          <6> QED
            BY <1>1, <1>2, <6>1
        <5> QED
          BY <1>2, <5>1, <5>2, <5>3
      <4> QED
        BY <2>1, <3>1, <4>1, <4>2
    <3>2. CASE n # m
      <4>1. /\ stage'[n] = stage[n] /\ part'[n] = part[n] /\ hurt'[n] = hurt[n]
        BY <1>0, <2>1, <2>2, <3>2 DEF NextPart, TypeOK
      <4> QED
        BY <1>3, <2>1, <2>3, <4>1
    <3> QED
      BY <3>1, <3>2
  <2> QED
    BY <1>5, <2>1, <2>3 DEF RunTimely
<1>9. ASSUME NEW m \in Modules, RunSucceeds(m) \/ RunFails(m)
      PROVE  RunTimely' /\ SnapshotTimely'
  <2>1. \E label \in {"idle", "closing"} : Leave(m, label)
    BY <1>9 DEF RunSucceeds, RunFails
  <2>2. RunTimely'
    <3>1. stage'[m] \notin {"fetch", "finish"}
      BY <1>0, <2>1 DEF Leave, TypeOK
    <3>2. \A n \in Modules : n # m =>
            /\ stage'[n] = stage[n] /\ begun'[n] = begun[n]
            /\ hurt'[n] = hurt[n] /\ part'[n] = part[n]
      BY <1>0, <2>1 DEF Leave, TypeOK
    <3> QED
      BY <1>3, <3>1, <3>2 DEF RunTimely
  <2>3. CASE RunSucceeds(m)
    <3>1. /\ pub' = [pub EXCEPT ![m] = now] /\ since' = [since EXCEPT ![m] = begun[m]]
      BY <2>3 DEF RunSucceeds
    <3>2. \A i \in 1..Count(m) : time'[Part(m, i)] >= begun[m]
      <4>1. CASE Plain(m)
        <5>1. /\ stage[m] = "fetch" /\ time' = [time EXCEPT ![m] = now]
              /\ Count(m) = 1 /\ Part(m, 1) = m /\ m \in Datasets
          BY <1>2, <2>3, <4>1, Membership DEF RunSucceeds
        <5>2. begun[m] <= now /\ time'[m] = now
          BY <1>0, <5>1 DEF RunTimely, TypeOK
        <5>3. \A i \in 1..Count(m) : i = 1
          BY <5>1
        <5> QED
          BY <1>1, <1>2, <5>1, <5>2, <5>3
      <4>2. CASE ~Plain(m)
        BY <1>0, <1>1, <1>2, <2>3, <4>2 DEF RunSucceeds, RunTimely
      <4> QED
        BY <4>1, <4>2
    <3>3. since'[m] = begun[m]
      BY <1>0, <3>1 DEF TypeOK
    <3>4. \A n \in Modules : n # m => pub'[n] = pub[n] /\ since'[n] = since[n]
      BY <1>0, <3>1 DEF TypeOK
    <3>5. SnapshotTimely'
      BY <1>4, <3>2, <3>3, <3>4 DEF SnapshotTimely
    <3> QED
      BY <2>2, <3>5
  <2>4. CASE RunFails(m)
    BY <1>5, <2>2, <2>4 DEF RunFails, snapVars
  <2> QED
    BY <1>9, <2>3, <2>4
<1>10. ASSUME NEW m \in Modules, CloseCycle(m)
       PROVE  RunTimely' /\ SnapshotTimely'
  <2>1. /\ stage' = [stage EXCEPT ![m] = "idle"] /\ UNCHANGED <<part, begun, hurt, pub, since>>
    BY <1>10 DEF CloseCycle, snapVars
  <2>2. \A n \in Modules : stage'[n] \in {"fetch", "finish"} => stage'[n] = stage[n]
    BY <1>0, <2>1 DEF TypeOK
  <2>3. RunTimely'
    BY <1>3, <2>1, <2>2 DEF RunTimely
  <2> QED
    BY <1>5, <2>1, <2>3
<1>11. ASSUME UNCHANGED <<stage, part, begun, hurt, pub, since>>
       PROVE  RunTimely' /\ SnapshotTimely'
  BY <1>5, <1>6, <1>11
<1>12. RunTimely' /\ SnapshotTimely'
  BY <1>7, <1>8, <1>9, <1>10, <1>11
  DEF Next, Tick, WriteRow, Capture, ReadStatus, ReadVector, Ask, Tell, vars, runVars, snapVars
<1> QED
  BY <1>0, <1>1, <1>12 DEF Timely

(* A module's freshness stands for data of all its parts that are at least *)
(* as new as the run it was earned by.                                     *)
THEOREM FreshnessEarned == Spec => []PartsAsFreshAsTheirRun
<1>1. Init => Timely
  <2>1. Init => PastTimes /\ RunTimely /\ SnapshotTimely
    BY DEF Init, PastTimes, RunTimely, SnapshotTimely, Never
  <2> QED
    BY <2>1, CountsInit DEF Timely
<1>2. ASSUME Timely
      PROVE  PartsAsFreshAsTheirRun
  <2> SUFFICES ASSUME NEW m \in Modules, pub[m] # Never, NEW k \in PartsOf(m)
               PROVE  time[k] >= since[m] /\ time[k] <= now
    BY DEF PartsAsFreshAsTheirRun
  <2>1. PICK i \in 1..Count(m) : k = Part(m, i)
    BY DEF PartsOf
  <2> QED
    BY <1>2, <2>1, Membership DEF Timely, SnapshotTimely, PastTimes
<1> QED
  BY <1>1, <1>2, TimelyStep, PTL DEF Spec

=============================================================================

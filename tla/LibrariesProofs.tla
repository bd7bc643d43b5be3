-------------------------- MODULE LibrariesProofs --------------------------
(***************************************************************************)
(* Proofs about the library pool, for any number of workers and libraries. *)
(***************************************************************************)
EXTENDS Libraries, TLAPS

USE DEF Indices, Workers

(* Workers run only while Wait waits for them, and the last one leaves     *)
(* only when the channel is drained.                                       *)
Waited ==
  /\ \A w \in Workers : job[w] # 0 => w \in running
  /\ pc # "wait" => running = {}
  /\ pc = "inventory" => next = 1 /\ written = {} /\ errs = {}
  /\ pc = "wait" /\ running = {} => next > count

IInv == TypeOK /\ OnePlaceEach /\ Waited /\ CompleteOrFailed

(* The pool is never larger than the workers there are, nor empty. *)
LEMMA PoolSize ==
  ASSUME count \in Nat, count > 0
  PROVE  /\ 1..Smaller(LibraryDetailWorkers, count) \subseteq Workers
         /\ 1 \in 1..Smaller(LibraryDetailWorkers, count)
  BY PoolAssumption DEF Smaller

LEMMA Initially == Init => IInv
  <1> SUFFICES ASSUME Init PROVE IInv
    OBVIOUS
  <1>0. count \in 0..MaxLibraries
    BY DEF Init
  <1>1. TypeOK
    <2>1. next \in 1..(count + 1) /\ 0 \in 0..count
      BY <1>0, PoolAssumption DEF Init
    <2>2. job \in [Workers -> 0..count] /\ results \in [Indices -> {"none", "details", "error"}]
      BY <2>1 DEF Init
    <2>3. cancelled \in BOOLEAN /\ pc \in {"inventory", "wait", "ok", "failed"}
      BY DEF Init
    <2>4. running \subseteq Workers /\ written \subseteq Indices /\ errs \subseteq Indices
      BY DEF Init
    <2> QED
      BY <1>0, <2>1, <2>2, <2>3, <2>4 DEF TypeOK
  <1>2. OnePlaceEach
    BY <1>1 DEF Init, OnePlaceEach, TypeOK
  <1>3. Waited /\ CompleteOrFailed
    BY DEF Init, Waited, CompleteOrFailed
  <1> QED
    BY <1>1, <1>2, <1>3 DEF IInv

LEMMA Step == IInv /\ [Next]_vars => IInv'
  <1> SUFFICES ASSUME IInv, [Next]_vars PROVE IInv'
    OBVIOUS
  <1> USE DEF IInv
  <1>0. count \in Nat /\ next \in Nat
    BY PoolAssumption DEF TypeOK
  <1>1. ASSUME UNCHANGED vars PROVE IInv'
    <2>1. TypeOK'
      BY <1>1 DEF vars, poolVars, TypeOK
    <2>2. OnePlaceEach'
      BY <1>1 DEF vars, poolVars, OnePlaceEach
    <2>3. Waited' /\ CompleteOrFailed'
      BY <1>1 DEF vars, poolVars, Waited, CompleteOrFailed
    <2> QED
      BY <2>1, <2>2, <2>3
  <1>2. CASE Cancel
    BY <1>2 DEF Cancel, poolVars, TypeOK, OnePlaceEach, Waited, CompleteOrFailed
  <1>3. CASE InventoryFails
    <2>1. running = {} /\ written = {} /\ errs = {} /\ \A i \in Indices : results[i] = "none"
      BY <1>0, <1>3 DEF InventoryFails, Waited, OnePlaceEach
    <2>2. TypeOK' /\ OnePlaceEach' /\ Waited'
      BY <1>3 DEF InventoryFails, poolVars, TypeOK, OnePlaceEach, Waited
    <2>3. CompleteOrFailed'
      BY <1>3, <2>1 DEF InventoryFails, poolVars, CompleteOrFailed
    <2> QED
      BY <2>2, <2>3
  <1>4. CASE InventoryEmpty
    BY <1>4 DEF InventoryEmpty, poolVars, TypeOK, OnePlaceEach, Waited, CompleteOrFailed
  <1>5. CASE InventoryReturns
    <2>1. running = {} /\ \A w \in Workers : job[w] = 0
      BY <1>5 DEF InventoryReturns, Waited, TypeOK
    <2>2. running' \subseteq Workers /\ running' # {}
      BY <1>0, <1>5, PoolSize DEF InventoryReturns
    <2>3. TypeOK'
      BY <1>5, <2>2 DEF InventoryReturns, TypeOK
    <2>4. OnePlaceEach'
      <3>1. next = 1
        BY <1>5 DEF InventoryReturns, Waited
      <3> QED
        BY <1>5, <2>1, <3>1 DEF InventoryReturns, OnePlaceEach, TypeOK
    <2>5. Waited' /\ CompleteOrFailed'
      BY <1>5, <2>1, <2>2 DEF InventoryReturns, Waited, CompleteOrFailed
    <2> QED
      BY <2>3, <2>4, <2>5
  <1>6. ASSUME NEW w \in Workers, Take(w) PROVE IInv'
    <2>1. next \in Indices /\ results[next] = "none" /\ \A v \in Workers : job[v] # next
      BY <1>0, <1>6 DEF Take, TypeOK, OnePlaceEach
    <2>2. pc = "wait" /\ running # {}
      BY <1>6 DEF Take, Waited
    <2>3. TypeOK'
      BY <1>0, <1>6, <2>1 DEF Take, TypeOK
    <2>4. OnePlaceEach'
      <3>1. CASE cancelled
        BY <1>0, <1>6, <2>1, <3>1 DEF Take, TypeOK, OnePlaceEach
      <3>2. CASE ~cancelled
        <4>1. /\ job' = [job EXCEPT ![w] = next] /\ job \in [Workers -> 0..count]
              /\ next' = next + 1 /\ job[w] = 0 /\ w \in running
              /\ UNCHANGED <<count, running, results>>
          BY <1>6, <3>2 DEF Take, TypeOK
        <4> SUFFICES ASSUME NEW i \in Indices
                     PROVE  /\ i >= next + 1 => results[i] = "none" /\ \A v \in Workers : job'[v] # i
                            /\ i < next + 1 => ((results[i] = "none") <=> (\E v \in running : job'[v] = i))
                            /\ \A u, v \in Workers : job'[u] = i /\ job'[v] = i => u = v
          BY <4>1 DEF OnePlaceEach
        <4>2. CASE i = next
          BY <1>0, <2>1, <4>1, <4>2 DEF TypeOK
        <4>3. CASE i # next
          <5>1. \A v \in Workers : job'[v] = i <=> job[v] = i
            BY <4>1, <4>3
          <5> QED
            BY <1>0, <4>3, <5>1 DEF OnePlaceEach, TypeOK
        <4> QED
          BY <4>2, <4>3
      <3> QED
        BY <3>1, <3>2
    <2>5. Waited' /\ CompleteOrFailed'
      BY <1>6, <2>2 DEF Take, Waited, CompleteOrFailed, TypeOK
    <2> QED
      BY <2>3, <2>4, <2>5
  <1>7. ASSUME NEW w \in Workers, Fetched(w) PROVE IInv'
    <2>1. job[w] \in Indices /\ job[w] < next
      BY <1>0, <1>7 DEF Fetched, TypeOK, OnePlaceEach
    <2>2. pc = "wait" /\ running # {}
      BY <1>7 DEF Fetched, Waited
    <2>3. TypeOK'
      BY <1>0, <1>7, <2>1 DEF Fetched, TypeOK
    <2>4. OnePlaceEach'
      BY <1>0, <1>7, <2>1 DEF Fetched, TypeOK, OnePlaceEach
    <2>5. Waited' /\ CompleteOrFailed'
      BY <1>7, <2>2 DEF Fetched, Waited, CompleteOrFailed, TypeOK
    <2> QED
      BY <2>3, <2>4, <2>5
  <1>8. ASSUME NEW w \in Workers, Done(w) PROVE IInv'
    <2>1. pc = "wait" /\ next > count
      BY <1>8 DEF Done, Waited
    <2>2. TypeOK' /\ OnePlaceEach'
      BY <1>0, <1>8 DEF Done, TypeOK, OnePlaceEach
    <2>3. Waited' /\ CompleteOrFailed'
      BY <1>8, <2>1 DEF Done, Waited, CompleteOrFailed, TypeOK
    <2> QED
      BY <2>2, <2>3
  <1>9. CASE Collect
    <2>1. running = {} /\ next > count
      BY <1>9 DEF Collect, Waited
    <2>2. \A i \in Indices : results[i] \in {"details", "error"}
      BY <1>0, <2>1 DEF TypeOK, OnePlaceEach
    <2>3. TypeOK' /\ OnePlaceEach' /\ Waited'
      BY <1>9, <2>1 DEF Collect, poolVars, TypeOK, OnePlaceEach, Waited
    <2>4. /\ written' = {i \in Indices : results[i] = "details"}
          /\ errs' = {i \in Indices : results[i] = "error"}
      BY <1>9, <2>2 DEF Collect
    <2> QED
      BY <1>9, <2>1, <2>2, <2>3, <2>4 DEF Collect, poolVars, CompleteOrFailed
  <1> QED
    BY <1>1, <1>2, <1>3, <1>4, <1>5, <1>6, <1>7, <1>8, <1>9 DEF Next, Ended

LEMMA Inductive == Spec => []IInv
  BY Initially, Step, PTL DEF Spec

(* Every reachable state of the pool is well typed.                        *)
THEOREM TypeCorrect == Spec => []TypeOK
  <1>1. IInv => TypeOK
    BY DEF IInv
  <1> QED
    BY <1>1, Inductive, PTL

(* Each library is in the channel, with one worker, or settled.            *)
THEOREM EachLibraryOnce == Spec => []OnePlaceEach
  <1>1. IInv => OnePlaceEach
    BY DEF IInv
  <1> QED
    BY <1>1, Inductive, PTL

(* A success is complete, and a failure names what is missing.             *)
THEOREM NothingMissed == Spec => []CompleteOrFailed
  <1>1. IInv => CompleteOrFailed
    BY DEF IInv
  <1> QED
    BY <1>1, Inductive, PTL

=============================================================================

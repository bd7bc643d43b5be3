----------------------------- MODULE Libraries -----------------------------
(***************************************************************************)
(* collectLibraries of internal/collector/modules.go: the details of each  *)
(* library of the inventory are fetched by a pool of workers that take     *)
(* indices from a closed channel.                                          *)
(*                                                                         *)
(* A library is its index in the inventory.  What the server answers, and  *)
(* the labels made of it, are left out: the function writes metrics for a  *)
(* library or it does not.  The error of a detail request may have any     *)
(* cause.                                                                  *)
(***************************************************************************)
EXTENDS Naturals

CONSTANTS
  LibraryDetailWorkers,  \* libraryDetailWorkers
  MaxLibraries           \* bound: libraries of the server

ASSUME PoolAssumption ==
  LibraryDetailWorkers \in Nat \ {0} /\ MaxLibraries \in Nat

Smaller(a, b) == IF a < b THEN a ELSE b

VARIABLES
  count,      \* the server's libraries are 1..count
  cancelled,  \* the context of the run is done
  pc,         \* collectLibraries: "inventory", "wait", "ok" or "failed"
  next,       \* the channel holds the indices next..count
  running,    \* workers that have not called workers.Done
  job,        \* the index a worker fetches the details of, or 0
  results,    \* per index: "none", "details" or "error"
  written,    \* libraries whose metrics were written
  errs        \* libraries named in the joined error

poolVars == <<next, running, job, results>>
vars == <<count, cancelled, pc, poolVars, written, errs>>

Workers == 1..LibraryDetailWorkers
Indices == 1..count

-----------------------------------------------------------------------------
Init ==
  /\ count \in 0..MaxLibraries
  /\ cancelled = FALSE
  /\ pc = "inventory"
  /\ next = 1
  /\ running = {}
  /\ job = [w \in Workers |-> 0]
  /\ results = [i \in Indices |-> "none"]
  /\ written = {}
  /\ errs = {}

(* The deadline of the run passes, or the scheduler stops. *)
Cancel ==
  /\ ~cancelled
  /\ cancelled' = TRUE
  /\ UNCHANGED <<count, pc, poolVars, written, errs>>

(* GetLibraries failed. *)
InventoryFails ==
  /\ pc = "inventory"
  /\ pc' = "failed"
  /\ UNCHANGED <<count, cancelled, poolVars, written, errs>>

(* An empty inventory is a success without metrics. *)
InventoryEmpty ==
  /\ pc = "inventory" /\ count = 0
  /\ pc' = "ok"
  /\ UNCHANGED <<count, cancelled, poolVars, written, errs>>

(* GetLibraries returned the inventory: all indices are in the channel,    *)
(* the channel is closed, and the workers start.                           *)
InventoryReturns ==
  /\ pc = "inventory" /\ count > 0
  /\ pc' = "wait"
  /\ running' = 1..Smaller(LibraryDetailWorkers, count)
  /\ UNCHANGED <<count, cancelled, next, job, results, written, errs>>

(* A worker receives the next index and calls GetLibraryDetails, which     *)
(* returns at once when the context is done.                               *)
TakePeeking(w) ==   \* mutant: two workers receive the same index
  /\ w \in running /\ job[w] = 0 /\ next <= count
  /\ IF cancelled
     THEN results' = [results EXCEPT ![next] = "error"] /\ next' = next + 1 /\ UNCHANGED job
     ELSE job' = [job EXCEPT ![w] = next] /\ UNCHANGED <<results, next>>
  /\ UNCHANGED <<count, cancelled, pc, running, written, errs>>

TakePastEnd(w) ==   \* mutant: the channel is not drained by its end
  /\ w \in running /\ job[w] = 0
  /\ next' = next + 1
  /\ job' = [job EXCEPT ![w] = next]
  /\ UNCHANGED <<count, cancelled, pc, running, results, written, errs>>

Take(w) ==
  /\ w \in running /\ job[w] = 0 /\ next <= count
  /\ next' = next + 1
  /\ IF cancelled
     THEN results' = [results EXCEPT ![next] = "error"] /\ UNCHANGED job
     ELSE job' = [job EXCEPT ![w] = next] /\ UNCHANGED results
  /\ UNCHANGED <<count, cancelled, pc, running, written, errs>>

(* GetLibraryDetails returns; the context may be done by now. *)
Fetched(w) ==
  /\ w \in running /\ job[w] # 0
  /\ \E r \in {"details", "error"} : results' = [results EXCEPT ![job[w]] = r]
  /\ job' = [job EXCEPT ![w] = 0]
  /\ UNCHANGED <<count, cancelled, pc, next, running, written, errs>>

(* The channel is closed and drained: the worker is Done. *)
DoneWhenCancelled(w) ==   \* mutant: the channel is not closed
  /\ w \in running /\ job[w] = 0 /\ next > count
  /\ cancelled
  /\ running' = running \ {w}
  /\ UNCHANGED <<count, cancelled, pc, next, job, results, written, errs>>

Done(w) ==
  /\ w \in running /\ job[w] = 0 /\ next > count
  /\ running' = running \ {w}
  /\ UNCHANGED <<count, cancelled, pc, next, job, results, written, errs>>

(* Wait returned: metrics are written for the libraries with details, the  *)
(* errors of the others are joined.                                        *)
CollectEarly ==   \* mutant: Wait counts one worker only
  /\ pc = "wait" /\ 1 \notin running
  /\ written' = {i \in Indices : results[i] # "error"}
  /\ errs' = Indices \ written'
  /\ pc' = IF errs' = {} THEN "ok" ELSE "failed"
  /\ UNCHANGED <<count, cancelled, poolVars>>

Collect ==
  /\ pc = "wait" /\ running = {}
  /\ written' = {i \in Indices : results[i] # "error"}
  /\ errs' = Indices \ written'
  /\ pc' = IF errs' = {} THEN "ok" ELSE "failed"
  /\ UNCHANGED <<count, cancelled, poolVars>>

Ended ==
  /\ pc \in {"ok", "failed"}
  /\ UNCHANGED vars

Next ==
  \/ Cancel \/ InventoryFails \/ InventoryEmpty \/ InventoryReturns
  \/ \E w \in Workers : Take(w) \/ Fetched(w) \/ Done(w)
  \/ Collect \/ Ended

Spec == Init /\ [][Next]_vars

(* Requests end by the timeout of the HTTP client at the latest, and the   *)
(* Go scheduler runs every goroutine; nobody has to cancel.                *)
FairSpec ==
  /\ Spec
  /\ WF_vars(InventoryFails \/ InventoryEmpty \/ InventoryReturns)
  /\ \A w \in Workers : WF_vars(Take(w) \/ Fetched(w) \/ Done(w))
  /\ WF_vars(Collect)

-----------------------------------------------------------------------------
(* Properties *)

TypeOK ==
  /\ count \in 0..MaxLibraries
  /\ cancelled \in BOOLEAN
  /\ pc \in {"inventory", "wait", "ok", "failed"}
  /\ next \in 1..(count + 1)
  /\ running \subseteq Workers
  /\ job \in [Workers -> 0..count]
  /\ results \in [Indices -> {"none", "details", "error"}]
  /\ written \subseteq Indices
  /\ errs \subseteq Indices

(* Each library is in exactly one place: in the channel, with one worker,  *)
(* or settled; so no result is fetched twice or written by two workers.    *)
OnePlaceEach ==
  \A i \in Indices :
    /\ i >= next => results[i] = "none" /\ \A w \in Workers : job[w] # i
    /\ i < next =>
         (results[i] = "none") <=> (\E w \in running : job[w] = i)
    /\ \A v, w \in Workers : job[v] = i /\ job[w] = i => v = w

(* Results are read when no worker is left that could still write one: a   *)
(* success has metrics for every library of the inventory, and a failure   *)
(* names exactly the libraries whose details failed.                       *)
CompleteOrFailed ==
  /\ pc = "ok" => written = Indices /\ \A i \in Indices : results[i] = "details"
  /\ pc = "failed" =>
       /\ running = {}
       /\ errs = {i \in Indices : results[i] = "error"}
       /\ written = {i \in Indices : results[i] = "details"}

(* collectLibraries returns. *)
CollectReturns == <>(pc \in {"ok", "failed"})

=============================================================================

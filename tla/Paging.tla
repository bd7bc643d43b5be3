------------------------------- MODULE Paging -------------------------------
(***************************************************************************)
(* One inventory read page by page: the loops of GetVMs and GetJobs in     *)
(* internal/commvault/client.go, while the inventory changes between the   *)
(* pages.                                                                  *)
(*                                                                         *)
(* The server is external: it lists its records in a stable order, answers *)
(* a request with the records from an offset on, PageSize of them unless   *)
(* it has fewer, and with their total number if it reports totals.  GetVMs *)
(* names a page and GetJobs an offset; both are the offset here.  Records  *)
(* are numbered in the order in which they come up.                        *)
(***************************************************************************)
EXTENDS Integers, Sequences, SequencesExt, Functions

CONSTANTS
  PageSize,    \* c.pageSize
  MaxRecords   \* bound: records that ever come up

ASSUME PageSizeAssumption == PageSize \in Nat \ {0} /\ MaxRecords \in Nat

VARIABLES
  inventory,  \* server: its records, in its order
  issued,     \* server: the records so far are 1..issued
  totals,     \* server: it reports the total number of records
  lasting,    \* records in the inventory since the call began
  pulled,     \* a record was removed from the part already read
  pushed,     \* a record was inserted into the part already read
  pc,         \* the call: "reading", "ok" or "failed"
  offset,     \* page * c.pageSize
  all         \* the records read

serverVars == <<inventory, issued, totals>>
historyVars == <<lasting, pulled, pushed>>
vars == <<serverVars, historyVars, pc, offset, all>>

Least(a, b) == IF a < b THEN a ELSE b

(* The answer to a request, and the total that comes with it. *)
Page == SubSeq(inventory, offset + 1, Least(offset + PageSize, Len(inventory)))
Total == IF totals THEN Len(inventory) ELSE 0

(* After this page the records are taken to be all there are. *)
LastPageEarly(page, records) ==   \* mutant: off by one
  Total <= 0 \/ Len(records) + 1 >= Total \/ Len(page) < PageSize
LastPage(page, records) ==
  Total <= 0 \/ Len(records) >= Total \/ Len(page) < PageSize

-----------------------------------------------------------------------------
Init ==
  /\ \E n \in 0..MaxRecords :
       inventory = [i \in 1..n |-> i] /\ issued = n /\ lasting = 1..n
  /\ totals \in BOOLEAN
  /\ pulled = FALSE /\ pushed = FALSE
  /\ pc = "reading"
  /\ offset = 0
  /\ all = <<>>

(* External: a new record appears anywhere in the order. *)
InsertRecord(i) ==
  /\ issued < MaxRecords
  /\ i \in 1..(Len(inventory) + 1)
  /\ issued' = issued + 1
  /\ inventory' = InsertAt(inventory, i, issued + 1)
  /\ pushed' = (pushed \/ i <= offset)
  /\ UNCHANGED <<totals, lasting, pulled, pc, offset, all>>

(* External: a record is removed. *)
RemoveRecord(i) ==
  /\ i \in 1..Len(inventory)
  /\ inventory' = RemoveAt(inventory, i)
  /\ lasting' = lasting \ {inventory[i]}
  /\ pulled' = (pulled \/ i <= offset)
  /\ UNCHANGED <<issued, totals, pushed, pc, offset, all>>

(* One turn of the loop. *)
ReadPageAgain ==   \* mutant: the offset counts pages
  /\ pc = "reading"
  /\ all' = all \o Page
  /\ IF LastPage(Page, all') THEN pc' = "ok" /\ UNCHANGED offset
     ELSE offset' = offset + 1 /\ UNCHANGED pc
  /\ UNCHANGED <<serverVars, historyVars>>

ReadPage ==
  /\ pc = "reading"
  /\ all' = all \o Page
  /\ IF LastPage(Page, all') THEN pc' = "ok" /\ UNCHANGED offset
     ELSE offset' = offset + PageSize /\ UNCHANGED pc
  /\ UNCHANGED <<serverVars, historyVars>>

(* do failed, retry included: what was read is dropped. *)
ReadFails ==
  /\ pc = "reading"
  /\ pc' = "failed"
  /\ all' = <<>>
  /\ UNCHANGED <<serverVars, historyVars, offset>>

Ended ==
  /\ pc \in {"ok", "failed"}
  /\ UNCHANGED vars

Next ==
  \/ pc = "reading" /\ \E i \in 1..(MaxRecords + 1) : InsertRecord(i) \/ RemoveRecord(i)
  \/ ReadPage \/ ReadFails \/ Ended

Spec == Init /\ [][Next]_vars

-----------------------------------------------------------------------------
(* Properties *)

(* Every page before the last was full, so offset counts the records read. *)
TypeOK ==
  /\ issued \in 0..MaxRecords
  /\ inventory \in Seq(1..issued) /\ IsInjective(inventory)
  /\ totals \in BOOLEAN /\ pulled \in BOOLEAN /\ pushed \in BOOLEAN
  /\ lasting \subseteq ToSet(inventory)
  /\ pc \in {"reading", "ok", "failed"}
  /\ offset \in Nat
  /\ all \in Seq(1..issued)
  /\ pc = "reading" => offset = Len(all)

(* GetVMs and GetJobs return every record that was there from beginning to *)
(* end, unless the server reports no total or a record already read was    *)
(* removed meanwhile: insertions, and removals behind the part read, cost  *)
(* nothing.                                                                *)
CompleteUnlessPulled ==
  pc = "ok" /\ totals /\ ~pulled => lasting \subseteq ToSet(all)

(* They return no record twice unless one was inserted among those read.   *)
NoneTwiceUnlessPushed == ~pushed => IsInjective(all)

=============================================================================

---------------------------- MODULE PagingProofs ----------------------------
(***************************************************************************)
(* Proofs about the page loops, for any page size and any number of        *)
(* records and changes.                                                    *)
(***************************************************************************)
EXTENDS Paging, SequenceTheorems, TLAPS

(* Two sequences of known lengths, joined. *)
LEMMA JoinShape ==
  ASSUME NEW S, NEW s \in Seq(S), NEW t \in Seq(S), NEW m, NEW n,
         Len(s) = m, Len(t) = n
  PROVE  /\ s \o t \in Seq(S)
         /\ Len(s \o t) = m + n
         /\ \A k \in 1..(m + n) : (s \o t)[k] = IF k <= m THEN s[k] ELSE t[k - m]
BY ConcatProperties

(* What a sequence looks like after an insertion and after a removal. *)
LEMMA InsertShape ==
  ASSUME NEW S, NEW s \in Seq(S), NEW i \in 1..(Len(s) + 1), NEW e \in S
  PROVE  /\ InsertAt(s, i, e) \in Seq(S)
         /\ Len(InsertAt(s, i, e)) = Len(s) + 1
         /\ \A j \in 1..(Len(s) + 1) :
              InsertAt(s, i, e)[j] = IF j < i THEN s[j]
                                     ELSE IF j = i THEN e ELSE s[j - 1]
         /\ \A j \in i..Len(s) : InsertAt(s, i, e)[j + 1] = s[j]
<1> DEFINE front == SubSeq(s, 1, i - 1)
           back == SubSeq(s, i, Len(s))
<1>0. Len(s) \in Nat /\ \A k \in 1..Len(s) : s[k] \in S
  BY LenProperties, ElementOfSeq
<1>1. /\ front \in Seq(S) /\ Len(front) = i - 1
      /\ \A k \in 1..(i - 1) : front[k] = s[k]
  BY <1>0, SubSeqProperties
<1>2. /\ back \in Seq(S) /\ Len(back) = Len(s) - i + 1
      /\ \A k \in 1..(Len(s) - i + 1) : back[k] = s[i + k - 1]
  BY <1>0, SubSeqProperties
<1> HIDE DEF front, back
<1> DEFINE mid == <<e>>
<1>3. mid \in Seq(S) /\ Len(mid) = 1 /\ mid[1] = e
  OBVIOUS
<1> HIDE DEF mid
<1> DEFINE head == front \o mid
<1>4. /\ head \in Seq(S) /\ Len(head) = i
      /\ \A k \in 1..i : head[k] = IF k < i THEN s[k] ELSE e
  <2>1. /\ front \o mid \in Seq(S)
        /\ Len(front \o mid) = Len(front) + Len(mid)
        /\ \A k \in 1..(Len(front) + Len(mid)) :
             (front \o mid)[k] = IF k <= Len(front) THEN front[k] ELSE mid[k - Len(front)]
    BY <1>1, <1>3, ConcatProperties
  <2> QED
    BY <1>0, <1>1, <1>3, <2>1
<1> HIDE DEF head
<1>5. /\ head \o back \in Seq(S)
      /\ Len(head \o back) = i + (Len(s) - i + 1)
      /\ \A k \in 1..(i + (Len(s) - i + 1)) :
           (head \o back)[k] = IF k <= i THEN head[k] ELSE back[k - i]
  <2>1. head \in Seq(S) /\ Len(head) = i /\ back \in Seq(S) /\ Len(back) = Len(s) - i + 1
    BY <1>2, <1>4
  <2> QED
    BY ONLY <2>1, JoinShape
<1>6. InsertAt(s, i, e) = head \o back
  BY DEF InsertAt, head, front, mid, back
<1>7. \A j \in 1..(Len(s) + 1) :
        (head \o back)[j] = IF j < i THEN s[j] ELSE IF j = i THEN e ELSE s[j - 1]
  <2> TAKE j \in 1..(Len(s) + 1)
  <2>1. (head \o back)[j] = IF j <= i THEN head[j] ELSE back[j - i]
    BY <1>0, <1>5
  <2>2. CASE j <= i
    BY <1>0, <1>4, <2>1, <2>2
  <2>3. CASE ~(j <= i)
    <3>1. j - i \in 1..(Len(s) - i + 1) /\ i + (j - i) - 1 = j - 1
      BY <1>0, <2>3
    <3>2. back[j - i] = s[i + (j - i) - 1]
      BY <1>2, <3>1
    <3> QED
      BY <1>0, <2>1, <2>3, <3>1, <3>2
  <2> QED
    BY <2>2, <2>3
<1>8. ASSUME NEW j \in i..Len(s) PROVE (head \o back)[j + 1] = s[j]
  <2>1. j + 1 \in 1..(Len(s) + 1) /\ ~(j + 1 < i) /\ j + 1 # i /\ (j + 1) - 1 = j
    BY <1>0
  <2>2. (head \o back)[j + 1] = s[(j + 1) - 1]
    BY <1>7, <2>1
  <2> QED
    BY <2>1, <2>2
<1> QED
  BY <1>0, <1>5, <1>6, <1>7, <1>8

LEMMA RemoveShape ==
  ASSUME NEW S, NEW s \in Seq(S), NEW i \in 1..Len(s)
  PROVE  /\ RemoveAt(s, i) \in Seq(S)
         /\ Len(RemoveAt(s, i)) = Len(s) - 1
         /\ \A j \in 1..(Len(s) - 1) :
              RemoveAt(s, i)[j] = IF j < i THEN s[j] ELSE s[j + 1]
<1> DEFINE front == SubSeq(s, 1, i - 1)
           back == SubSeq(s, i + 1, Len(s))
<1>0. Len(s) \in Nat /\ \A k \in 1..Len(s) : s[k] \in S
  BY LenProperties, ElementOfSeq
<1>1. /\ front \in Seq(S) /\ Len(front) = i - 1
      /\ \A k \in 1..(i - 1) : front[k] = s[k]
  BY <1>0, SubSeqProperties
<1>2. /\ back \in Seq(S) /\ Len(back) = Len(s) - i
      /\ \A k \in 1..(Len(s) - i) : back[k] = s[i + k]
  BY <1>0, SubSeqProperties
<1> HIDE DEF front, back
<1>3. /\ front \o back \in Seq(S)
      /\ Len(front \o back) = (i - 1) + (Len(s) - i)
      /\ \A k \in 1..((i - 1) + (Len(s) - i)) :
           (front \o back)[k] = IF k <= i - 1 THEN front[k] ELSE back[k - (i - 1)]
  BY <1>1, <1>2, JoinShape
<1>4. RemoveAt(s, i) = front \o back
  BY DEF RemoveAt, front, back
<1>5. \A j \in 1..(Len(s) - 1) :
        (front \o back)[j] = IF j < i THEN s[j] ELSE s[j + 1]
  <2> TAKE j \in 1..(Len(s) - 1)
  <2>1. (front \o back)[j] = IF j <= i - 1 THEN front[j] ELSE back[j - (i - 1)]
    <3>1. j \in 1..((i - 1) + (Len(s) - i))
      BY <1>0
    <3> QED
      BY ONLY <1>3, <3>1
  <2>2. CASE j < i
    BY <1>0, <1>1, <2>1, <2>2
  <2>3. CASE ~(j < i)
    <3>1. j - (i - 1) \in 1..(Len(s) - i) /\ i + (j - (i - 1)) = j + 1
      BY <1>0, <2>3
    <3>2. back[j - (i - 1)] = s[i + (j - (i - 1))]
      BY <1>2, <3>1
    <3> QED
      BY <1>0, <2>1, <2>3, <3>1, <3>2
  <2> QED
    BY <2>2, <2>3
<1> QED
  BY <1>0, <1>3, <1>4, <1>5

LEMMA Members ==
  ASSUME NEW S, NEW s \in Seq(S)
  PROVE  \A r : r \in ToSet(s) <=> \E k \in 1..Len(s) : s[k] = r
BY LenProperties DEF ToSet

LEMMA Injective ==
  ASSUME NEW S, NEW s \in Seq(S)
  PROVE  IsInjective(s) <=> \A j, k \in 1..Len(s) : s[j] = s[k] => j = k
BY LenProperties DEF IsInjective

-----------------------------------------------------------------------------
(* The invariant.  Records read and records still to be read are disjoint  *)
(* unless one was pushed back among those read, and a record that stayed   *)
(* is one or the other unless one was pulled out.                          *)
Distinct ==
  ~pushed =>
    /\ \A j, k \in 1..Len(all) : all[j] = all[k] => j = k
    /\ pc = "reading" =>
         \A k \in 1..Len(all), j \in (offset + 1)..Len(inventory) : all[k] # inventory[j]

Ahead ==
  pc = "reading" /\ ~pulled =>
    \A r \in lasting :
      \/ \E k \in 1..Len(all) : all[k] = r
      \/ \E j \in (offset + 1)..Len(inventory) : inventory[j] = r

IInv == TypeOK /\ Distinct /\ Ahead /\ CompleteUnlessPulled

(* What TypeOK says of the two sequences, index by index. *)
LEMMA Indexed ==
  ASSUME TypeOK
  PROVE  /\ issued \in Nat /\ offset \in Nat /\ Len(inventory) \in Nat /\ Len(all) \in Nat
         /\ \A j \in 1..Len(inventory) : inventory[j] \in 1..issued
         /\ \A k \in 1..Len(all) : all[k] \in 1..issued
         /\ \A j, k \in 1..Len(inventory) : inventory[j] = inventory[k] => j = k
         /\ \A r \in lasting : \E j \in 1..Len(inventory) : inventory[j] = r
<1>1. inventory \in Seq(1..issued) /\ all \in Seq(1..issued) /\ IsInjective(inventory)
  BY DEF TypeOK
<1>2. Len(inventory) \in Nat /\ Len(all) \in Nat
  BY <1>1, LenProperties
<1>3. /\ \A j \in 1..Len(inventory) : inventory[j] \in 1..issued
      /\ \A k \in 1..Len(all) : all[k] \in 1..issued
  BY <1>1, ElementOfSeq
<1>4. \A j, k \in 1..Len(inventory) : inventory[j] = inventory[k] => j = k
  BY <1>1, Injective
<1>5. \A r \in lasting : \E j \in 1..Len(inventory) : inventory[j] = r
  <2>1. lasting \subseteq ToSet(inventory)
    BY DEF TypeOK
  <2> QED
    BY <1>1, <2>1, Members
<1>6. issued \in Nat /\ offset \in Nat
  BY PageSizeAssumption DEF TypeOK
<1> QED
  BY <1>2, <1>3, <1>4, <1>5, <1>6

(* A page is the part of the inventory from the offset on. *)
LEMMA PageShape ==
  ASSUME TypeOK
  PROVE  /\ Page \in Seq(1..issued)
         /\ Len(Page) \in 0..PageSize
         /\ offset + Len(Page) <= Len(inventory) \/ Len(Page) = 0
         /\ Len(Page) < PageSize => offset + Len(Page) >= Len(inventory)
         /\ \A k \in 1..Len(Page) : Page[k] = inventory[offset + k]
<1> DEFINE end == Least(offset + PageSize, Len(inventory))
<1>1. /\ end \in Nat /\ end <= Len(inventory) /\ end <= offset + PageSize
      /\ end = Len(inventory) \/ end = offset + PageSize
  BY Indexed, PageSizeAssumption DEF Least
<1> HIDE DEF end
<1>2. \A j \in (offset + 1)..end : inventory[j] \in 1..issued
  BY <1>1, Indexed
<1>3. /\ SubSeq(inventory, offset + 1, end) \in Seq(1..issued)
      /\ Len(SubSeq(inventory, offset + 1, end))
           = IF offset + 1 <= end THEN end - (offset + 1) + 1 ELSE 0
      /\ \A k \in 1..(end - (offset + 1) + 1) :
           SubSeq(inventory, offset + 1, end)[k] = inventory[offset + 1 + k - 1]
  BY <1>1, <1>2, Indexed, SubSeqProperties
<1>4. Page = SubSeq(inventory, offset + 1, end)
  BY DEF Page, end
<1>5. offset \in Nat /\ Len(inventory) \in Nat /\ PageSize \in Nat \ {0}
  BY Indexed, PageSizeAssumption
<1>6. CASE offset + 1 <= end
  <2>1. Len(Page) = end - offset
    BY <1>1, <1>3, <1>4, <1>5, <1>6
  <2>2. ASSUME NEW k \in 1..(end - offset) PROVE Page[k] = inventory[offset + k]
    <3>1. k \in 1..(end - (offset + 1) + 1) /\ offset + 1 + k - 1 = offset + k
      BY <1>1, <1>5
    <3> QED
      BY <1>3, <1>4, <3>1
  <2> QED
    BY <1>1, <1>3, <1>4, <1>5, <1>6, <2>1, <2>2
<1>7. CASE ~(offset + 1 <= end)
  <2>1. Len(Page) = 0
    BY <1>3, <1>4, <1>7
  <2> QED
    BY <1>1, <1>3, <1>4, <1>5, <1>7, <2>1
<1> QED
  BY <1>6, <1>7

LEMMA Initially == Init => IInv
<1> SUFFICES ASSUME Init PROVE IInv
  OBVIOUS
<1>1. PICK n \in 0..MaxRecords :
        inventory = [i \in 1..n |-> i] /\ issued = n /\ lasting = 1..n
  BY DEF Init
<1>2. n \in Nat
  BY <1>1, PageSizeAssumption
<1>3. inventory \in Seq(1..n) /\ Len(inventory) = n
  BY <1>1, <1>2
<1>4. IsInjective(inventory) /\ lasting \subseteq ToSet(inventory)
  BY <1>1, <1>2 DEF IsInjective, ToSet
<1>5. all \in Seq(1..n) /\ Len(all) = 0
  BY EmptySeq DEF Init
<1>6. TypeOK
  <2>1. totals \in BOOLEAN /\ pulled \in BOOLEAN /\ pushed \in BOOLEAN
    BY DEF Init
  <2>2. pc \in {"reading", "ok", "failed"} /\ offset \in Nat /\ (pc = "reading" => offset = Len(all))
    BY <1>5 DEF Init
  <2> QED
    BY <1>1, <1>3, <1>4, <1>5, <2>1, <2>2 DEF TypeOK
<1>7. Ahead
  BY <1>1, <1>2, <1>3 DEF Init, Ahead
<1>8. Distinct /\ CompleteUnlessPulled
  BY <1>5 DEF Init, Distinct, CompleteUnlessPulled
<1> QED
  BY <1>6, <1>7, <1>8 DEF IInv

LEMMA InsertStep ==
  ASSUME IInv, pc = "reading", NEW i \in 1..(MaxRecords + 1), InsertRecord(i)
  PROVE  IInv'
<1> DEFINE N == Len(inventory)
<1> USE DEF IInv
<1>1. /\ i \in 1..(N + 1) /\ issued' = issued + 1 /\ issued + 1 \in 0..MaxRecords
      /\ pushed' = (pushed \/ i <= offset)
      /\ UNCHANGED <<totals, lasting, pulled, pc, offset, all>>
  BY Indexed, PageSizeAssumption DEF InsertRecord, TypeOK
<1>2. /\ inventory' \in Seq(1..(issued + 1)) /\ Len(inventory') = N + 1
      /\ \A j \in 1..(N + 1) :
           inventory'[j] = IF j < i THEN inventory[j]
                           ELSE IF j = i THEN issued + 1 ELSE inventory[j - 1]
      /\ \A j \in i..N : inventory'[j + 1] = inventory[j]
  <2>1. inventory \in Seq(1..(issued + 1)) /\ all \in Seq(1..(issued + 1)) /\ issued + 1 \in 1..(issued + 1)
    <3>1. 1..issued \subseteq 1..(issued + 1)
      BY Indexed
    <3> QED
      BY <3>1, Indexed, SeqMonotonic DEF TypeOK
  <2>2. inventory' = InsertAt(inventory, i, issued + 1)
    BY DEF InsertRecord
  <2> DEFINE S == 1..(issued + 1)
             new == issued + 1
  <2>3. inventory \in Seq(S) /\ new \in S /\ i \in 1..(Len(inventory) + 1)
    BY <1>1, <2>1
  <2>4. inventory' = InsertAt(inventory, i, new)
    BY <2>2
  <2> HIDE DEF S, new
  <2>5. /\ inventory' \in Seq(S) /\ Len(inventory') = Len(inventory) + 1
        /\ \A j \in 1..(Len(inventory) + 1) :
             inventory'[j] = IF j < i THEN inventory[j]
                             ELSE IF j = i THEN new ELSE inventory[j - 1]
        /\ \A j \in i..Len(inventory) : inventory'[j + 1] = inventory[j]
    <3>1. /\ InsertAt(inventory, i, new) \in Seq(S)
          /\ Len(InsertAt(inventory, i, new)) = Len(inventory) + 1
          /\ \A j \in 1..(Len(inventory) + 1) :
               InsertAt(inventory, i, new)[j] = IF j < i THEN inventory[j]
                                                ELSE IF j = i THEN new ELSE inventory[j - 1]
          /\ \A j \in i..Len(inventory) : InsertAt(inventory, i, new)[j + 1] = inventory[j]
      BY ONLY <2>3, InsertShape
    <3> QED
      BY <2>4, <3>1
  <2> QED
    BY <2>5 DEF S, new
<1>3. N \in Nat /\ issued \in Nat /\ offset \in Nat
  BY Indexed
<1>4. TypeOK'
  <2>1. \A j, k \in 1..(N + 1) : inventory'[j] = inventory'[k] => j = k
    <3>1. \A j \in 1..(N + 1) : j # i =>
            \E l \in 1..N : inventory'[j] = inventory[l] /\ l = IF j < i THEN j ELSE j - 1
      <4> TAKE j \in 1..(N + 1)
      <4> HAVE j # i
      <4>1. (IF j < i THEN j ELSE j - 1) \in 1..N
        BY <1>1, <1>3
      <4>2. inventory'[j] = inventory[IF j < i THEN j ELSE j - 1]
        BY <1>2
      <4> QED
        BY <4>1, <4>2
    <3>2. inventory'[i] = issued + 1
      BY <1>1, <1>2, <1>3
    <3>3. \A l \in 1..N : inventory[l] # issued + 1
      BY Indexed, <1>3
    <3> QED
      BY <1>1, <1>3, <3>1, <3>2, <3>3, Indexed
  <2>2. IsInjective(inventory')
    BY <1>2, <2>1, Injective
  <2>3. lasting \subseteq ToSet(inventory')
    <3> SUFFICES ASSUME NEW r \in lasting PROVE r \in ToSet(inventory')
      OBVIOUS
    <3>1. PICK j \in 1..N : inventory[j] = r
      BY Indexed
    <3>2. \E k \in 1..(N + 1) : inventory'[k] = r
      <4>1. CASE j < i
        BY <1>2, <1>3, <3>1, <4>1
      <4>2. CASE j >= i
        <5>1. j + 1 \in 1..(N + 1) /\ inventory'[j + 1] = inventory[j]
          <6>1. j \in i..N
            BY <1>3, <4>2
          <6> QED
            BY <1>1, <1>2, <1>3, <6>1
        <5> QED
          BY <3>1, <5>1
      <4> QED
        BY <1>1, <1>3, <4>1, <4>2
    <3> QED
      BY <1>2, <3>2, Members
  <2>4. all' \in Seq(1..(issued + 1))
    <3>1. 1..issued \subseteq 1..(issued + 1)
      BY Indexed
    <3> QED
      BY <1>1, <3>1, SeqMonotonic DEF TypeOK
  <2>5. totals' \in BOOLEAN /\ pulled' \in BOOLEAN /\ pushed' \in BOOLEAN
    BY <1>1 DEF TypeOK
  <2> QED
    BY <1>1, <1>2, <2>2, <2>3, <2>4, <2>5 DEF TypeOK
<1>5. Distinct'
  <2> SUFFICES ASSUME ~pushed'
               PROVE  /\ \A j, k \in 1..Len(all) : all[j] = all[k] => j = k
                      /\ \A k \in 1..Len(all), j \in (offset + 1)..(N + 1) : all[k] # inventory'[j]
    BY <1>1, <1>2 DEF Distinct
  <2>1. ~pushed /\ i > offset
    <3>1. ~pushed /\ ~(i <= offset)
      BY <1>1
    <3> QED
      BY <1>1, <1>3, <3>1
  <2>2. ASSUME NEW k \in 1..Len(all), NEW j \in (offset + 1)..(N + 1)
        PROVE  all[k] # inventory'[j]
    <3>1. CASE j = i
      BY <1>1, <1>2, <1>3, <3>1, Indexed
    <3>2. CASE j # i
      <4>1. \E l \in (offset + 1)..N : inventory'[j] = inventory[l]
        <5>1. CASE j < i
          <6>1. j \in (offset + 1)..N /\ j \in 1..(N + 1)
            BY <1>1, <1>3, <2>1, <5>1
          <6>2. inventory'[j] = inventory[j]
            BY <1>2, <5>1, <6>1
          <6> QED
            BY <6>1, <6>2
        <5>2. CASE j > i
          <6>1. j - 1 \in (offset + 1)..N /\ j \in 1..(N + 1) /\ ~(j < i)
            BY <1>1, <1>3, <2>1, <5>2
          <6>2. inventory'[j] = inventory[j - 1]
            BY <1>2, <3>2, <6>1
          <6> QED
            BY <6>1, <6>2
        <5> QED
          BY <1>1, <1>3, <3>2, <5>1, <5>2
      <4> QED
        BY <2>1, <4>1 DEF Distinct
    <3> QED
      BY <3>1, <3>2
  <2> QED
    BY <2>1, <2>2 DEF Distinct
<1>6. Ahead'
  <2> SUFFICES ASSUME ~pulled, NEW r \in lasting
               PROVE  \/ \E k \in 1..Len(all) : all[k] = r
                      \/ \E j \in (offset + 1)..(N + 1) : inventory'[j] = r
    BY <1>1, <1>2 DEF Ahead
  <2>1. ASSUME NEW j \in (offset + 1)..N, inventory[j] = r
        PROVE  \E l \in (offset + 1)..(N + 1) : inventory'[l] = r
    <3>1. CASE j < i
      BY <1>2, <1>3, <2>1, <3>1
    <3>2. CASE j >= i
      <4>1. j + 1 \in (offset + 1)..(N + 1) /\ inventory'[j + 1] = inventory[j]
        BY <1>1, <1>2, <1>3, <3>2
      <4> QED
        BY <2>1, <4>1
    <3> QED
      BY <1>1, <1>3, <3>1, <3>2
  <2> QED
    BY <2>1 DEF Ahead
<1>7. CompleteUnlessPulled'
  BY <1>1 DEF CompleteUnlessPulled
<1> QED
  BY <1>4, <1>5, <1>6, <1>7

LEMMA RemoveStep ==
  ASSUME IInv, pc = "reading", NEW i \in 1..(MaxRecords + 1), RemoveRecord(i)
  PROVE  IInv'
<1> DEFINE N == Len(inventory)
<1> USE DEF IInv
<1>1. /\ i \in 1..N /\ lasting' = lasting \ {inventory[i]}
      /\ pulled' = (pulled \/ i <= offset)
      /\ UNCHANGED <<issued, totals, pushed, pc, offset, all>>
  BY DEF RemoveRecord
<1>2. /\ inventory' \in Seq(1..issued) /\ Len(inventory') = N - 1
      /\ \A j \in 1..(N - 1) :
           inventory'[j] = IF j < i THEN inventory[j] ELSE inventory[j + 1]
  BY <1>1, RemoveShape DEF RemoveRecord, TypeOK
<1>3. N \in Nat /\ issued \in Nat /\ offset \in Nat
  BY Indexed
<1>4. \A r \in lasting' : \A j \in 1..N : inventory[j] = r =>
        /\ j < i => j \in 1..(N - 1) /\ inventory'[j] = r
        /\ j >= i => j - 1 \in i..(N - 1) /\ inventory'[j - 1] = r
  <2> TAKE r \in lasting'
  <2> TAKE j \in 1..N
  <2> HAVE inventory[j] = r
  <2>1. j # i /\ r \in lasting
    BY <1>1
  <2>2. CASE j < i
    BY <1>1, <1>2, <1>3, <2>2
  <2>3. CASE j > i
    BY <1>1, <1>2, <1>3, <2>3
  <2> QED
    BY <1>1, <1>3, <2>1, <2>2, <2>3
<1>5. TypeOK'
  <2>1. \A j, k \in 1..(N - 1) : inventory'[j] = inventory'[k] => j = k
    <3>1. \A j \in 1..(N - 1) :
            \E l \in 1..N : inventory'[j] = inventory[l] /\ l = IF j < i THEN j ELSE j + 1
      <4> TAKE j \in 1..(N - 1)
      <4>1. (IF j < i THEN j ELSE j + 1) \in 1..N
        BY <1>1, <1>3
      <4>2. inventory'[j] = inventory[IF j < i THEN j ELSE j + 1]
        BY <1>2
      <4> QED
        BY <4>1, <4>2
    <3> QED
      BY <1>1, <1>3, <3>1, Indexed
  <2>2. IsInjective(inventory')
    BY <1>2, <2>1, Injective
  <2>3. lasting' \subseteq ToSet(inventory')
    <3> SUFFICES ASSUME NEW r \in lasting' PROVE r \in ToSet(inventory')
      OBVIOUS
    <3>1. PICK j \in 1..N : inventory[j] = r
      BY <1>1, Indexed
    <3>2. \E k \in 1..(N - 1) : inventory'[k] = r
      BY <1>1, <1>3, <1>4, <3>1
    <3> QED
      BY <1>2, <3>2, Members
  <2>4. totals' \in BOOLEAN /\ pulled' \in BOOLEAN /\ pushed' \in BOOLEAN
    BY <1>1 DEF TypeOK
  <2> QED
    BY <1>1, <1>2, <2>2, <2>3, <2>4 DEF TypeOK
<1>6. Distinct'
  <2> SUFFICES ASSUME ~pushed
               PROVE  /\ \A j, k \in 1..Len(all) : all[j] = all[k] => j = k
                      /\ \A k \in 1..Len(all), j \in (offset + 1)..(N - 1) : all[k] # inventory'[j]
    BY <1>1, <1>2 DEF Distinct
  <2>1. ASSUME NEW k \in 1..Len(all), NEW j \in (offset + 1)..(N - 1)
        PROVE  all[k] # inventory'[j]
    <3>1. \E l \in (offset + 1)..N : inventory'[j] = inventory[l]
      BY <1>1, <1>2, <1>3
    <3> QED
      BY <3>1 DEF Distinct
  <2> QED
    BY <2>1 DEF Distinct
<1>7. Ahead'
  <2> SUFFICES ASSUME ~pulled', NEW r \in lasting'
               PROVE  \/ \E k \in 1..Len(all) : all[k] = r
                      \/ \E j \in (offset + 1)..(N - 1) : inventory'[j] = r
    BY <1>1, <1>2 DEF Ahead
  <2>1. ~pulled /\ i > offset /\ r \in lasting
    <3>1. ~pulled /\ ~(i <= offset) /\ r \in lasting
      BY <1>1
    <3> QED
      BY <1>1, <1>3, <3>1
  <2>2. ASSUME NEW j \in (offset + 1)..N, inventory[j] = r
        PROVE  \E l \in (offset + 1)..(N - 1) : inventory'[l] = r
    <3>1. CASE j < i
      BY <1>3, <1>4, <2>2, <3>1
    <3>2. CASE j >= i
      <4>1. j - 1 \in i..(N - 1) /\ inventory'[j - 1] = r
        BY <1>3, <1>4, <2>2, <3>2
      <4> QED
        BY <1>1, <1>3, <2>1, <4>1
    <3> QED
      BY <1>1, <1>3, <3>1, <3>2
  <2> QED
    BY <2>1, <2>2 DEF Ahead
<1>8. CompleteUnlessPulled'
  BY <1>1 DEF CompleteUnlessPulled
<1> QED
  BY <1>5, <1>6, <1>7, <1>8

LEMMA ReadStep ==
  ASSUME IInv, ReadPage
  PROVE  IInv'
<1> DEFINE N == Len(inventory)
           P == Page
<1> USE DEF IInv
<1>1. /\ pc = "reading" /\ all' = all \o P /\ offset = Len(all)
      /\ UNCHANGED <<inventory, issued, totals, lasting, pulled, pushed>>
  BY DEF ReadPage, serverVars, historyVars, TypeOK
<1>2. /\ P \in Seq(1..issued) /\ Len(P) \in 0..PageSize
      /\ offset + Len(P) <= N \/ Len(P) = 0
      /\ Len(P) < PageSize => offset + Len(P) >= N
      /\ \A k \in 1..Len(P) : P[k] = inventory[offset + k]
  BY PageShape
<1>3. N \in Nat /\ offset \in Nat /\ Len(P) \in Nat /\ PageSize \in Nat \ {0}
  BY <1>2, Indexed, PageSizeAssumption
<1>4. \/ pc' = "ok" /\ offset' = offset /\ LastPage(P, all')
      \/ pc' = "reading" /\ offset' = offset + PageSize /\ ~LastPage(P, all')
  BY DEF ReadPage
<1> HIDE DEF P
<1>5. /\ all' \in Seq(1..issued) /\ Len(all') = Len(all) + Len(P)
      /\ \A k \in 1..(Len(all) + Len(P)) :
           all'[k] = IF k <= Len(all) THEN all[k] ELSE P[k - Len(all)]
  <2>1. all \in Seq(1..issued)
    BY DEF TypeOK
  <2>2. /\ all \o P \in Seq(1..issued) /\ Len(all \o P) = Len(all) + Len(P)
        /\ \A k \in 1..(Len(all) + Len(P)) :
             (all \o P)[k] = IF k <= Len(all) THEN all[k] ELSE P[k - Len(all)]
    BY <1>2, <2>1, ConcatProperties
  <2> QED
    BY <1>1, <2>2
<1>6. \A k \in 1..Len(all') :
        /\ k <= offset => k \in 1..Len(all) /\ all'[k] = all[k]
        /\ k > offset => k \in (offset + 1)..N /\ all'[k] = inventory[k]
  <2> TAKE k \in 1..Len(all')
  <2>1. CASE k <= offset
    BY <1>1, <1>3, <1>5, <2>1
  <2>2. CASE k > offset
    <3>1. k - offset \in 1..Len(P) /\ offset + (k - offset) = k /\ k <= N
      BY <1>1, <1>2, <1>3, <1>5, <2>2
    <3>2. all'[k] = P[k - offset]
      BY <1>1, <1>3, <1>5, <2>2
    <3>3. P[k - offset] = inventory[offset + (k - offset)]
      BY <1>2, <3>1
    <3> QED
      BY <1>3, <2>2, <3>1, <3>2, <3>3
  <2> QED
    BY <1>3, <1>5, <2>1, <2>2
<1>7. pc' = "reading" => Len(P) = PageSize /\ Len(all') = offset + PageSize
  BY <1>1, <1>2, <1>3, <1>4, <1>5 DEF LastPage
<1>8. TypeOK'
  <2>1. totals' \in BOOLEAN /\ pulled' \in BOOLEAN /\ pushed' \in BOOLEAN
    BY <1>1 DEF TypeOK
  <2>2. pc' \in {"reading", "ok", "failed"} /\ offset' \in Nat
    BY <1>3, <1>4
  <2>3. pc' = "reading" => offset' = Len(all')
    BY <1>4, <1>7
  <2> QED
    BY <1>1, <1>5, <2>1, <2>2, <2>3 DEF TypeOK
<1>9. ASSUME ~pushed
      PROVE  /\ \A j, k \in 1..Len(all') : all'[j] = all'[k] => j = k
             /\ pc' = "reading" => \A k \in 1..Len(all'), j \in (offset' + 1)..N : all'[k] # inventory[j]
  <2>1. /\ \A j, k \in 1..Len(all) : all[j] = all[k] => j = k
        /\ \A k \in 1..Len(all), j \in (offset + 1)..N : all[k] # inventory[j]
    BY <1>1, <1>9 DEF Distinct
  <2>2. \A j, k \in (offset + 1)..N : inventory[j] = inventory[k] => j = k
    BY <1>3, Indexed
  <2>3. ASSUME NEW j \in 1..Len(all'), NEW k \in 1..Len(all'), all'[j] = all'[k]
        PROVE  j = k
    <3>1. CASE j <= offset /\ k <= offset
      BY <1>6, <2>1, <2>3, <3>1
    <3>2. CASE j <= offset /\ k > offset
      BY <1>6, <2>1, <2>3, <3>2
    <3>3. CASE j > offset /\ k <= offset
      BY <1>6, <2>1, <2>3, <3>3
    <3>4. CASE j > offset /\ k > offset
      BY <1>6, <2>2, <2>3, <3>4
    <3> QED
      BY <1>3, <1>5, <3>1, <3>2, <3>3, <3>4
  <2>4. ASSUME pc' = "reading", NEW k \in 1..Len(all'), NEW j \in (offset' + 1)..N
        PROVE  all'[k] # inventory[j]
    <3>1. j \in (offset + 1)..N /\ k < j
      BY <1>3, <1>4, <1>7, <2>4
    <3>2. CASE k <= offset
      BY <1>6, <2>1, <3>1, <3>2
    <3>3. CASE k > offset
      BY <1>6, <2>2, <3>1, <3>3
    <3> QED
      BY <1>3, <3>2, <3>3
  <2> QED
    BY <2>3, <2>4
<1>10. Distinct'
  BY <1>1, <1>9 DEF Distinct
<1>11. ASSUME ~pulled, NEW r \in lasting
       PROVE  \/ \E k \in 1..Len(all') : all'[k] = r
              \/ \E j \in (Len(all') + 1)..N : inventory[j] = r
  <2>1. CASE \E k \in 1..Len(all) : all[k] = r
    <3>1. PICK k \in 1..Len(all) : all[k] = r
      BY <2>1
    <3>2. k \in 1..Len(all') /\ k <= offset
      BY <1>1, <1>3, <1>5
    <3> QED
      BY <1>6, <3>1, <3>2
  <2>2. CASE \E j \in (offset + 1)..N : inventory[j] = r
    <3>1. PICK j \in (offset + 1)..N : inventory[j] = r
      BY <2>2
    <3>2. CASE j <= Len(all')
      <4>1. j \in 1..Len(all') /\ j > offset
        BY <1>3, <3>2
      <4> QED
        BY <1>6, <3>1, <4>1
    <3>3. CASE ~(j <= Len(all'))
      <4>1. j \in (Len(all') + 1)..N
        BY <1>1, <1>3, <1>5, <3>3
      <4> QED
        BY <3>1, <4>1
    <3> QED
      BY <3>2, <3>3
  <2> QED
    BY <1>1, <1>11, <2>1, <2>2 DEF Ahead
<1>12. Ahead'
  BY <1>1, <1>4, <1>7, <1>11 DEF Ahead
<1>13. CompleteUnlessPulled'
  <2> SUFFICES ASSUME pc' = "ok", totals, ~pulled, NEW r \in lasting
               PROVE  r \in ToSet(all')
    BY <1>1 DEF CompleteUnlessPulled
  <2>1. \E j \in 1..N : inventory[j] = r
    BY Indexed
  <2>2. Len(all') >= N
    <3>1. LastPage(P, all') /\ Total = N
      BY <1>4 DEF Total
    <3>2. N <= 0 \/ Len(all') >= N \/ Len(P) < PageSize
      BY <3>1 DEF LastPage
    <3> QED
      BY <1>1, <1>2, <1>3, <1>5, <2>1, <3>2
  <2>3. \E k \in 1..Len(all') : all'[k] = r
    BY <1>1, <1>3, <1>5, <1>11, <2>2
  <2> QED
    BY <1>5, <2>3, Members
<1> QED
  BY <1>8, <1>10, <1>12, <1>13

LEMMA FailStep ==
  ASSUME IInv, ReadFails
  PROVE  IInv'
<1>1. /\ pc' = "failed" /\ all' = <<>>
      /\ UNCHANGED <<inventory, issued, totals, lasting, pulled, pushed, offset>>
  BY DEF ReadFails, serverVars, historyVars
<1>2. <<>> \in Seq(1..issued) /\ Len(<<>>) = 0
  BY EmptySeq
<1>3. TypeOK'
  <2>1. totals' \in BOOLEAN /\ pulled' \in BOOLEAN /\ pushed' \in BOOLEAN
    BY <1>1 DEF IInv, TypeOK
  <2> QED
    BY <1>1, <1>2, <2>1 DEF IInv, TypeOK
<1>4. Distinct' /\ Ahead' /\ CompleteUnlessPulled'
  BY <1>1, <1>2 DEF Distinct, Ahead, CompleteUnlessPulled
<1> QED
  BY <1>3, <1>4 DEF IInv

LEMMA Step == IInv /\ [Next]_vars => IInv'
<1> SUFFICES ASSUME IInv, [Next]_vars PROVE IInv'
  OBVIOUS
<1>1. CASE UNCHANGED vars
  <2>1. TypeOK'
    BY <1>1 DEF IInv, vars, serverVars, historyVars, TypeOK
  <2>2. Distinct' /\ Ahead'
    BY <1>1 DEF IInv, vars, serverVars, historyVars, Distinct, Ahead
  <2>3. CompleteUnlessPulled'
    BY <1>1 DEF IInv, vars, serverVars, historyVars, CompleteUnlessPulled
  <2> QED
    BY <2>1, <2>2, <2>3 DEF IInv
<1>2. ASSUME pc = "reading", NEW i \in 1..(MaxRecords + 1), InsertRecord(i) \/ RemoveRecord(i)
      PROVE  IInv'
  BY <1>2, InsertStep, RemoveStep
<1>3. CASE ReadPage
  BY <1>3, ReadStep
<1>4. CASE ReadFails
  BY <1>4, FailStep
<1> QED
  BY <1>1, <1>2, <1>3, <1>4 DEF Next, Ended

LEMMA Inductive == Spec => []IInv
BY Initially, Step, PTL DEF Spec

-----------------------------------------------------------------------------
(* Every reachable state of the loop is well typed: in particular every    *)
(* page but the last is full.                                              *)
THEOREM TypeCorrect == Spec => []TypeOK
<1>1. IInv => TypeOK
  BY DEF IInv
<1> QED
  BY <1>1, Inductive, PTL

(* No record that stayed is missed, unless one already read was removed or *)
(* the server reports no total.                                            *)
THEOREM NoneMissed == Spec => []CompleteUnlessPulled
<1>1. IInv => CompleteUnlessPulled
  BY DEF IInv
<1> QED
  BY <1>1, Inductive, PTL

(* No record is returned twice, unless one was inserted among those read.  *)
THEOREM NoneTwice == Spec => []NoneTwiceUnlessPushed
<1>1. IInv => NoneTwiceUnlessPushed
  <2> SUFFICES ASSUME IInv, ~pushed PROVE IsInjective(all)
    BY DEF NoneTwiceUnlessPushed
  <2>1. all \in Seq(1..issued) /\ \A j, k \in 1..Len(all) : all[j] = all[k] => j = k
    BY DEF IInv, TypeOK, Distinct
  <2> QED
    BY <2>1, Injective
<1> QED
  BY <1>1, Inductive, PTL

=============================================================================

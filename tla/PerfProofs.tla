----------------------------- MODULE PerfProofs -----------------------------
(***************************************************************************)
(* Proofs about perf.rs.  Of PerfRing.tla, for any size of the ring, any   *)
(* batch and any number of hits: PerfMap::events never sleeps through a    *)
(* record, whichever of the two loads of data_head behind the loop the     *)
(* compiler makes; and what it handles is what the kernel wrote, from an   *)
(* invariant on how the records lie in the ring.  Of RingTask.tla: every   *)
(* step is one of the task of a watch, or none.  Of PerfOpen.tla, for any  *)
(* number of callers and debug registers and any width of usize: a debug   *)
(* register comes back, from where a call may be while its descriptor is   *)
(* open and while its ring is mapped; and the ring is as large as asked,   *)
(* from the arithmetic of powers of two.                                   *)
(***************************************************************************)
EXTENDS RingTask, PerfOpen, SequenceTheorems, FiniteSetTheorems, WellFoundedInduction, TLAPS

Working == {"loop", "header", "sample", "lost", "advance", "recheck", "clear"}

Types ==
  /\ ready \in BOOLEAN /\ closed \in BOOLEAN /\ fresh \in BOOLEAN
  /\ poll \in BOOLEAN /\ exited \in BOOLEAN
  /\ kpc \in {"idle", "written", "published"}
  /\ pc \in Working \cup {"wait", "parked", "leave", "yield"}

\* An event the driver has not seen yet.
Coming == poll \/ kpc = "published"

\* clear_ready would lose against it.
Survives == ready /\ fresh

(* While the task works the descriptor counts as ready.  A head that has    *)
(* moved since the while condition looked has been, or will be, announced;  *)
(* so clear_ready comes only when there is nothing to read or when it       *)
(* clears nothing, and a task that waits with something to read is woken.   *)
Announced ==
  /\ closed => exited
  /\ pc \in Working => ready \/ closed
  /\ pc \in Working \ {"loop"} => seenHead = head \/ Coming \/ Survives
  /\ pc = "clear" => rd = head \/ Coming \/ Survives
  /\ pc \notin Working => rd = head \/ ready \/ closed \/ Coming

Inv == Types /\ Announced

LEMMA InitInv == Init => Inv
BY DEF Init, Inv, Types, Announced, Working

LEMMA NextInv == Inv /\ [Next]_vars => Inv'
<1> SUFFICES ASSUME Inv, [Next]_vars PROVE Inv'
  OBVIOUS
<1> USE DEF Inv, Types, Announced, Working, Coming, Survives, Goto,
            kernelVars, ioVars, readerVars
<1>1. CASE HitUser \/ HitNoRegs
  BY <1>1 DEF HitUser, HitNoRegs, Sampled
<1>2. CASE Publish
  BY <1>2 DEF Publish
<1>3. CASE Wake
  BY <1>3 DEF Wake
<1>4. CASE ThreadExit
  BY <1>4 DEF ThreadExit
<1>5. CASE Driver
  BY <1>5 DEF Driver
<1>6. CASE Park
  BY <1>6 DEF Park
<1>7. CASE Readable
  BY <1>7 DEF Readable
<1>8. CASE Check
  BY <1>8 DEF Check
<1>9. CASE ReadHeader
  BY <1>9 DEF ReadHeader
<1>10. CASE ReadSample \/ ReadLost
  BY <1>10 DEF ReadSample, ReadLost
<1>11. CASE Advance
  BY <1>11 DEF Advance
<1>12. CASE Recheck
  BY <1>12 DEF Recheck
<1>13. CASE Clear
  BY <1>13 DEF Clear
<1>14. CASE Leave \/ Yielded
  BY <1>14 DEF Leave, Yielded
<1>15. CASE UNCHANGED vars
  BY <1>15 DEF vars
<1>16. QED
  BY <1>1, <1>2, <1>3, <1>4, <1>5, <1>6, <1>7, <1>8, <1>9, <1>10, <1>11, <1>12, <1>13,
     <1>14, <1>15 DEF Next, Kernel, Reader

\* A parked task with nothing under way to wake it has read everything (perf.rs:110-146).
THEOREM NeverSleepsOnSamples == Spec => []NoLostWakeup
<1>1. Inv => NoLostWakeup
  BY DEF Inv, Announced, Working, Coming, NoLostWakeup
<1>2. QED
  BY <1>1, InitInv, NextInv, PTL DEF Spec
-----------------------------------------------------------------------------
(* Arithmetic of positions in the ring.                                    *)

LEMMA DivMod ==
  ASSUME NEW S \in Nat, S > 0, NEW x \in Int
  PROVE  x = S * (x \div S) + (x % S) /\ x % S \in 0..S - 1 /\ x \div S \in Int
OBVIOUS

LEMMA SmallMultiple ==
  ASSUME NEW S \in Nat, NEW a \in Int, NEW d \in Int, a = S * d, -S < a, a < S
  PROVE  d = 0
<1>1. CASE d >= 1
  <2>1. S * d >= S
    BY <1>1
  <2>2. QED
    BY <2>1
<1>2. CASE d <= -1
  <2>1. S * d <= -S
    BY <1>2
  <2>2. QED
    BY <2>1
<1>3. QED
  BY <1>1, <1>2

LEMMA ModUnique ==
  ASSUME NEW S \in Nat, S > 0, NEW x \in Int, NEW q \in Int, NEW r \in 0..S - 1, x = S * q + r
  PROVE  x % S = r
<1> DEFINE p == x \div S
           m == x % S
<1>1. x = S * p + m /\ m \in 0..S - 1 /\ p \in Int
  BY DivMod
<1> HIDE DEF p, m
<1>2. m - r = S * (q - p)
  BY <1>1
<1>3. q - p \in Int /\ m - r \in Int /\ -S < m - r /\ m - r < S
  BY <1>1
<1>4. q - p = 0
  BY <1>2, <1>3, SmallMultiple
<1>5. QED
  BY <1>1, <1>2, <1>4 DEF m

\* How far the cell of position x is behind that of position at.
LEMMA CellDistance ==
  ASSUME NEW x \in Nat, NEW at \in Nat, NEW k \in 0..Size - 1,
         x = at + k \/ x + Size = at + k
  PROVE  ((x % Size) - at) % Size = k
<1> USE RingAssumption DEF RingAssumption
<1> DEFINE p == x \div Size
           m == x % Size
<1>1. x = Size * p + m /\ m \in 0..Size - 1 /\ p \in Int
  BY DivMod
<1> HIDE DEF p, m
<1>2. PICK e \in {0, 1} : x + Size * e = at + k
  <2>1. CASE x = at + k
    BY <2>1
  <2>2. CASE x + Size = at + k
    BY <2>2
  <2>3. QED
    BY <2>1, <2>2
<1> DEFINE y == m - at
           q == (0 - e) - p
<1>3. y = Size * q + k
  BY <1>1, <1>2
<1>4. y \in Int /\ q \in Int
  BY <1>1
<1> HIDE DEF y, q
<1>5. y % Size = k
  BY <1>3, <1>4, ModUnique
<1>6. QED
  BY <1>5 DEF m, y
-----------------------------------------------------------------------------
(* What is in the ring.                                                    *)

At(x) == cells[x % Size]

\* The kernel writes at its head and leaves what is behind it alone.
LEMMA StoreWrites ==
  ASSUME NEW at \in Nat, NEW s, Len(s) \in 0..Size - 1, NEW x \in Nat,
         x < at + Len(s), at + Len(s) <= x + Size
  PROVE  Store(at, s)[x % Size] = IF x < at THEN At(x) ELSE s[x - at + 1]
<1> USE RingAssumption DEF RingAssumption
<1>1. x % Size \in 0..Size - 1
  BY DivMod
<1> DEFINE k == IF x < at THEN x + Size - at ELSE x - at
<1>2. k \in 0..Size - 1 /\ (x = at + k \/ x + Size = at + k)
  OBVIOUS
<1>3. ((x % Size) - at) % Size = k
  BY <1>2, CellDistance
<1>4. Store(at, s)[x % Size] = IF k < Len(s) THEN s[k + 1] ELSE At(x)
  BY <1>1, <1>3 DEF Store, At
<1>5. k < Len(s) <=> x >= at
  OBVIOUS
<1>6. QED
  BY <1>4, <1>5
\* A record from b to c, with j samples that have registers before it and k with it.
Record(b, c, j, k) ==
  \/ /\ At(b) = Cell("sample", 3) /\ c = b + 3 /\ k = j + 1 /\ emitted[k] # 0
     /\ At(b + 1) = Cell("word", emitted[k]) /\ At(b + 2) = Cell("word", emitted[k])
  \/ /\ At(b) = Cell("sample", 2) /\ c = b + 2 /\ k = j
     /\ At(b + 1) = Cell("word", 0)
  \/ At(b) = Cell("lost", 3) /\ c = b + 3 /\ k = j

(* B holds the positions where records begin or end, cnt how many samples   *)
(* with registers are before each.  From the reader's position on, a record *)
(* leads from each to the next.                                             *)
Chain(B, cnt) ==
  /\ rd \in B /\ head \in B /\ khead \in B
  /\ \A b \in B : b <= khead /\ cnt[b] <= Len(emitted)
  /\ cnt[khead] = Len(emitted)
  /\ \A b \in B : rd <= b /\ b < khead =>
       \E c \in B : Record(b, c, cnt[b], cnt[c]) /\ \A d \in B : d <= b \/ c <= d

\* What the reader holds, and how far it has come.
Progress(cnt) ==
  /\ pc \in {"sample", "lost", "advance"} => rec = At(rd)
  /\ pc \in {"sample", "lost"} => rec.type = pc
  /\ Len(delivered) = cnt[IF pc = "advance" THEN rd + rec.val ELSE rd]

Layout == \E B \in SUBSET Nat, cnt \in [Nat -> Nat] : Chain(B, cnt) /\ Progress(cnt)

Shape ==
  /\ head \in Nat /\ tail \in Nat /\ khead \in Nat /\ rd \in Nat
  /\ lost \in Nat /\ raised \in Nat
  /\ emitted \in Seq(Nat) /\ delivered \in Seq(Nat \X Nat)

Reading == {"header", "sample", "lost", "advance"}

Bounds ==
  /\ tail <= rd /\ rd <= head /\ head <= khead /\ khead - tail <= Size - 1
  /\ pc \in Reading => rd < head

RingInv == Shape /\ Bounds /\ Integrity /\ Layout

LEMMA InitRing == Init => RingInv
<1> SUFFICES ASSUME Init PROVE RingInv
  OBVIOUS
<1> USE RingAssumption DEF RingAssumption, Init
<1>2. Shape /\ Bounds /\ Integrity
  BY DEF Shape, Bounds, Integrity, Reading
<1> DEFINE cnt == [n \in Nat |-> 0]
<1>3. Chain({0}, cnt) /\ Progress(cnt)
  BY DEF Chain, Progress
<1>4. {0} \in SUBSET Nat /\ cnt \in [Nat -> Nat]
  OBVIOUS
<1> HIDE DEF cnt
<1>5. Layout
  BY <1>3, <1>4 DEF Layout
<1>6. QED
  BY <1>2, <1>5 DEF RingInv

\* A record tells its kind and its size in the first cell.
LEMMA RecordHeader ==
  ASSUME NEW b, NEW c, NEW j, NEW k, Record(b, c, j, k)
  PROVE  At(b).type \in {"sample", "lost"} /\ At(b).val \in {2, 3} /\ c = b + At(b).val
<1>1. CASE At(b) = Cell("sample", 3) /\ c = b + 3
  BY <1>1 DEF Cell
<1>2. CASE At(b) = Cell("sample", 2) /\ c = b + 2
  BY <1>2 DEF Cell
<1>3. CASE At(b) = Cell("lost", 3) /\ c = b + 3
  BY <1>3 DEF Cell
<1>4. QED
  BY <1>1, <1>2, <1>3 DEF Record

\* The reader's next record, which is published whole.
LEMMA NextRecord ==
  ASSUME Shape, Bounds, rd < head,
         NEW B \in SUBSET Nat, NEW cnt \in [Nat -> Nat], Chain(B, cnt)
  PROVE  /\ At(rd).type \in {"sample", "lost"} /\ At(rd).val \in {2, 3}
         /\ rd + At(rd).val \in B /\ rd + At(rd).val <= head
         /\ Record(rd, rd + At(rd).val, cnt[rd], cnt[rd + At(rd).val])
<1>1. PICK c \in B : Record(rd, c, cnt[rd], cnt[c]) /\ \A d \in B : d <= rd \/ c <= d
  BY DEF Shape, Bounds, Chain
<1>2. At(rd).type \in {"sample", "lost"} /\ At(rd).val \in {2, 3} /\ c = rd + At(rd).val
  BY <1>1, RecordHeader
<1>3. c <= head
  BY <1>1 DEF Chain, Shape
<1>4. QED
  BY <1>1, <1>2, <1>3

-----------------------------------------------------------------------------
(* The steps of the reader.                                                *)

\* A step that leaves what the chain is about alone.
LEMMA ChainUnmoved ==
  ASSUME NEW B, NEW cnt, Chain(B, cnt), UNCHANGED <<rd, khead, cells, emitted>>, head' \in B
  PROVE  Chain(B, cnt)'
BY DEF Chain, Record, At

LEMMA ReadSampleKeeps == RingInv /\ ReadSample => RingInv'
<1> SUFFICES ASSUME RingInv, ReadSample PROVE RingInv'
  OBVIOUS
<1> USE DEF RingInv, kernelVars, ioVars
<1>1. PICK B \in SUBSET Nat, cnt \in [Nat -> Nat] : Chain(B, cnt) /\ Progress(cnt)
  BY DEF Layout
<1>2. /\ pc = "sample" /\ pc' = "advance" /\ rec' = rec /\ rec = At(rd) /\ rec.type = "sample"
      /\ Len(delivered) = cnt[rd] /\ rd < head
      /\ UNCHANGED <<rd, khead, cells, emitted, head, tail, lost, raised>>
  BY <1>1 DEF ReadSample, Progress, Goto, Bounds, Reading
<1> DEFINE c == rd + rec.val
<1>3. c \in B /\ Record(rd, c, cnt[rd], cnt[c]) /\ cnt[c] <= Len(emitted)
  BY <1>1, <1>2, NextRecord DEF Chain
<1>4. rd \in Nat /\ c \in Nat /\ cnt[rd] \in Nat /\ cnt[c] \in Nat /\ Len(emitted) \in Nat
  BY <1>1, <1>3 DEF Shape, Chain
<1>5. delivered' = IF At(rd + 1).val = 0 THEN delivered
                   ELSE Append(delivered, <<At(rd + 1).val, At(rd + 2).val>>)
  BY DEF ReadSample, CellAt, At
<1> HIDE DEF c
<1>6. /\ Shape' /\ Integrity'
      /\ Len(delivered') = cnt[c]
  <2>1. CASE /\ At(rd) = Cell("sample", 3) /\ cnt[c] = cnt[rd] + 1 /\ emitted[cnt[c]] # 0
             /\ At(rd + 1) = Cell("word", emitted[cnt[c]])
             /\ At(rd + 2) = Cell("word", emitted[cnt[c]])
    <3> DEFINE k == cnt[c]
               e == emitted[k]
    <3>1. At(rd + 1).val = e /\ At(rd + 2).val = e /\ e # 0
      BY <2>1 DEF Cell
    <3>2. k = Len(delivered) + 1 /\ k \in 1..Len(emitted)
      BY <1>2, <1>3, <1>4, <2>1
    <3>3. emitted \in Seq(Nat) /\ delivered \in Seq(Nat \X Nat)
      BY DEF Shape
    <3> HIDE DEF k
    <3>4. e \in Nat
      BY <3>2, <3>3, ElementOfSeq
    <3>5. delivered' = Append(delivered, <<e, e>>)
      BY <1>5, <3>1
    <3> HIDE DEF e
    <3>6. /\ delivered' \in Seq(Nat \X Nat)
          /\ Len(delivered') = Len(delivered) + 1 /\ Len(delivered) \in Nat
          /\ \A i \in 1..Len(delivered) : delivered'[i] = delivered[i]
          /\ delivered'[Len(delivered) + 1] = <<e, e>>
      <4> DEFINE p == <<e, e>>
      <4>1. p \in Nat \X Nat /\ delivered' = Append(delivered, p)
        BY <3>4, <3>5
      <4> HIDE DEF p
      <4>2. /\ delivered' \in Seq(Nat \X Nat) /\ Len(delivered') = Len(delivered) + 1
            /\ \A i \in 1..Len(delivered) : delivered'[i] = delivered[i]
            /\ delivered'[Len(delivered) + 1] = p
        BY <3>3, <4>1, AppendProperties
      <4>3. QED
        BY <3>3, <4>2, LenProperties DEF p
    <3>7. \A i \in 1..Len(delivered') : i = k \/ i \in 1..Len(delivered)
      <4>1. \A n \in Nat : \A i \in 1..n + 1 : i = n + 1 \/ i \in 1..n
        OBVIOUS
      <4>2. Len(delivered) \in Nat /\ Len(delivered') = Len(delivered) + 1
            /\ k = Len(delivered) + 1
        BY <3>2, <3>6
      <4>3. QED
        BY <4>1, <4>2, Zenon
    <3>8. Shape'
      BY <1>2, <3>6 DEF Shape
    <3>9. Integrity'
      <4>1. Len(delivered') <= Len(emitted)
        BY <3>2, <3>6
      <4>2. ASSUME NEW i \in 1..Len(delivered') PROVE delivered'[i] = <<emitted[i], emitted[i]>>
        <5>1. CASE i = k
          BY <3>2, <3>6, <5>1 DEF e
        <5>2. CASE i # k
          BY <3>6, <3>7, <5>2 DEF Integrity
        <5>3. QED
          BY <5>1, <5>2
      <4>3. QED
        BY <1>2, <4>1, <4>2 DEF Integrity
    <3>10. QED
      BY <3>2, <3>6, <3>8, <3>9 DEF k
  <2>2. CASE At(rd) = Cell("sample", 2) /\ cnt[c] = cnt[rd] /\ At(rd + 1) = Cell("word", 0)
    <3>1. delivered' = delivered /\ emitted' = emitted
      BY <1>2, <1>5, <2>2 DEF Cell
    <3>2. Integrity'
      BY <3>1, Zenon DEF Integrity
    <3>3. Shape'
      BY <1>2, <3>1 DEF Shape
    <3>4. Len(delivered') = cnt[c]
      BY <1>2, <2>2, <3>1
    <3>5. QED
      BY <3>2, <3>3, <3>4
  <2>3. QED
    <3>1. At(rd) # Cell("lost", 3)
      <4>1. At(rd).type = "sample"
        BY <1>2
      <4>2. Cell("lost", 3).type = "lost"
        BY DEF Cell
      <4>3. QED
        BY <4>1, <4>2
    <3>2. QED
      BY <1>3, <2>1, <2>2, <3>1 DEF Record
<1>7. Bounds'
  BY <1>2 DEF Bounds, Reading
<1>8. Progress(cnt)'
  BY <1>2, <1>6 DEF Progress, At, c
<1>9. Chain(B, cnt)'
  BY <1>1, <1>2, ChainUnmoved DEF Chain
<1>10. QED
  BY <1>6, <1>7, <1>8, <1>9 DEF Layout

LEMMA SpanShrinks ==
  ASSUME NEW k \in Nat, NEW t \in Nat, NEW d \in Nat, NEW r \in Nat, NEW z \in Nat,
         t <= d, d <= r, k - t <= z - 1
  PROVE  t <= r /\ k - r <= z - 1
OBVIOUS

LEMMA AdvanceKeeps == RingInv /\ Advance => RingInv'
<1> SUFFICES ASSUME RingInv, Advance PROVE RingInv'
  OBVIOUS
<1> USE DEF RingInv, kernelVars, ioVars
<1>1. PICK B \in SUBSET Nat, cnt \in [Nat -> Nat] : Chain(B, cnt) /\ Progress(cnt)
  BY DEF Layout
<1>2. /\ pc = "advance" /\ pc' = "loop" /\ rec' = rec /\ rec = At(rd) /\ rd < head
      /\ rd' = rd + rec.val /\ tail' = rd' /\ Len(delivered) = cnt[rd']
      /\ UNCHANGED <<khead, cells, emitted, head, delivered, lost, raised>>
  BY <1>1 DEF Advance, Progress, Goto, Bounds, Reading
<1>3. rd' \in B /\ rd' <= head
  BY <1>1, <1>2, NextRecord
<1>4. rd' \in Nat /\ rd' >= rd
  <2>1. rec.val \in {2, 3} /\ rd \in Nat
    BY <1>1, <1>2, NextRecord DEF Shape
  <2>2. rd' = rd + rec.val
    BY <1>2
  <2>3. QED
    BY <2>1, <2>2
<1>5. Shape' /\ Bounds' /\ Integrity'
  <2>1. Shape' /\ Integrity'
    BY <1>2, <1>4 DEF Shape, Integrity
  <2>2. Bounds'
    <3>1. rd \in Nat /\ tail \in Nat /\ head \in Nat /\ khead \in Nat /\ Size \in Nat
      BY RingAssumption DEF RingAssumption, Shape
    <3>2. tail <= rd /\ head <= khead /\ khead - tail <= Size - 1
      BY DEF Bounds
    <3>3. PICK r \in Nat : r = rd' /\ rd <= r
      BY <1>4
    <3>4. khead - r <= Size - 1 /\ tail <= r
      BY <3>1, <3>2, <3>3, SpanShrinks, Zenon
    <3>5. QED
      BY <1>2, <1>3, <3>2, <3>3, <3>4 DEF Bounds, Reading
  <2>3. QED
    BY <2>1, <2>2
<1>6. Progress(cnt)'
  BY <1>2 DEF Progress
<1>7. Chain(B, cnt)'
  <2>1. \A b \in B : rd' <= b => rd <= b
    BY <1>4 DEF Shape
  <2>2. \A b, c, j, k : Record(b, c, j, k) => Record(b, c, j, k)'
    BY <1>2 DEF Record, At
  <2>3. QED
    BY <1>1, <1>2, <1>3, <2>1, <2>2 DEF Chain
<1>8. QED
  BY <1>5, <1>6, <1>7 DEF Layout

\* The other steps of the reader move neither the position nor what was delivered.
LEMMA ReaderKeeps == RingInv /\ Reader => RingInv'
<1> SUFFICES ASSUME RingInv, Reader PROVE RingInv'
  OBVIOUS
<1> USE DEF RingInv, kernelVars, ioVars
<1>1. PICK B \in SUBSET Nat, cnt \in [Nat -> Nat] : Chain(B, cnt) /\ Progress(cnt)
  BY DEF Layout
<1>2. ASSUME UNCHANGED <<rd, tail, kernelVars, delivered>>, Progress(cnt)', pc' \in Reading => rd < head
      PROVE  RingInv'
  <2>1. Chain(B, cnt)'
    <3>1. head' \in B /\ UNCHANGED <<rd, khead, cells, emitted>>
      BY <1>1, <1>2 DEF Chain
    <3>2. QED
      BY <1>1, <3>1, ChainUnmoved
  <2>2. Shape' /\ Bounds' /\ Integrity'
    BY <1>2 DEF Shape, Bounds, Reading, Integrity
  <2>3. QED
    BY <1>2, <2>1, <2>2 DEF Layout
<1>3. CASE Park \/ Readable \/ Recheck \/ Clear \/ Leave \/ Yielded
  <2>1. /\ UNCHANGED <<rd, tail, kernelVars, delivered, rec>>
        /\ pc \notin Reading /\ pc' \notin Reading
    BY <1>3 DEF Park, Readable, Recheck, Clear, Leave, Yielded, Goto, Reading
  <2>2. Progress(cnt)'
    BY <1>1, <2>1 DEF Progress, Reading
  <2>3. QED
    BY <1>2, <2>1, <2>2
<1>4. CASE Check
  <2>1. /\ UNCHANGED <<rd, tail, kernelVars, delivered, rec>> /\ pc = "loop"
        /\ pc' \in {"header", "recheck"} /\ (pc' = "header" => head # rd)
    BY <1>4 DEF Check, Goto
  <2>2. Progress(cnt)'
    BY <1>1, <2>1 DEF Progress
  <2>3. pc' \in Reading => rd < head
    BY <2>1 DEF Bounds, Reading, Shape
  <2>4. QED
    BY <1>2, <2>1, <2>2, <2>3
<1>5. CASE ReadHeader
  <2>1. /\ UNCHANGED <<rd, tail, kernelVars, delivered>> /\ pc = "header" /\ rec' = At(rd)
        /\ pc' = IF At(rd).type = "sample" THEN "sample"
                 ELSE IF At(rd).type = "lost" THEN "lost" ELSE "advance"
    BY <1>5 DEF ReadHeader, Goto, CellAt, At, Shape
  <2>2. rd < head
    BY <2>1 DEF Bounds, Reading
  <2>3. At(rd).type \in {"sample", "lost"}
    BY <1>1, <2>2, NextRecord
  <2>4. Progress(cnt)'
    BY <1>1, <2>1, <2>3 DEF Progress, At
  <2>5. QED
    BY <1>2, <2>1, <2>2, <2>4
<1>6. CASE ReadLost
  <2>1. /\ UNCHANGED <<rd, tail, kernelVars, delivered, rec>> /\ pc = "lost" /\ pc' = "advance"
        /\ rec = At(rd) /\ rec.type = "lost" /\ rd < head /\ Len(delivered) = cnt[rd]
    BY <1>1, <1>6 DEF ReadLost, Goto, Progress, Bounds, Reading
  <2>2. cnt[rd + rec.val] = cnt[rd]
    <3>1. Record(rd, rd + rec.val, cnt[rd], cnt[rd + rec.val])
      BY <1>1, <2>1, NextRecord
    <3>2. At(rd) # Cell("sample", 3) /\ At(rd) # Cell("sample", 2)
      BY <2>1 DEF Cell
    <3>3. QED
      BY <3>1, <3>2 DEF Record
  <2>3. Progress(cnt)'
    BY <2>1, <2>2 DEF Progress, At
  <2>4. QED
    BY <1>2, <2>1, <2>3
<1>7. CASE ReadSample
  BY <1>7, ReadSampleKeeps
<1>8. CASE Advance
  BY <1>8, AdvanceKeeps
<1>9. QED
  BY <1>3, <1>4, <1>5, <1>6, <1>7, <1>8 DEF Reader
-----------------------------------------------------------------------------
(* The steps of the kernel.                                                *)

\* What the kernel writes: the record of a hit, behind the report of what was lost.
Hit(s, users) ==
  \/ \E n \in Nat \ {0} : s = UserSample(n) /\ users = <<n>>
  \/ s = BareSample /\ users = <<>>

Before(s) == IF lost > 0 THEN LostRecord(lost) \o s ELSE s

Gap == IF lost > 0 THEN 3 ELSE 0

\* The hit's own record is where the report ends.
LEMMA BeforeTuple ==
  ASSUME NEW s, lost \in Nat,
         \/ \E a, b : s = <<a, b>>
         \/ \E a, b, c : s = <<a, b, c>>
  PROVE  /\ Len(s) \in {2, 3} /\ Len(Before(s)) = Gap + Len(s)
         /\ lost > 0 => Before(s)[1] = Cell("lost", 3)
         /\ \A k \in 1..Len(s) : Before(s)[Gap + k] = s[k]
<1>1. CASE lost > 0
  <2>1. ASSUME NEW a, NEW b, s = <<a, b>>
        PROVE  /\ Len(Before(s)) = 5 /\ Before(s)[1] = Cell("lost", 3)
               /\ Before(s)[4] = a /\ Before(s)[5] = b
    BY <1>1, <2>1 DEF LostRecord, Before
  <2>2. ASSUME NEW a, NEW b, NEW c, s = <<a, b, c>>
        PROVE  /\ Len(Before(s)) = 6 /\ Before(s)[1] = Cell("lost", 3)
               /\ Before(s)[4] = a /\ Before(s)[5] = b /\ Before(s)[6] = c
    BY <1>1, <2>2 DEF LostRecord, Before
  <2>3. CASE \E a, b : s = <<a, b>>
    <3>1. PICK a, b : s = <<a, b>>
      BY <2>3
    <3>2. QED
      BY <1>1, <2>1, <3>1 DEF Gap
  <2>4. CASE \E a, b, c : s = <<a, b, c>>
    <3>1. PICK a, b, c : s = <<a, b, c>>
      BY <2>4
    <3>2. QED
      BY <1>1, <2>2, <3>1 DEF Gap
  <2>5. QED
    BY <2>3, <2>4
<1>2. CASE ~(lost > 0)
  BY <1>2 DEF Gap, Before
<1>3. QED
  BY <1>1, <1>2

\* The record of a hit, behind n samples that have registers.
LEMMA HitRecord ==
  ASSUME NEW s, NEW users, Hit(s, users), Shape, emitted' = emitted \o users,
         NEW b \in Nat, \A k \in 0..Len(s) - 1 : At(b + k)' = s[k + 1],
         NEW c, NEW m, NEW n, c = b + Len(s), m = Len(emitted), n = Len(emitted')
  PROVE  /\ emitted' \in Seq(Nat) /\ Len(emitted') \in {Len(emitted), Len(emitted) + 1}
         /\ \A i \in 1..Len(emitted) : emitted'[i] = emitted[i]
         /\ Record(b, c, m, n)'
<1> USE DEF Hit
<1>1. emitted \in Seq(Nat) /\ Len(emitted) \in Nat
  BY LenProperties DEF Shape
<1>2. ASSUME NEW h \in Nat \ {0}, s = UserSample(h), users = <<h>>
      PROVE  /\ emitted' \in Seq(Nat) /\ Len(emitted') = Len(emitted) + 1
             /\ \A i \in 1..Len(emitted) : emitted'[i] = emitted[i]
             /\ Record(b, c, m, n)'
  <2>1. users \in Seq(Nat) /\ Len(users) = 1 /\ users[1] = h
    BY <1>2
  <2>2. /\ emitted' \in Seq(Nat) /\ Len(emitted') = Len(emitted) + 1
        /\ \A i \in 1..Len(emitted) + 1 :
             emitted'[i] = IF i <= Len(emitted) THEN emitted[i] ELSE users[i - Len(emitted)]
    <3>1. /\ emitted \o users \in Seq(Nat)
          /\ Len(emitted \o users) = Len(emitted) + Len(users)
          /\ \A i \in 1..Len(emitted) + Len(users) : (emitted \o users)[i] =
                IF i <= Len(emitted) THEN emitted[i] ELSE users[i - Len(emitted)]
      BY <1>1, <2>1, ConcatProperties, ZenonT(60)
    <3>2. QED
      BY <2>1, <3>1
  <2>3. \A i \in 1..Len(emitted) : emitted'[i] = emitted[i]
    BY <1>1, <2>2
  <2>4. emitted'[n] = h
    BY <1>1, <2>1, <2>2
  <2>5. Len(s) = 3 /\ s[1] = Cell("sample", 3) /\ s[2] = Cell("word", h) /\ s[3] = Cell("word", h)
    BY <1>2 DEF UserSample
  <2>6. At(b)' = s[1] /\ At(b + 1)' = s[2] /\ At(b + 2)' = s[3]
    <3>1. At(b + 0)' = s[0 + 1] /\ At(b + 1)' = s[1 + 1] /\ At(b + 2)' = s[2 + 1]
      BY <2>5
    <3>2. b + 0 = b
      OBVIOUS
    <3>3. QED
      BY <3>1, <3>2
  <2>7. QED
    BY <2>2, <2>3, <2>4, <2>5, <2>6 DEF Record
<1>3. CASE s = BareSample /\ users = <<>>
  <2>1. emitted' = emitted
    BY <1>1, <1>3, ConcatEmptySeq
  <2>2. Len(s) = 2 /\ s[1] = Cell("sample", 2) /\ s[2] = Cell("word", 0)
    BY <1>3 DEF BareSample
  <2>3. At(b)' = s[1] /\ At(b + 1)' = s[2]
    <3>1. At(b + 0)' = s[0 + 1] /\ At(b + 1)' = s[1 + 1]
      BY <2>2
    <3>2. b + 0 = b
      OBVIOUS
    <3>3. QED
      BY <3>1, <3>2
  <2>4. QED
    BY <1>1, <2>1, <2>2, <2>3 DEF Record
<1>4. QED
  BY <1>1, <1>2, <1>3
\* A hit that finds room goes behind what is there.
Written(s, users) ==
  /\ HasRoom(Before(s))
  /\ cells' = Store(khead, Before(s)) /\ khead' = khead + Len(Before(s))
  /\ emitted' = emitted \o users /\ lost' = 0 /\ raised' \in Nat
  /\ UNCHANGED <<head, tail, rd, pc, rec, delivered>>

LEMMA WrittenKeeps ==
  ASSUME RingInv, NEW s, NEW users, Hit(s, users), Written(s, users) PROVE RingInv'
<1> USE DEF RingInv
<1>1. PICK len \in {2, 3}, gap \in {0, 3} :
         /\ len = Len(s) /\ Len(Before(s)) = gap + len
         /\ gap # 0 => gap = 3 /\ Before(s)[1] = Cell("lost", 3)
         /\ \A k \in 1..len : Before(s)[gap + k] = s[k]
  <2>1. (\E a, b : s = <<a, b>>) \/ (\E a, b, c : s = <<a, b, c>>)
    BY DEF Hit, UserSample, BareSample
  <2>2. lost \in Nat
    BY DEF Shape
  <2>3. /\ Len(s) \in {2, 3} /\ Len(Before(s)) = Gap + Len(s)
        /\ lost > 0 => Before(s)[1] = Cell("lost", 3)
        /\ \A k \in 1..Len(s) : Before(s)[Gap + k] = s[k]
    BY <2>1, <2>2, BeforeTuple
  <2>4. Gap \in {0, 3} /\ (Gap # 0 => Gap = 3 /\ lost > 0)
    BY DEF Gap
  <2>5. QED
    BY <2>3, <2>4
<1>2. PICK from \in Nat, mid \in Nat, new \in Nat, low \in Nat :
         /\ from = khead /\ mid = from + gap /\ new = mid + len /\ low = tail
         /\ low <= from /\ from <= mid /\ mid < new /\ from < new
         /\ new - low <= Size - 1 /\ khead' = new
  <2>1. khead \in Nat /\ tail \in Nat /\ Size \in Nat /\ tail <= khead
    BY RingAssumption DEF RingAssumption, Shape, Bounds
  <2>2. khead + gap \in Nat /\ (khead + gap) + len \in Nat
    BY <2>1
  <2>3. khead - tail + (gap + len) <= Size - 1 /\ khead' = khead + (gap + len)
    BY <1>1 DEF HasRoom, Written
  <2>4. /\ khead <= khead + gap /\ khead + gap < (khead + gap) + len
        /\ khead < (khead + gap) + len
        /\ ((khead + gap) + len) - tail <= Size - 1 /\ khead' = (khead + gap) + len
    BY <2>1, <2>3
  <2>5. QED
    BY <2>1, <2>2, <2>4
<1>order. low <= from /\ from <= mid /\ mid < new /\ from < new
  BY <1>2
<1>3. ASSUME NEW x \in Nat, low <= x, x < new
      PROVE  At(x)' = IF x < from THEN At(x) ELSE Before(s)[x - from + 1]
  <2>1. Size \in Nat /\ Size >= 8
    BY RingAssumption DEF RingAssumption
  <2>2. gap + len \in 0..Size - 1 /\ x < from + (gap + len) /\ from + (gap + len) <= x + Size
    BY <1>2, <1>3, <2>1
  <2>3. Store(from, Before(s))[x % Size] = IF x < from THEN At(x) ELSE Before(s)[x - from + 1]
    BY <1>1, <2>1, <2>2, StoreWrites
  <2>4. QED
    BY <1>2, <2>3 DEF At, Written
<1>4. ASSUME NEW k \in 0..len - 1 PROVE At(mid + k)' = s[k + 1]
  <2>1. mid + k \in Nat /\ low <= mid + k /\ mid + k < new /\ ~(mid + k < from)
    BY <1>2, <1>4
  <2>2. (mid + k) - from + 1 = gap + (k + 1) /\ k + 1 \in 1..len
    BY <1>2, <1>4
  <2>3. At(mid + k)' = Before(s)[(mid + k) - from + 1]
    BY <1>3, <2>1
  <2>4. QED
    BY <1>1, <2>2, <2>3
<1>5. gap # 0 => At(from)' = Cell("lost", 3) /\ mid = from + 3
  <2>1. from - from + 1 = 1 /\ ~(from < from)
    BY <1>2
  <2>2. At(from)' = Before(s)[1]
    BY <1>2, <1>3, <2>1
  <2>3. QED
    BY <1>1, <1>2, <2>2
<1>6. PICK m \in Nat, n \in Nat :
         /\ m = Len(emitted) /\ n = Len(emitted') /\ m <= n
         /\ emitted' \in Seq(Nat) /\ \A i \in 1..m : emitted'[i] = emitted[i]
         /\ Record(mid, new, m, n)'
  <2>1. Len(emitted) \in Nat
    BY LenProperties DEF Shape
  <2>2. ASSUME NEW m, NEW n, m = Len(emitted), n = Len(emitted')
        PROVE  /\ emitted' \in Seq(Nat) /\ n \in {m, m + 1}
               /\ \A i \in 1..m : emitted'[i] = emitted[i]
               /\ Record(mid, new, m, n)'
    BY <1>1, <1>2, <1>4, <2>2, HitRecord DEF Written
  <2>3. PICK m, n : m = Len(emitted) /\ n = Len(emitted')
    OBVIOUS
  <2>4. m \in Nat /\ n \in {m, m + 1}
    BY <2>1, <2>2, <2>3
  <2>5. m \in Nat /\ n \in Nat /\ m <= n
    BY <2>4
  <2>6. QED
    BY <2>2, <2>3, <2>5
<1>count. m <= n
  BY <1>6
<1>7. PICK B \in SUBSET Nat, cnt \in [Nat -> Nat] : Chain(B, cnt) /\ Progress(cnt)
  BY DEF Layout
<1>8. ASSUME NEW b \in Nat, NEW c \in Nat, NEW j \in Nat, NEW k \in 0..m, low <= b, c <= from,
             Record(b, c, j, k)
      PROVE  Record(b, c, j, k)'
  <2>1. PICK size \in {2, 3} : c = b + size
    BY <1>8, RecordHeader
  <2>2. ASSUME NEW i \in 0..size - 1 PROVE At(b + i)' = At(b + i)
    <3>1. b + i \in Nat /\ low <= b + i /\ b + i < from /\ b + i < new
      BY <1>2, <1>8, <2>1, <2>2
    <3>2. QED
      BY <1>3, <3>1
  <2>3. At(b)' = At(b) /\ At(b + 1)' = At(b + 1) /\ (c = b + 3 => At(b + 2)' = At(b + 2))
    <3>1. 0 \in 0..size - 1 /\ 1 \in 0..size - 1 /\ (c = b + 3 => 2 \in 0..size - 1)
      <4>1. CASE size = 2
        BY <2>1, <4>1
      <4>2. CASE size = 3
        BY <2>1, <4>2
      <4>3. QED
        BY <4>1, <4>2
    <3>2. /\ At(b + 0)' = At(b + 0) /\ At(b + 1)' = At(b + 1)
          /\ c = b + 3 => At(b + 2)' = At(b + 2)
      BY <2>2, <3>1
    <3>3. b + 0 = b
      OBVIOUS
    <3>4. QED
      BY <3>2, <3>3
  <2>4. k = j + 1 => k \in 1..m /\ emitted'[k] = emitted[k]
    BY <1>6, <1>8
  <2>5. QED
    BY <1>8, <2>3, <2>4 DEF Record
<1>9. PICK B2 \in SUBSET Nat, cnt2 \in [Nat -> Nat] :
         /\ B2 = B \cup {mid, new}
         /\ cnt2 = [cnt EXCEPT ![mid] = m, ![new] = n]
  OBVIOUS
<1>10. /\ \A b \in B : b <= from
       /\ \A b \in B : b # new /\ cnt2[b] = cnt[b]
       /\ cnt2[mid] = m /\ cnt2[new] = n
  <2>1. \A b \in B : b <= from
    BY <1>2, <1>7 DEF Chain
  <2>2. cnt[from] = m
    BY <1>2, <1>6, <1>7 DEF Chain
  <2>3. ASSUME NEW b \in B PROVE b # new /\ cnt2[b] = cnt[b]
    <3>1. b # new
      BY <1>2, <2>1
    <3>2. b = mid => b = from
      BY <1>2, <2>1
    <3>3. QED
      BY <1>9, <2>2, <3>1, <3>2
  <2>4. cnt2[mid] = m /\ cnt2[new] = n
    BY <1>2, <1>9
  <2>5. QED
    BY <2>1, <2>3, <2>4
<1>11. ASSUME NEW b \in B2, rd <= b, b < new
       PROVE  \E c \in B2 : Record(b, c, cnt2[b], cnt2[c])' /\ \A d \in B2 : d <= b \/ c <= d
  <2>1. CASE b \in B /\ b < from
    <3>1. PICK c \in B : Record(b, c, cnt[b], cnt[c]) /\ \A d \in B : d <= b \/ c <= d
      BY <1>2, <1>7, <1>11, <2>1 DEF Chain
    <3>2. c <= from /\ low <= b /\ cnt[c] \in 0..m /\ cnt[b] \in Nat
      BY <1>2, <1>6, <1>7, <1>10, <1>11 DEF Chain, Bounds, Shape
    <3>3. Record(b, c, cnt[b], cnt[c])'
      BY <1>8, <2>1, <3>1, <3>2
    <3>4. c <= mid /\ c <= new
      <4>1. c \in Nat
        OBVIOUS
      <4>2. QED
        BY <1>order, <3>2, <4>1
    <3>5. \A d \in B2 : d <= b \/ c <= d
      BY <1>9, <3>1, <3>4
    <3>6. QED
      BY <1>9, <1>10, <2>1, <3>3, <3>5
  <2>2. CASE b = from /\ gap # 0
    <3>1. b \in B /\ cnt2[b] = m
      BY <1>2, <1>6, <1>7, <1>10, <2>2 DEF Chain
    <3>2. Record(b, mid, cnt2[b], cnt2[mid])'
      BY <1>5, <1>10, <2>2, <3>1 DEF Record
    <3>3. mid <= mid /\ mid <= new /\ \A d \in B : d <= b
      BY <1>2, <1>10, <2>2
    <3>4. mid \in B2 /\ \A d \in B2 : d <= b \/ mid <= d
      BY <1>9, <3>3
    <3>5. QED
      BY <3>2, <3>4
  <2>3. CASE b = mid
    <3>1. Record(b, new, cnt2[b], cnt2[new])'
      BY <1>6, <1>10, <2>3
    <3>2. mid <= b /\ new <= new /\ \A d \in B : d <= b
      BY <1>2, <1>10, <2>3
    <3>3. new \in B2 /\ \A d \in B2 : d <= b \/ new <= d
      BY <1>9, <3>2
    <3>4. QED
      BY <3>1, <3>3
  <2>4. QED
    <3>1. b \in B \/ b = mid
      BY <1>9, <1>11
    <3>2. b \in B /\ ~(b < from) => b = from
      BY <1>10, <1>2
    <3>3. gap = 0 => mid = from
      BY <1>2
    <3>4. QED
      BY <2>1, <2>2, <2>3, <3>1, <3>2, <3>3
<1>12. Chain(B2, cnt2)'
  <2>1. rd' \in B2 /\ head' \in B2 /\ khead' \in B2
    BY <1>2, <1>7, <1>9 DEF Chain, Written
  <2>2. ASSUME NEW b \in B2 PROVE b <= new /\ cnt2[b] <= n
    <3>1. CASE b \in B
      <4>1. b \in Nat /\ cnt[b] \in Nat /\ cnt2[b] = cnt[b] /\ b <= from
        BY <1>10, <3>1
      <4>2. cnt[b] <= m
        BY <1>6, <1>7, <3>1 DEF Chain
      <4>3. PICK y \in Nat : y = cnt[b]
        BY <4>1
      <4>4. y <= n
        BY <1>count, <4>2, <4>3
      <4>5. b <= new
        BY <1>order, <4>1
      <4>6. QED
        BY <4>1, <4>3, <4>4, <4>5
    <3>2. mid <= new /\ new <= new /\ n <= n
      BY <1>2
    <3>3. CASE b \notin B
      <4>1. b = mid \/ b = new
        BY <1>9, <3>3
      <4>2. m <= n
        BY <1>count, <1>6
      <4>3. cnt2[mid] <= n /\ cnt2[new] <= n
        BY <1>10, <3>2, <4>2
      <4>4. QED
        BY <3>2, <4>1, <4>3
    <3>4. QED
      BY <3>1, <3>3
  <2>3. cnt2[khead'] = Len(emitted')
    BY <1>2, <1>6, <1>10
  <2>4. QED
    BY <1>2, <1>6, <1>11, <2>1, <2>2, <2>3 DEF Chain, Written
<1>13. Progress(cnt2)'
  <2>1. CASE pc \in Reading
    <3>1. rd < head /\ rd \in Nat /\ low <= rd /\ rd < from
      BY <1>2, <2>1 DEF Bounds, Shape
    <3>2. At(rd)' = At(rd)
      <4>1. PICK r \in Nat : r = rd
        BY <3>1
      <4>2. At(r)' = At(r)
        BY <1>2, <1>3, <3>1, <4>1
      <4>3. QED
        BY <4>1, <4>2 DEF At, Written
    <3>3. rd \in B /\ rd + At(rd).val \in B
      BY <1>7, <3>1, NextRecord DEF Chain
    <3>4. QED
      BY <1>7, <1>10, <3>2, <3>3 DEF Progress, Written
  <2>2. CASE pc \notin Reading
    BY <1>7, <1>10, <2>2 DEF Progress, Reading, Chain, Written
  <2>3. QED
    BY <2>1, <2>2
<1>14. Shape' /\ Bounds' /\ Integrity'
  <2>1. Shape'
    BY <1>2, <1>6 DEF Shape, Written
  <2>2. Bounds'
    <3>1. head <= from
      BY <1>2 DEF Bounds
    <3>2. head \in Nat
      BY DEF Shape
    <3>3. head <= new
      BY <1>2, <3>1, <3>2
    <3>4. QED
      BY <1>2, <3>3 DEF Bounds, Written
  <2>3. Integrity'
    <3>1. Len(delivered) <= m /\ Len(delivered) \in Nat
      BY <1>6, LenProperties DEF Integrity, Shape
    <3>2. \A i \in 1..Len(delivered) : i \in 1..m
      BY <3>1
    <3>3. Len(delivered) <= n
      BY <1>6, <3>1
    <3>4. QED
      BY <1>6, <3>2, <3>3 DEF Integrity, Written
  <2>4. QED
    BY <2>1, <2>2, <2>3
<1>15. QED
  BY <1>9, <1>12, <1>13, <1>14 DEF Layout
LEMMA SampledKeeps ==
  ASSUME RingInv, NEW s, NEW users, Hit(s, users), Sampled(s, users), raised' \in Nat,
         UNCHANGED <<head, exited, ioVars, readerVars>>
  PROVE  RingInv'
<1>1. CASE HasRoom(Before(s))
  <2>1. Written(s, users)
    BY <1>1 DEF Sampled, Before, Written, readerVars
  <2>2. QED
    BY <2>1, WrittenKeeps
<1>2. CASE ~HasRoom(Before(s))
  <2>1. lost' = lost + 1 /\ UNCHANGED <<cells, khead, emitted>>
    BY <1>2 DEF Sampled, Before
  <2>2. Shape' /\ Bounds' /\ Integrity'
    <3>1. Shape'
      BY <2>1 DEF RingInv, Shape, readerVars
    <3>2. Bounds'
      BY <2>1 DEF RingInv, Bounds, readerVars
    <3>3. Integrity'
      BY <2>1 DEF RingInv, Integrity, readerVars
    <3>4. QED
      BY <3>1, <3>2, <3>3
  <2>3. PICK B \in SUBSET Nat, cnt \in [Nat -> Nat] : Chain(B, cnt) /\ Progress(cnt)
    BY DEF RingInv, Layout
  <2>4. Chain(B, cnt)' /\ Progress(cnt)'
    BY <2>1, <2>3 DEF Chain, Progress, Record, At, readerVars
  <2>5. QED
    BY <2>2, <2>4 DEF RingInv, Layout
<1>3. QED
  BY <1>1, <1>2

LEMMA NextRing == RingInv /\ [Next]_vars => RingInv'
<1> SUFFICES ASSUME RingInv, [Next]_vars PROVE RingInv'
  OBVIOUS
<1>1. raised \in Nat
  BY DEF RingInv, Shape
<1>2. CASE HitUser
  <2>1. raised + 1 \in Nat \ {0} /\ Hit(UserSample(raised + 1), <<raised + 1>>)
    BY <1>1 DEF Hit
  <2>2. QED
    BY <1>2, <2>1, SampledKeeps DEF HitUser
<1>3. CASE HitNoRegs
  <2>1. raised + 1 \in Nat /\ Hit(BareSample, <<>>)
    BY <1>1 DEF Hit
  <2>2. QED
    BY <1>3, <2>1, SampledKeeps DEF HitNoRegs
<1>4. PICK B \in SUBSET Nat, cnt \in [Nat -> Nat] : Chain(B, cnt) /\ Progress(cnt)
  BY DEF RingInv, Layout
<1>5. CASE Publish \/ Wake \/ ThreadExit \/ Driver \/ UNCHANGED vars
  <2>1. /\ UNCHANGED <<cells, khead, lost, raised, emitted, readerVars>>
        /\ head' \in {head, khead}
    BY <1>5 DEF Publish, Wake, ThreadExit, Driver, vars, kernelVars
  <2>2. Shape' /\ Bounds' /\ Integrity'
    <3>1. \A h \in {head, khead} :
            h \in Nat /\ rd <= h /\ h <= khead /\ (pc \in Reading => rd < h)
      <4>1. head \in Nat /\ khead \in Nat /\ rd \in Nat
        BY DEF RingInv, Shape
      <4>2. rd <= head /\ head <= khead /\ (pc \in Reading => rd < head)
        BY DEF RingInv, Bounds
      <4>3. rd <= khead /\ khead <= khead /\ (pc \in Reading => rd < khead)
        BY <4>1, <4>2
      <4>4. QED
        BY <4>1, <4>2, <4>3
    <3>2. Shape'
      BY <2>1, <3>1 DEF RingInv, Shape, readerVars
    <3>3. Bounds'
      BY <2>1, <3>1 DEF RingInv, Bounds, readerVars
    <3>4. Integrity'
      BY <2>1 DEF RingInv, Integrity, readerVars
    <3>5. QED
      BY <3>2, <3>3, <3>4
  <2>3. head' \in B
    BY <1>4, <2>1 DEF Chain
  <2>4. Chain(B, cnt)' /\ Progress(cnt)'
    BY <1>4, <2>1, <2>3 DEF Chain, Progress, Record, At, readerVars
  <2>5. QED
    BY <2>2, <2>4 DEF RingInv, Layout
<1>6. CASE Reader
  BY <1>6, ReaderKeeps
<1>7. QED
  BY <1>2, <1>3, <1>5, <1>6 DEF Next, Kernel

LEMMA RingInvariance == Spec => []RingInv
BY InitRing, NextRing, PTL DEF Spec

\* What is handled is what the kernel wrote: whole, in order, once and with nothing left
\* out (perf.rs:113-138, 149-187), wherever records wrap and however many are lost.
THEOREM SamplesAreFaithful == Spec => []Integrity
<1>1. RingInv => Integrity
  BY DEF RingInv
<1>2. QED
  BY <1>1, RingInvariance, PTL

\* The kernel never laps the reader and the reader never passes the kernel
\* (perf.rs:135-136).
THEOREM WriterNeverLaps == Spec => []NeverLapped
<1>1. ASSUME RingInv PROVE NeverLapped
  <2>1. /\ khead \in Nat /\ tail \in Nat /\ rd \in Nat /\ Size \in Nat
        /\ tail <= rd /\ khead - tail <= Size - 1
    BY <1>1, RingAssumption DEF RingAssumption, RingInv, Shape, Bounds
  <2>2. khead - rd < Size
    BY <2>1
  <2>3. QED
    BY <1>1, <2>2 DEF RingInv, Bounds, Reading, NeverLapped
<1>2. QED
  BY <1>1, RingInvariance, PTL

-----------------------------------------------------------------------------
(* The reader as the task of a watch (RingTask.tla): what each step of     *)
(* Watch is in terms of the ring.                                          *)

LEMMA Put ==
  ASSUME NEW old, NEW new
  PROVE  [OfThread(old) EXCEPT ![TheWatch][TheThread] = new] = OfThread(new)
BY DEF OfThread, Of

LEMMA Get == ASSUME NEW value PROVE OfThread(value)[TheWatch][TheThread] = value
BY DEF OfThread, Of

\* What Watch sees of the ring and its reader.
LEMMA Unseen == UNCHANGED <<exited, closed, Place, Records, Unread>> => UNCHANGED Task!vars
BY DEF Task!vars, Task!threadVars, Task!startVars, Task!stopVars, Task!taskVars, OfThread, Of

LEMMA AsThreadExit ==
  ASSUME ~exited, exited', UNCHANGED <<closed, Place, Records, Unread>>
  PROVE  Task!Next
<1>1. Task!ThreadExit(TheThread)
  BY DEF Task!ThreadExit, OfThread, Of, Task!startVars, Task!stopVars, Task!taskVars
<1>2. QED
  BY <1>1 DEF Task!Next, Task!Env

LEMMA AsSeeExit ==
  ASSUME exited, closed = FALSE, closed' = TRUE, UNCHANGED <<exited, Place, Records, Unread>>
  PROVE  Task!Next
<1>1. Task!SeeExit(TheWatch, TheThread)
  BY DEF Task!SeeExit, Task!Exited, OfThread, Of, Task!startVars, Task!stopVars, Task!taskVars
<1>2. QED
  BY <1>1 DEF Task!Next, Task!Env

LEMMA AsFire ==
  ASSUME ~exited, NEW records \in 1..2, Unread \in Nat, Unread + records <= Size,
         Unread' = Unread + records, UNCHANGED <<exited, closed, Place, Records>>
  PROVE  Task!Next
<1>1. OfThread(Unread)[TheWatch][TheThread] = Unread
  BY Get
<1>2. OfThread(Unread)' = [OfThread(Unread) EXCEPT ![TheWatch][TheThread] = Unread + records]
  BY Put DEF OfThread, Of
<1>3. UNCHANGED <<OfThread(Place), OfThread(Records), OfThread(0), Task!threadVars,
                  Task!startVars, Task!stopVars, Of("running"), Of({TheThread})>>
  BY DEF OfThread, Of, Task!threadVars, Task!startVars, Task!stopVars
<1>4. [t \in {TheThread} |-> IF exited THEN "dead" ELSE "alive"][TheThread] = "alive"
      /\ TheThread \in Of({TheThread})[TheWatch]
  BY DEF Of
<1>5. Task!Fire(TheWatch, TheThread)
  BY <1>1, <1>2, <1>3, <1>4 DEF Task!Fire
<1>6. QED
  BY <1>5 DEF Task!Next, Task!Env

LEMMA AsPoll ==
  ASSUME Place = "queued", Place' = "wait", UNCHANGED <<exited, closed, Records, Unread>>
  PROVE  Task!Next
<1>1. Task!Poll(TheWatch, TheThread)
  BY Put, Get DEF Task!Poll, Task!Goto, OfThread, Of, Task!threadVars, Task!startVars, Task!stopVars
<1>2. QED
  BY <1>1 DEF Task!Next, Task!TaskStep

LEMMA AsPark ==
  ASSUME Place = "wait", closed = FALSE, Place' = "parked",
         UNCHANGED <<exited, closed, Records, Unread>>
  PROVE  Task!Next
<1>1. Task!Park(TheWatch, TheThread)
  BY Put, Get DEF Task!Park, Task!Goto, OfThread, Of, Task!threadVars, Task!startVars, Task!stopVars
<1>2. QED
  BY <1>1 DEF Task!Next, Task!TaskStep

\* Woken for a sample, for the end of the thread, or for a sample it has read.
LEMMA AsReadable ==
  ASSUME Place \in {"wait", "parked"}, Place' = "loop", Records' = 0,
         UNCHANGED <<exited, closed, Unread>>
  PROVE  Task!Next
<1>1. Task!EnterLoop(TheWatch, TheThread)
  BY Put, Get DEF Task!EnterLoop, Task!Goto, OfThread, Of, Task!threadVars, Task!startVars, Task!stopVars
<1>2. OfThread(Place)[TheWatch][TheThread] = Place /\ TheThread \notin Of({})[TheWatch]
  BY Get DEF Of
<1>3. CASE Place = "wait"
  <2>1. Task!Readable(TheWatch, TheThread)
    BY <1>1, <1>2, <1>3 DEF Task!Readable
  <2>2. QED
    BY <2>1 DEF Task!Next, Task!TaskStep
<1>4. CASE Place = "parked"
  <2>1. Task!StaleWake(TheWatch, TheThread)
    BY <1>1, <1>2, <1>4 DEF Task!StaleWake
  <2>2. QED
    BY <2>1 DEF Task!Next, Task!Env
<1>5. QED
  BY <1>3, <1>4

LEMMA AsTakeSample ==
  ASSUME Place = "loop", Unread > 0, Records < Batch, Place' = "took",
         Unread' = Unread - 1, Records' = Records + 1, UNCHANGED <<exited, closed>>
  PROVE  Task!Next
<1>1. /\ OfThread(Place)[TheWatch][TheThread] = Place
      /\ OfThread(Unread)[TheWatch][TheThread] = Unread
      /\ OfThread(Records)[TheWatch][TheThread] = Records
  BY Get
<1>2. /\ OfThread(Place)' = [OfThread(Place) EXCEPT ![TheWatch][TheThread] = "took"]
      /\ OfThread(Unread)' = [OfThread(Unread) EXCEPT ![TheWatch][TheThread] = Unread - 1]
      /\ OfThread(Records)' = [OfThread(Records) EXCEPT ![TheWatch][TheThread] = Records + 1]
  BY Put DEF OfThread, Of
<1>3. UNCHANGED <<Task!threadVars, Task!startVars, Task!stopVars, Of("running"),
                  Of({TheThread}), OfThread(0)>>
  BY DEF OfThread, Of, Task!threadVars, Task!startVars, Task!stopVars
<1>4. Task!TakeSample(TheWatch, TheThread)
  BY <1>1, <1>2, <1>3 DEF Task!TakeSample, Task!Goto
<1>5. QED
  BY <1>4 DEF Task!Next, Task!TaskStep

LEMMA AsCheckCancel ==
  ASSUME Place = "took", Place' \in {"loop", "handle"},
         UNCHANGED <<exited, closed, Records, Unread>>
  PROVE  Task!Next
<1>1. Task!CheckCancel(TheWatch, TheThread)
  BY Put, Get DEF Task!CheckCancel, Task!Goto, OfThread, Of, Task!threadVars, Task!startVars,
                  Task!stopVars
<1>2. QED
  BY <1>1 DEF Task!Next, Task!TaskStep

LEMMA AsHandle ==
  ASSUME Place = "handle", Place' = "loop", UNCHANGED <<exited, closed, Records, Unread>>
  PROVE  Task!Next
<1>1. Task!Handle(TheWatch, TheThread)
  BY Put, Get DEF Task!Handle, Task!Goto, OfThread, Of, Task!threadVars, Task!startVars,
                  Task!stopVars
<1>2. QED
  BY <1>1 DEF Task!Next

LEMMA AsLeaveLoop ==
  ASSUME Place = "loop", Records' = 0, UNCHANGED <<exited, closed, Unread>>,
         \/ Records = Batch /\ Place' = "queued"
         \/ Records < Batch /\ Unread = 0 /\ Place' = "wait"
  PROVE  Task!Next
<1>1. /\ OfThread(Place)[TheWatch][TheThread] = Place
      /\ OfThread(Unread)[TheWatch][TheThread] = Unread
      /\ OfThread(Records)[TheWatch][TheThread] = Records
  BY Get
<1>2. /\ OfThread(Place)' = [OfThread(Place) EXCEPT ![TheWatch][TheThread] = Place']
      /\ OfThread(Records)' = [OfThread(Records) EXCEPT ![TheWatch][TheThread] = 0]
  BY Put DEF OfThread, Of
<1>3. UNCHANGED <<Task!threadVars, Task!startVars, Task!stopVars, Of("running"),
                  Of({TheThread}), OfThread(0), OfThread(Unread)>>
  BY DEF OfThread, Of, Task!threadVars, Task!startVars, Task!stopVars
<1>4. Task!LeaveLoop(TheWatch, TheThread)
  BY <1>1, <1>2, <1>3 DEF Task!LeaveLoop, Task!Goto
<1>5. QED
  BY <1>4 DEF Task!Next, Task!TaskStep

-----------------------------------------------------------------------------
(* Where records begin.                                                    *)

\* What leads the reader from one record to the next leads it past no other.
Whole ==
  \A x \in rd..khead - 1 : At(x).type \in {"sample", "lost"} =>
    /\ At(x).val \in {2, 3} /\ x + At(x).val <= khead
    /\ \A k \in 1..At(x).val - 1 : At(x + k).type = "word"

\* Before the kernel publishes, there are one or two records the reader cannot see.
TaskInv ==
  /\ processed \in 0..Batch
  /\ pc \in Reading => processed < Batch
  /\ kpc # "idle" => ~exited
  /\ kpc # "written" => head = khead
  /\ kpc = "written" => Headers(head, khead) \in {{head}, {head, head + 3}}
  /\ Whole

LEMMA InitTask == Init => TaskInv
BY RingAssumption DEF RingAssumption, Init, TaskInv, Reading, Whole

\* The report of lost samples and the record behind it, cell by cell.
LEMMA BeforeCells ==
  ASSUME NEW s, lost > 0
  PROVE  /\ \A a, b : s = <<a, b>> =>
              /\ Len(Before(s)) = 5 /\ Before(s)[1] = Cell("lost", 3)
              /\ Before(s)[2] = Cell("word", EventId) /\ Before(s)[3] = Cell("word", lost)
              /\ Before(s)[4] = a /\ Before(s)[5] = b
         /\ \A a, b, c : s = <<a, b, c>> =>
              /\ Len(Before(s)) = 6 /\ Before(s)[1] = Cell("lost", 3)
              /\ Before(s)[2] = Cell("word", EventId) /\ Before(s)[3] = Cell("word", lost)
              /\ Before(s)[4] = a /\ Before(s)[5] = b /\ Before(s)[6] = c
<1>1. ASSUME NEW a, NEW b, s = <<a, b>>
      PROVE  /\ Len(Before(s)) = 5 /\ Before(s)[1] = Cell("lost", 3)
             /\ Before(s)[2] = Cell("word", EventId) /\ Before(s)[3] = Cell("word", lost)
             /\ Before(s)[4] = a /\ Before(s)[5] = b
  BY <1>1 DEF LostRecord, Before
<1>2. ASSUME NEW a, NEW b, NEW c, s = <<a, b, c>>
      PROVE  /\ Len(Before(s)) = 6 /\ Before(s)[1] = Cell("lost", 3)
             /\ Before(s)[2] = Cell("word", EventId) /\ Before(s)[3] = Cell("word", lost)
             /\ Before(s)[4] = a /\ Before(s)[5] = b /\ Before(s)[6] = c
  BY <1>2 DEF LostRecord, Before
<1>3. QED
  BY <1>1, <1>2

\* One record, or a report of lost samples and one record; the words of neither are headers.
OneRecord(s) ==
  /\ Len(s) \in {2, 3}
  /\ s[1].type \in {"sample", "lost"} /\ s[1].val = Len(s)
  /\ \A k \in 2..Len(s) : s[k].type = "word"

TwoRecords(s) ==
  /\ Len(s) \in {5, 6}
  /\ s[1].type = "lost" /\ s[1].val = 3
  /\ s[4].type = "sample" /\ s[4].val = Len(s) - 3
  /\ \A k \in 2..Len(s) : k # 4 => s[k].type = "word"

LEMMA BeforeWords ==
  ASSUME NEW s, NEW users, Hit(s, users), lost \in Nat
  PROVE  OneRecord(Before(s)) \/ TwoRecords(Before(s))
<1>1. ASSUME lost > 0, NEW n, s = UserSample(n) PROVE TwoRecords(Before(s))
  <2>1. /\ Len(Before(s)) = 6 /\ Before(s)[1] = Cell("lost", 3)
        /\ Before(s)[2] = Cell("word", EventId) /\ Before(s)[3] = Cell("word", lost)
        /\ Before(s)[4] = Cell("sample", 3)
        /\ Before(s)[5] = Cell("word", n) /\ Before(s)[6] = Cell("word", n)
    BY <1>1, BeforeCells DEF UserSample
  <2>2. \A k \in 2..6 : k = 2 \/ k = 3 \/ k = 4 \/ k = 5 \/ k = 6
    OBVIOUS
  <2>3. QED
    BY <2>1, <2>2 DEF TwoRecords, Cell
<1>2. ASSUME lost > 0, s = BareSample PROVE TwoRecords(Before(s))
  <2>1. /\ Len(Before(s)) = 5 /\ Before(s)[1] = Cell("lost", 3)
        /\ Before(s)[2] = Cell("word", EventId) /\ Before(s)[3] = Cell("word", lost)
        /\ Before(s)[4] = Cell("sample", 2) /\ Before(s)[5] = Cell("word", 0)
    BY <1>2, BeforeCells DEF BareSample
  <2>2. \A k \in 2..5 : k = 2 \/ k = 3 \/ k = 4 \/ k = 5
    OBVIOUS
  <2>3. QED
    BY <2>1, <2>2 DEF TwoRecords, Cell
<1>3. ASSUME NEW n PROVE OneRecord(UserSample(n))
  BY DEF OneRecord, UserSample, Cell
<1>4. OneRecord(BareSample)
  BY DEF OneRecord, BareSample, Cell
<1>5. CASE lost > 0
  BY <1>1, <1>2, <1>5 DEF Hit
<1>6. CASE ~(lost > 0)
  BY <1>3, <1>4, <1>6 DEF Hit, Before
<1>7. QED
  BY <1>5, <1>6

\* A hit that finds room leaves what the reader may still read alone.
LEMMA WrittenCells ==
  ASSUME RingInv, NEW s, NEW users, Hit(s, users), Written(s, users),
         NEW from \in Nat, from = khead
  PROVE  /\ \A x \in rd..from - 1 : At(x)' = At(x)
         /\ \A k \in 1..Len(Before(s)) : At(from + k - 1)' = Before(s)[k]
<1> DEFINE n == Len(Before(s))
<1>1. n \in 2..6
  BY BeforeWords DEF RingInv, Shape, OneRecord, TwoRecords
<1>2. /\ rd \in Nat /\ tail \in Nat /\ Size \in Nat /\ Size >= 8
      /\ tail <= rd /\ rd <= from /\ from - tail + n <= Size - 1
  BY RingAssumption DEF RingAssumption, RingInv, Shape, Bounds, Written, HasRoom
<1> HIDE DEF n
<1>3. ASSUME NEW x \in Nat, rd <= x, x < from + n
      PROVE  At(x)' = IF x < from THEN At(x) ELSE Before(s)[x - from + 1]
  <2>1. n \in 0..Size - 1 /\ from + n <= x + Size
    BY <1>1, <1>2, <1>3
  <2>2. Store(from, Before(s))[x % Size] = IF x < from THEN At(x) ELSE Before(s)[x - from + 1]
    BY <1>2, <1>3, <2>1, StoreWrites DEF n
  <2>3. QED
    BY <2>2 DEF At, Written
<1>4. ASSUME NEW x \in rd..from - 1 PROVE At(x)' = At(x)
  BY <1>1, <1>2, <1>3
<1>5. ASSUME NEW k \in 1..n PROVE At(from + k - 1)' = Before(s)[k]
  <2>1. /\ from + k - 1 \in Nat /\ rd <= from + k - 1 /\ from + k - 1 < from + n
        /\ ~(from + k - 1 < from) /\ from + k - 1 - from + 1 = k
    BY <1>1, <1>2
  <2>2. QED
    BY <1>3, <2>1
<1>6. QED
  BY <1>4, <1>5 DEF n


\* A header holds a kind of record, whatever else is in the ring.
IsHeader(x) == At(x).type \in {"sample", "lost"}

LEMMA HeadersAt == \A from, to : Headers(from, to) = {x \in from..to - 1 : IsHeader(x)}
BY DEF Headers, IsHeader, At

\* A hit that finds room adds one header to those the kernel has written, or two, and a
\* record that is whole behind each.
LEMMA WrittenTask ==
  ASSUME RingInv, TaskInv, NEW s, NEW users, Hit(s, users), Written(s, users),
         NEW from \in Nat, from = khead
  PROVE  /\ Whole' /\ Headers(from, khead)' \in {{from}, {from, from + 3}}
         /\ \A x \in rd..from - 1 : IsHeader(x)' = IsHeader(x)
<1>1. /\ \A x \in rd..from - 1 : At(x)' = At(x)
      /\ \A k \in 1..Len(Before(s)) : At(from + k - 1)' = Before(s)[k]
  BY WrittenCells
<1>2. PICK n \in 2..6 : n = Len(Before(s)) /\ khead' = from + n
  <2>1. Len(Before(s)) \in 2..6
    BY BeforeWords DEF RingInv, Shape, OneRecord, TwoRecords
  <2>2. QED
    BY <2>1 DEF Written
<1>3. rd \in Nat /\ rd <= from /\ rd' = rd
  BY DEF RingInv, Shape, Bounds, Written
<1>4. OneRecord(Before(s)) \/ TwoRecords(Before(s))
  BY BeforeWords DEF RingInv, Shape
<1>5. ASSUME NEW k \in 1..n PROVE At(from + k - 1)' = Before(s)[k]
  BY <1>1, <1>2
<1>6. \A x \in from..from + n - 1 : x - from + 1 \in 1..n /\ from + (x - from + 1) - 1 = x
  OBVIOUS
<1>7. ASSUME NEW x \in from..from + n - 1 PROVE At(x)' = Before(s)[x - from + 1]
  BY <1>5, <1>6
<1>8. ASSUME NEW x \in rd..from - 1, IsHeader(x)'
      PROVE  /\ At(x).val' \in {2, 3} /\ x + At(x).val' <= from + n
             /\ \A k \in 1..At(x).val' - 1 : At(x + k)'.type = "word"
  <2>1. At(x)' = At(x) /\ IsHeader(x)
    BY <1>1, <1>8 DEF IsHeader
  <2>2. /\ At(x).val \in {2, 3} /\ x + At(x).val <= from
        /\ \A k \in 1..At(x).val - 1 : At(x + k).type = "word"
    BY <2>1 DEF TaskInv, Whole, IsHeader
  <2>3. ASSUME NEW k \in 1..At(x).val - 1 PROVE At(x + k)'.type = "word"
    <3>1. x + k \in rd..from - 1
      BY <1>3, <2>2
    <3>2. PICK y \in rd..from - 1 : y = x + k
      BY <3>1
    <3>3. QED
      BY <1>1, <2>2, <3>2
  <2>4. x + At(x).val <= from + n
    BY <1>3, <2>2
  <2>5. QED
    BY <2>1, <2>2, <2>3, <2>4
<1>9. ASSUME NEW here \in SUBSET (from..from + n - 1),
             \A x \in from..from + n - 1 : IsHeader(x)' <=> x \in here,
             \A x \in here :
               /\ At(x).val' \in {2, 3} /\ x + At(x).val' <= from + n
               /\ \A k \in 1..At(x).val' - 1 : x + k \in (from..from + n - 1) \ here
                                               /\ At(x + k)'.type = "word"
      PROVE  Whole' /\ Headers(from, khead)' = here
  <2>1. Headers(from, khead)' = here
    <3>1. Headers(from, khead)' = {x \in from..from + n - 1 : IsHeader(x)'}
      BY <1>2 DEF Headers, IsHeader, At
    <3>2. {x \in from..from + n - 1 : IsHeader(x)'} = here
      BY <1>9
    <3>3. QED
      BY <3>1, <3>2
  <2>2. ASSUME NEW x \in rd..from + n - 1, IsHeader(x)'
        PROVE  /\ At(x).val' \in {2, 3} /\ x + At(x).val' <= from + n
               /\ \A k \in 1..At(x).val' - 1 : At(x + k)'.type = "word"
    <3>1. CASE x \in rd..from - 1
      BY <1>8, <2>2, <3>1
    <3>2. CASE x \in from..from + n - 1
      BY <1>9, <2>2, <3>2
    <3>3. QED
      BY <1>3, <3>1, <3>2
  <2>3. Whole'
    BY <1>2, <1>3, <2>2 DEF Whole, IsHeader
  <2>4. QED
    BY <2>1, <2>3
<1>10. ASSUME NEW x \in from..from + n - 1
       PROVE  \E k \in 1..n : x = from + k - 1 /\ At(x)' = Before(s)[k]
  BY <1>6, <1>7
<1>first. from + 1 - 1 = from
  OBVIOUS
<1>11. CASE OneRecord(Before(s))
  <2>1. ASSUME NEW x \in from..from + n - 1 PROVE IsHeader(x)' <=> x \in {from}
    <3>1. PICK k \in 1..n : x = from + k - 1 /\ At(x)' = Before(s)[k]
      BY <1>10
    <3>2. k # 1 => k \in 2..n
      OBVIOUS
    <3>3. QED
      BY <1>2, <1>11, <3>1, <3>2 DEF OneRecord, IsHeader
  <2>2. At(from)' = Before(s)[1] /\ At(from).val' = n
    BY <1>2, <1>5, <1>first, <1>11 DEF OneRecord
  <2>3. ASSUME NEW k \in 1..n - 1
        PROVE  from + k \in (from..from + n - 1) \ {from} /\ At(from + k)'.type = "word"
    <3>1. k + 1 \in 2..n /\ from + (k + 1) - 1 = from + k
      OBVIOUS
    <3>2. At(from + k)' = Before(s)[k + 1]
      BY <1>5, <3>1
    <3>3. QED
      BY <1>2, <1>11, <3>1, <3>2 DEF OneRecord
  <2>4. n \in {2, 3}
    BY <1>2, <1>11 DEF OneRecord
  <2>5. Whole' /\ Headers(from, khead)' = {from}
    <3>1. ASSUME NEW x \in {from}
          PROVE  /\ At(x).val' \in {2, 3} /\ x + At(x).val' <= from + n
                 /\ \A k \in 1..At(x).val' - 1 : /\ x + k \in (from..from + n - 1) \ {from}
                                                  /\ At(x + k)'.type = "word"
      BY <2>2, <2>3, <2>4
    <3>2. {from} \in SUBSET (from..from + n - 1)
      OBVIOUS
    <3>3. QED
      BY <1>9, <2>1, <3>1, <3>2
  <2>6. QED
    BY <1>1, <2>5 DEF IsHeader
<1>12. CASE TwoRecords(Before(s))
  <2>1. n \in {5, 6}
    BY <1>2, <1>12 DEF TwoRecords
  <2>2. ASSUME NEW x \in from..from + n - 1 PROVE IsHeader(x)' <=> x \in {from, from + 3}
    <3>1. PICK k \in 1..n : x = from + k - 1 /\ At(x)' = Before(s)[k]
      BY <1>10
    <3>2. k = 1 \/ k = 4 \/ (k \in 2..n /\ k # 4)
      OBVIOUS
    <3>3. x \in {from, from + 3} <=> k \in {1, 4}
      BY <3>1
    <3>4. QED
      BY <1>2, <1>12, <3>1, <3>2, <3>3 DEF TwoRecords, IsHeader
  <2>3. At(from)' = Before(s)[1] /\ At(from).val' = 3
    BY <1>2, <1>5, <1>first, <1>12 DEF TwoRecords
  <2>4. At(from + 3)' = Before(s)[4] /\ At(from + 3).val' = n - 3
    <3>1. from + 4 - 1 = from + 3 /\ 4 \in 1..n
      BY <2>1
    <3>2. At(from + 3)' = Before(s)[4]
      BY <1>5, <3>1
    <3>3. QED
      BY <1>2, <1>12, <3>2 DEF TwoRecords
  <2>5. ASSUME NEW k \in 2..n, k # 4 PROVE At(from + k - 1)'.type = "word"
    BY <1>2, <1>5, <1>12, <2>5 DEF TwoRecords
  <2>6. ASSUME NEW x \in {from, from + 3}
        PROVE  /\ At(x).val' \in {2, 3} /\ x + At(x).val' <= from + n
               /\ \A k \in 1..At(x).val' - 1 :
                    /\ x + k \in (from..from + n - 1) \ {from, from + 3}
                    /\ At(x + k)'.type = "word"
    <3>1. CASE x = from
      <4>1. ASSUME NEW k \in 1..2
            PROVE  from + k \in (from..from + n - 1) \ {from, from + 3} /\ At(from + k)'.type = "word"
        <5>1. k + 1 \in 2..n /\ k + 1 # 4 /\ from + (k + 1) - 1 = from + k
          BY <2>1
        <5>2. QED
          BY <2>1, <2>5, <5>1
      <4>2. QED
        BY <2>1, <2>3, <3>1, <4>1
    <3>2. CASE x = from + 3
      <4>1. ASSUME NEW k \in 1..n - 3 - 1
            PROVE  /\ (from + 3) + k \in (from..from + n - 1) \ {from, from + 3}
                   /\ At((from + 3) + k)'.type = "word"
        <5>1. k + 4 \in 2..n /\ k + 4 # 4 /\ from + (k + 4) - 1 = (from + 3) + k
          BY <2>1
        <5>2. QED
          BY <2>1, <2>5, <5>1
      <4>2. n - 3 \in {2, 3} /\ (from + 3) + (n - 3) <= from + n
        BY <2>1
      <4>3. QED
        BY <2>4, <3>2, <4>1, <4>2
    <3>3. QED
      BY <3>1, <3>2
  <2>7. {from, from + 3} \in SUBSET (from..from + n - 1)
    BY <2>1
  <2>8. Whole' /\ Headers(from, khead)' = {from, from + 3}
    BY <1>9, <2>2, <2>6, <2>7
  <2>9. QED
    BY <1>1, <2>8 DEF IsHeader
<1>13. QED
  BY <1>4, <1>11, <1>12


\* The record the reader is at, and where it leads.
LEMMA AtRecord ==
  ASSUME RingInv, rd < head
  PROVE  IsHeader(rd) /\ At(rd).val \in {2, 3} /\ rd + At(rd).val <= head
BY NextRecord DEF RingInv, Layout, IsHeader

LEMMA HeldRecord == RingInv /\ pc \in {"sample", "lost", "advance"} => rec = At(rd) /\ rd < head
BY DEF RingInv, Layout, Progress, Bounds, Reading

\* A hit either finds room or leaves everything but the count of lost samples.
LEMMA HitEither ==
  ASSUME RingInv, HitUser \/ HitNoRegs
  PROVE  /\ kpc = "idle" /\ ~exited /\ UNCHANGED <<head, exited, ioVars, readerVars>>
         /\ \/ /\ kpc' = "written"
               /\ \E s, users : Hit(s, users) /\ Written(s, users)
            \/ UNCHANGED <<cells, khead, kpc>>
<1>1. raised + 1 \in Nat \ {0}
  BY DEF RingInv, Shape
<1>2. ASSUME NEW s, NEW users, Hit(s, users), Sampled(s, users), raised' \in Nat,
             UNCHANGED <<head, readerVars>>
      PROVE  \/ kpc' = "written" /\ Hit(s, users) /\ Written(s, users)
             \/ UNCHANGED <<cells, khead, kpc>>
  BY <1>2 DEF Sampled, Written, Before, readerVars
<1>3. CASE HitUser
  <2>1. Hit(UserSample(raised + 1), <<raised + 1>>)
    BY <1>1 DEF Hit
  <2>2. QED
    BY <1>1, <1>2, <1>3, <2>1 DEF HitUser
<1>4. CASE HitNoRegs
  <2>1. Hit(BareSample, <<>>)
    BY DEF Hit
  <2>2. QED
    BY <1>1, <1>2, <1>4, <2>1 DEF HitNoRegs
<1>5. QED
  BY <1>3, <1>4

\* Where the ring does not change, it is still whole from wherever the reader gets to.
LEMMA StillWhole ==
  ASSUME TaskInv, UNCHANGED <<cells, khead>>, rd \in Nat, NEW r \in Nat, r = rd', rd <= r
  PROVE  Whole'
<1>1. ASSUME NEW x \in r..khead - 1 PROVE x \in rd..khead - 1
  OBVIOUS
<1>2. QED
  BY <1>1 DEF TaskInv, Whole, At

LEMMA NextTask == Inv /\ RingInv /\ TaskInv /\ [Next]_vars => TaskInv'
<1> SUFFICES ASSUME Inv, RingInv, TaskInv, [Next]_vars PROVE TaskInv'
  OBVIOUS
<1>rd. rd \in Nat /\ rd <= rd
  BY DEF RingInv, Shape
<1>1. CASE HitUser \/ HitNoRegs
  <2>1. /\ kpc = "idle" /\ ~exited /\ UNCHANGED <<head, exited, ioVars, readerVars>>
        /\ \/ /\ kpc' = "written"
              /\ \E s, users : Hit(s, users) /\ Written(s, users)
           \/ UNCHANGED <<cells, khead, kpc>>
    BY <1>1, HitEither
  <2>2. processed' \in 0..Batch /\ (pc' \in Reading => processed' < Batch)
    BY <2>1 DEF TaskInv, readerVars
  <2>3. CASE kpc' = "written" /\ \E s, users : Hit(s, users) /\ Written(s, users)
    <3>1. PICK s, users : Hit(s, users) /\ Written(s, users)
      BY <2>3
    <3>2. PICK from \in Nat : from = khead
      BY DEF RingInv, Shape
    <3>3. Whole' /\ Headers(from, khead)' \in {{from}, {from, from + 3}}
      BY <3>1, <3>2, WrittenTask
    <3>4. head' = from
      BY <2>1, <3>2 DEF TaskInv
    <3>5. Headers(head, khead)' \in {{head}, {head, head + 3}}'
      BY <3>3, <3>4 DEF Headers
    <3>6. QED
      BY <2>1, <2>2, <2>3, <3>3, <3>5 DEF TaskInv
  <2>4. CASE UNCHANGED <<cells, khead, kpc>>
    <3>1. Whole'
      BY <1>rd, <2>1, <2>4, StillWhole DEF readerVars
    <3>2. QED
      BY <2>1, <2>2, <2>4, <3>1 DEF TaskInv
  <2>5. QED
    BY <2>1, <2>3, <2>4
<1>2. CASE Publish
  <2>1. /\ kpc' = "published" /\ ~exited' /\ head' = khead' /\ UNCHANGED <<cells, khead, readerVars>>
    BY <1>2 DEF Publish, TaskInv
  <2>2. Whole'
    BY <1>rd, <2>1, StillWhole DEF readerVars
  <2>3. QED
    BY <2>1, <2>2 DEF TaskInv, readerVars
<1>3. CASE Wake \/ ThreadExit \/ Driver \/ UNCHANGED vars
  <2>1. /\ UNCHANGED <<cells, head, khead, readerVars>>
        /\ kpc' # "idle" => kpc = kpc' /\ exited' = exited
        /\ kpc' = "written" => kpc = "written"
        /\ kpc' # "written" => kpc # "written"
    BY <1>3 DEF Wake, ThreadExit, Driver, vars, kernelVars
  <2>2. Whole'
    BY <1>rd, <2>1, StillWhole DEF readerVars
  <2>3. Headers(head, khead)' = Headers(head, khead)
    BY <2>1 DEF Headers
  <2>4. QED
    BY <2>1, <2>2, <2>3 DEF TaskInv, readerVars
<1>4. CASE Reader
  <2>1. UNCHANGED <<cells, head, khead, kpc, exited>>
    BY <1>4 DEF Reader, Park, Readable, Check, ReadHeader, ReadSample, ReadLost, Advance,
                Recheck, Clear, Leave, Yielded, kernelVars
  <2>2. Headers(head, khead)' = Headers(head, khead)
    BY <2>1 DEF Headers
  <2>3. CASE Advance
    <3>1. /\ rd' = rd + At(rd).val /\ At(rd).val \in {2, 3}
          /\ processed' = processed + 1 /\ processed < Batch /\ pc' = "loop"
      BY <2>3, HeldRecord, AtRecord DEF Advance, Goto, TaskInv, Reading
    <3>2. rd' \in Nat /\ rd <= rd'
      BY <1>rd, <3>1
    <3>3. Whole'
      BY <1>rd, <2>1, <3>2, StillWhole
    <3>4. processed' \in 0..Batch
      BY <3>1, RingAssumption DEF TaskInv, RingAssumption
    <3>5. QED
      BY <2>1, <2>2, <3>1, <3>3, <3>4 DEF TaskInv, Reading
  <2>4. CASE ~Advance
    <3>1. /\ rd' = rd /\ processed' \in 0..Batch
          /\ pc' \in Reading => processed' < Batch
      BY <1>4, <2>4, RingAssumption
         DEF Reader, Park, Readable, Check, ReadHeader, ReadSample, ReadLost, Recheck, Clear,
             Leave, Yielded, Goto, TaskInv, Reading, RingAssumption
    <3>2. Whole'
      BY <1>rd, <2>1, <3>1, StillWhole
    <3>3. QED
      BY <2>1, <2>2, <3>1, <3>2 DEF TaskInv
  <2>5. QED
    BY <2>3, <2>4
<1>5. QED
  BY <1>1, <1>2, <1>3, <1>4 DEF Next, Kernel


(* How many records there are to read.                                     *)

LEMMA HeadersCount ==
  ASSUME NEW from \in Nat, NEW to \in Nat, from <= to
  PROVE  /\ IsFiniteSet(Headers(from, to))
         /\ Cardinality(Headers(from, to)) \in Nat
         /\ Cardinality(Headers(from, to)) <= to - from
<1>1. Headers(from, to) \in SUBSET (from..to - 1)
  BY DEF Headers
<1>2. IsFiniteSet(from..to - 1) /\ Cardinality(from..to - 1) = to - from
  <2>1. from \in Int /\ to - 1 \in Int
    OBVIOUS
  <2>2. /\ IsFiniteSet(from..to - 1)
        /\ Cardinality(from..to - 1) = IF from > to - 1 THEN 0 ELSE (to - 1) - from + 1
    BY <2>1, FS_Interval
  <2>3. QED
    BY <2>2
<1>3. /\ IsFiniteSet(Headers(from, to))
      /\ Cardinality(Headers(from, to)) <= Cardinality(from..to - 1)
  BY <1>1, <1>2, FS_Subset
<1>4. Cardinality(Headers(from, to)) \in Nat
  BY <1>3, FS_CardinalityType
<1>5. QED
  BY <1>2, <1>3, <1>4

\* The record the reader holds is the first of those it has not done with.
LEMMA HeadersFirst ==
  ASSUME RingInv, TaskInv, rd < head, NEW r, r = rd + At(rd).val
  PROVE  /\ Headers(r, head) = Headers(rd, head) \ {rd} /\ rd \in Headers(rd, head)
         /\ Cardinality(Headers(r, head)) = Cardinality(Headers(rd, head)) - 1
<1>1. /\ rd \in Nat /\ head \in Nat /\ khead \in Nat /\ head <= khead
      /\ IsHeader(rd) /\ At(rd).val \in {2, 3} /\ r <= head
  BY AtRecord DEF RingInv, Shape, Bounds
<1>2. \A k \in 1..At(rd).val - 1 : ~IsHeader(rd + k)
  <2>1. rd \in rd..khead - 1
    BY <1>1
  <2>2. \A k \in 1..At(rd).val - 1 : At(rd + k).type = "word"
    BY <1>1, <2>1 DEF TaskInv, Whole, IsHeader
  <2>3. QED
    BY <2>2 DEF IsHeader
<1>3. ASSUME NEW x \in rd..head - 1, IsHeader(x) PROVE x = rd \/ x \in r..head - 1
  <2>1. CASE x < r
    <3>1. x = rd \/ x - rd \in 1..At(rd).val - 1
      BY <1>1, <2>1
    <3>2. rd + (x - rd) = x
      BY <1>1
    <3>3. QED
      BY <1>2, <1>3, <3>1, <3>2
  <2>2. QED
    BY <1>1, <2>1
<1>4. \A x \in r..head - 1 : x \in rd..head - 1 /\ x # rd
  BY <1>1
<1>5. Headers(r, head) = Headers(rd, head) \ {rd} /\ rd \in Headers(rd, head)
  BY <1>1, <1>3, <1>4, HeadersAt
<1>6. IsFiniteSet(Headers(rd, head))
  BY <1>1, HeadersCount DEF RingInv, Bounds
<1>7. QED
  BY <1>5, <1>6, FS_RemoveElement

LEMMA UnreadType ==
  ASSUME RingInv, TaskInv
  PROVE  Unread \in Nat /\ (~Holding => Unread = Cardinality(Headers(rd, head)))
<1>1. rd \in Nat /\ head \in Nat /\ rd <= head
  BY DEF RingInv, Shape, Bounds
<1>2. Cardinality(Headers(rd, head)) \in Nat
  BY <1>1, HeadersCount
<1>3. CASE Holding
  <2>1. PICK r \in Nat : r = rd + At(rd).val /\ r <= head
    BY <1>1, <1>3, HeldRecord, AtRecord DEF Holding
  <2>2. Cardinality(Headers(r, head)) = Cardinality(Headers(rd, head)) - 1
    BY <1>3, <2>1, HeldRecord, HeadersFirst DEF Holding
  <2>3. Cardinality(Headers(r, head)) \in Nat
    BY <1>1, <2>1, HeadersCount
  <2>4. QED
    BY <1>2, <1>3, <2>2, <2>3 DEF Unread
<1>4. CASE ~Holding
  BY <1>2, <1>4 DEF Unread
<1>5. QED
  BY <1>3, <1>4

\* What is published joins what is there to read, and the ring holds it all.
LEMMA PublishedCount ==
  ASSUME RingInv, TaskInv, Publish
  PROVE  \E records \in 1..2 :
           Unread + records <= Size /\ Unread' = Unread + records
<1> DEFINE old == Headers(rd, head)
           new == Headers(head, khead)
<1>1. /\ rd \in Nat /\ head \in Nat /\ khead \in Nat /\ rd <= head /\ head <= khead
      /\ tail \in Nat /\ tail <= rd /\ khead - tail <= Size - 1 /\ Size \in Nat
  BY RingAssumption DEF RingAssumption, RingInv, Shape, Bounds
<1>2. /\ IsFiniteSet(old) /\ Cardinality(old) \in Nat
      /\ IsFiniteSet(new) /\ Cardinality(new) \in Nat
      /\ Cardinality(Headers(rd, khead)) <= khead - rd
      /\ Cardinality(Headers(rd, khead)) \in Nat
  <2>1. rd <= khead
    BY <1>1
  <2>2. QED
    BY <1>1, <2>1, HeadersCount
<1>3. Headers(rd, khead) = old \cup new /\ old \cap new = {}
  BY <1>1, HeadersAt
<1>4. Cardinality(new) \in 1..2
  <2>1. new \in {{head}, {head, head + 3}}
    BY DEF Publish, TaskInv
  <2>2. Cardinality({head}) = 1 /\ IsFiniteSet({head})
    BY FS_Singleton
  <2>3. Cardinality({head} \cup {head + 3}) = 2
    BY <1>1, <2>2, FS_AddElement
  <2>4. {head} \cup {head + 3} = {head, head + 3}
    OBVIOUS
  <2>5. QED
    BY <2>1, <2>2, <2>3, <2>4
<1>5. Cardinality(Headers(rd, khead)) = Cardinality(old) + Cardinality(new)
  <2>1. Cardinality(old \cap new) = 0
    BY <1>3, FS_EmptySet
  <2>2. Cardinality(old \cup new) = Cardinality(old) + Cardinality(new) - Cardinality(old \cap new)
    BY <1>2, FS_Union
  <2> HIDE DEF old, new
  <2>3. QED
    BY <1>2, <1>3, <2>1, <2>2
<1>6. Unread = Cardinality(old) - (IF Holding THEN 1 ELSE 0)
  BY DEF Unread
<1>7. Unread' = Cardinality(Headers(rd, khead)) - (IF Holding THEN 1 ELSE 0)
  BY DEF Unread, Headers, Holding, Publish, readerVars
<1> HIDE DEF old, new
<1>8. WITNESS Cardinality(new) \in 1..2
<1>9. QED
  BY <1>1, <1>2, <1>4, <1>5, <1>6, <1>7


(* Every step is one of the task, of its thread, or none.                  *)

TaskOrNone == Task!Next \/ UNCHANGED Task!vars

\* The kernel writes where the reader does not look yet.
LEMMA HitIsUnseen ==
  ASSUME RingInv, TaskInv, HitUser \/ HitNoRegs
  PROVE  UNCHANGED <<exited, closed, Place, Records, Unread>>
<1>1. /\ UNCHANGED <<head, exited, ioVars, readerVars>> /\ head = khead
      /\ \/ \E s, users : Hit(s, users) /\ Written(s, users)
         \/ UNCHANGED cells
  BY HitEither DEF TaskInv
<1>2. PICK from \in Nat : from = khead
  BY DEF RingInv, Shape
<1>3. \A x \in rd..from - 1 : IsHeader(x)' = IsHeader(x)
  <2>1. CASE \E s, users : Hit(s, users) /\ Written(s, users)
    BY <1>2, <2>1, WrittenTask
  <2>2. CASE UNCHANGED cells
    BY <2>2 DEF IsHeader, At
  <2>3. QED
    BY <1>1, <2>1, <2>2
<1>4. Headers(rd, head)' = Headers(rd, head)
  <2>1. Headers(rd, head)' = {x \in rd..from - 1 : IsHeader(x)'}
    BY <1>1, <1>2 DEF Headers, IsHeader, At, readerVars
  <2>2. Headers(rd, head) = {x \in rd..from - 1 : IsHeader(x)}
    BY <1>1, <1>2 DEF Headers, IsHeader, At
  <2>3. QED
    BY <1>3, <2>1, <2>2
<1>5. UNCHANGED <<Place, Records, Holding>>
  BY <1>1 DEF Place, Records, Holding, Behind, FullBatch, readerVars
<1>6. QED
  BY <1>1, <1>4, <1>5 DEF Unread, ioVars

LEMMA KernelIsEnv ==
  ASSUME Inv, RingInv, TaskInv, Kernel \/ Driver
  PROVE  TaskOrNone
<1>1. CASE HitUser \/ HitNoRegs
  BY <1>1, HitIsUnseen, Unseen DEF TaskOrNone
<1>2. CASE Publish
  <2>1. PICK records \in 1..2 : Unread + records <= Size /\ Unread' = Unread + records
    BY <1>2, PublishedCount
  <2>2. ~exited /\ UNCHANGED <<exited, closed, Place, Records>>
    BY <1>2 DEF Publish, TaskInv, Place, Records, Holding, Behind, FullBatch, readerVars, ioVars
  <2>3. QED
    BY <2>1, <2>2, AsFire, UnreadType DEF TaskOrNone
<1>3. ASSUME UNCHANGED <<cells, head, readerVars>>
      PROVE  UNCHANGED <<Place, Records, Unread>>
  BY <1>3 DEF Place, Records, Unread, Headers, Holding, Behind, FullBatch, readerVars
<1>4. CASE Wake
  BY <1>3, <1>4, Unseen DEF Wake, TaskOrNone
<1>5. CASE ThreadExit
  <2>1. ~exited /\ exited' /\ closed' = closed /\ UNCHANGED <<Place, Records, Unread>>
    BY <1>3, <1>5 DEF ThreadExit, ioVars
  <2>2. QED
    BY <2>1, AsThreadExit DEF TaskOrNone
<1>6. CASE Driver
  <2>1. closed' = exited /\ exited' = exited /\ UNCHANGED <<Place, Records, Unread>>
    BY <1>3, <1>6 DEF Driver, kernelVars
  <2>2. closed \in BOOLEAN /\ exited \in BOOLEAN /\ (closed => exited)
    BY DEF Inv, Types, Announced
  <2>3. CASE closed' = closed
    BY <2>1, <2>3, Unseen DEF TaskOrNone
  <2>4. CASE closed = FALSE /\ closed' = TRUE
    <3>1. exited
      BY <2>1, <2>4
    <3>2. QED
      BY <2>1, <2>4, <3>1, AsSeeExit DEF TaskOrNone
  <2>5. QED
    BY <2>1, <2>2, <2>3, <2>4
<1>7. QED
  BY <1>1, <1>2, <1>4, <1>5, <1>6 DEF Kernel

\* The steps of the reader that Watch has.
LEMMA ReaderIsTask ==
  ASSUME Inv, RingInv, TaskInv, Reader
  PROVE  TaskOrNone
<1>1. UNCHANGED <<kernelVars, closed>>
  BY DEF Reader, Park, Readable, Check, ReadHeader, ReadSample, ReadLost, Advance, Recheck,
         Clear, Leave, Yielded, ioVars
<1>2. closed \in BOOLEAN /\ Unread \in Nat /\ processed \in 0..Batch /\ Batch \in Nat
  BY UnreadType, RingAssumption DEF Inv, Types, TaskInv, RingAssumption
<1>3. ASSUME rd' = rd PROVE Headers(rd, head)' = Headers(rd, head)
  BY <1>1, <1>3 DEF Headers, kernelVars
<1>4. ASSUME rd' = rd, Holding' = Holding PROVE Unread' = Unread
  BY <1>3, <1>4 DEF Unread
<1> USE DEF Goto
<1>5. CASE Park
  <2>1. Place = "wait" /\ Place' = "parked" /\ closed = FALSE /\ Records' = Records
    BY <1>2, <1>5 DEF Park, Place, Records, Holding, Behind, FullBatch
  <2>2. Unread' = Unread
    BY <1>4, <1>5 DEF Park, Holding
  <2>3. QED
    BY <1>1, <2>1, <2>2, AsPark DEF kernelVars, TaskOrNone
<1>6. CASE Readable
  <2>1. Place \in {"wait", "parked"} /\ Place' = "loop" /\ Records' = 0
    BY <1>6 DEF Readable, Place, Records, Holding, Behind, FullBatch
  <2>2. Unread' = Unread
    BY <1>4, <1>6 DEF Readable, Holding
  <2>3. QED
    BY <1>1, <2>1, <2>2, AsReadable DEF kernelVars, TaskOrNone
<1>7. CASE Check
  <2>1. /\ pc = "loop" /\ UNCHANGED <<rd, processed>>
        /\ pc' = IF head # rd /\ processed < Batch THEN "header" ELSE "recheck"
    BY <1>7 DEF Check
  <2>2. Unread' = Unread /\ Place = "loop" /\ Records = processed
    BY <1>4, <2>1 DEF Holding, Place, Records, Behind
  <2>3. CASE pc' = "header" \/ processed = Batch
    <3>1. Place' = "loop" /\ Records' = processed
      BY <2>1, <2>3 DEF Place, Records, Holding, Behind, FullBatch
    <3>2. QED
      BY <1>1, <2>2, <3>1, Unseen DEF kernelVars, TaskOrNone
  <2>4. CASE pc' = "recheck" /\ processed # Batch
    <3>1. processed < Batch /\ head = rd
      BY <1>2, <2>1, <2>4
    <3>2. Place' = "wait" /\ Records' = 0
      BY <2>1, <2>4 DEF Place, Records, Holding, Behind, FullBatch
    <3>3. Unread = 0
      <4>1. Headers(rd, head) = {}
        BY <3>1 DEF RingInv, Shape, Headers
      <4>2. QED
        BY <2>1, <4>1, UnreadType, FS_EmptySet DEF Holding
    <3>4. QED
      BY <1>1, <2>2, <3>1, <3>2, <3>3, AsLeaveLoop DEF kernelVars, TaskOrNone
  <2>5. QED
    BY <2>1, <2>3, <2>4
<1>8. CASE ReadHeader
  <2>1. pc = "header" /\ rd < head /\ processed < Batch /\ UNCHANGED <<rd, processed>>
    BY <1>8 DEF ReadHeader, RingInv, Bounds, TaskInv, Reading
  <2>2. pc' \in {"sample", "lost"}
    BY <1>8, <2>1, AtRecord DEF ReadHeader, IsHeader, At, CellAt, RingInv, Shape
  <2>3. Place = "loop" /\ Place' = "took" /\ Records = processed /\ Records' = processed + 1
    BY <2>1, <2>2 DEF Place, Records, Holding, Behind
  <2>4. Unread = Cardinality(Headers(rd, head)) /\ Unread' = Unread - 1
    BY <1>3, <2>1, <2>2, UnreadType DEF Unread, Holding
  <2>5. Unread > 0
    <3>1. rd \in Headers(rd, head)
      BY <2>1, HeadersFirst
    <3>2. IsFiniteSet(Headers(rd, head))
      BY HeadersCount DEF RingInv, Shape, Bounds
    <3>3. Unread # 0
      BY <2>4, <3>1, <3>2, FS_EmptySet
    <3>4. QED
      BY <1>2, <3>3
  <2>6. QED
    BY <1>1, <2>1, <2>3, <2>4, <2>5, AsTakeSample DEF kernelVars, TaskOrNone
<1>9. CASE ReadSample \/ ReadLost
  <2>1. pc \in {"sample", "lost"} /\ pc' = "advance" /\ UNCHANGED <<rd, processed>>
    BY <1>9 DEF ReadSample, ReadLost
  <2>2. Place = "took" /\ Place' \in {"loop", "handle"} /\ Records' = Records
    BY <2>1 DEF Place, Records, Holding, Behind
  <2>3. Unread' = Unread
    BY <1>4, <2>1 DEF Holding
  <2>4. QED
    BY <1>1, <2>2, <2>3, AsCheckCancel DEF kernelVars, TaskOrNone
<1>10. CASE Advance
  <2>1. /\ pc = "advance" /\ pc' = "loop" /\ rd < head /\ rd' = rd + At(rd).val
        /\ processed' = processed + 1
    BY <1>10, HeldRecord DEF Advance
  <2>2. Place \in {"loop", "handle"} /\ Place' = "loop" /\ Records' = Records
    BY <2>1 DEF Place, Records, Holding, Behind
  <2>3. Unread' = Unread
    <3>1. PICK r : r = rd'
      OBVIOUS
    <3>2. Cardinality(Headers(r, head)) = Cardinality(Headers(rd, head)) - 1
      BY <2>1, <3>1, HeadersFirst
    <3>3. Headers(rd, head)' = Headers(r, head)
      BY <1>1, <3>1 DEF Headers, kernelVars
    <3>4. Unread = Cardinality(Headers(rd, head)) - 1
      BY <2>1 DEF Unread, Holding
    <3>5. Unread' = Cardinality(Headers(r, head)) - 0
      BY <2>1, <3>3 DEF Unread, Holding
    <3>6. QED
      BY <1>2, <3>2, <3>4, <3>5
  <2>4. CASE Place = "handle"
    BY <1>1, <2>2, <2>3, <2>4, AsHandle DEF kernelVars, TaskOrNone
  <2>5. CASE Place = "loop"
    BY <1>1, <2>2, <2>3, <2>5, Unseen DEF kernelVars, TaskOrNone
  <2>6. QED
    BY <2>2, <2>4, <2>5
<1>11. CASE Recheck \/ Clear \/ Leave
  <2>1. Behind /\ UNCHANGED <<rd, processed>> /\ ~Holding /\ Holding' = Holding
    <3>1. /\ pc \in {"recheck", "clear", "leave"} /\ UNCHANGED <<rd, processed>>
          /\ pc' \in {"clear", "leave", "yield", "wait"}
      BY <1>11 DEF Recheck, Clear, Leave
    <3>2. QED
      BY <3>1 DEF Behind, Holding
  <2>2. Unread' = Unread
    BY <1>4, <2>1
  <2>3. CASE Behind'
    <3>1. Place' = Place /\ Records' = Records
      BY <2>1, <2>3 DEF Place, Records, Behind, FullBatch, Holding
    <3>2. QED
      BY <1>1, <2>2, <3>1, Unseen DEF kernelVars, TaskOrNone
  <2>4. CASE ~Behind'
    <3>1. pc = "leave" /\ pc' = IF processed = Batch THEN "yield" ELSE "wait"
      BY <1>11, <2>4 DEF Recheck, Clear, Leave, Behind
    <3>2. CASE processed = Batch
      <4>1. Place = "loop" /\ Records = Batch /\ Place' = "queued" /\ Records' = 0
        BY <2>1, <3>1, <3>2 DEF Place, Records, Behind, FullBatch, Holding
      <4>2. QED
        BY <1>1, <2>2, <4>1, AsLeaveLoop DEF kernelVars, TaskOrNone
    <3>3. CASE processed # Batch
      <4>1. Place' = Place /\ Records' = Records
        BY <2>1, <3>1, <3>3 DEF Place, Records, Behind, FullBatch, Holding
      <4>2. QED
        BY <1>1, <2>2, <4>1, Unseen DEF kernelVars, TaskOrNone
    <3>4. QED
      BY <3>2, <3>3
  <2>5. QED
    BY <2>3, <2>4
<1>12. CASE Yielded
  <2>1. Place = "queued" /\ Place' = "wait" /\ Records' = Records
    BY <1>12 DEF Yielded, Place, Records, Holding, Behind, FullBatch
  <2>2. Unread' = Unread
    BY <1>4, <1>12 DEF Yielded, Holding
  <2>3. QED
    BY <1>1, <2>1, <2>2, AsPoll DEF kernelVars, TaskOrNone
<1>13. QED
  BY <1>5, <1>6, <1>7, <1>8, <1>9, <1>10, <1>11, <1>12 DEF Reader


LEMMA InitStarted == Init => Started
<1> SUFFICES ASSUME Init PROVE Started
  OBVIOUS
<1> USE RingAssumption DEF RingAssumption, Init
<1>1. Place = "wait" /\ Records = 0
  BY DEF Place, Records, Holding, Behind
<1>2. Headers(rd, head) = {}
  <2>1. rd..head - 1 = {}
    OBVIOUS
  <2>2. QED
    BY <2>1 DEF Headers
<1>3. Unread = 0
  <2>1. Cardinality(Headers(rd, head)) = 0
    BY <1>2, FS_EmptySet, Zenon
  <2>2. ~Holding
    BY DEF Holding
  <2>3. QED
    BY <2>1, <2>2 DEF Unread
<1>4. Task!TypeOK
  BY <1>1, <1>3 DEF Task!TypeOK, Task!Phases, Task!Places, Of, OfThread
<1>5. Task!EventsHaveReaders
  BY <1>1 DEF Task!EventsHaveReaders, Task!Live, Of, OfThread
<1>6. QED
  BY <1>3, <1>4, <1>5 DEF Started

\* A step of the ring is one of a watch's task, of its thread or of the runtime, or none
\* that Watch sees: what Watch assumes of a ring and of its reader is what PerfMap::events
\* and the kernel do, for any ring, batch and number of hits (perf.rs:98-147).
THEOREM ReaderIsATask == Spec => RunsAsTask
<1>1. Inv /\ RingInv /\ TaskInv /\ [Next]_vars => [Task!Next]_(Task!vars)
  <2> SUFFICES ASSUME Inv, RingInv, TaskInv, [Next]_vars
               PROVE  Task!Next \/ UNCHANGED Task!vars
    OBVIOUS
  <2>1. CASE Kernel \/ Driver
    BY <2>1, KernelIsEnv DEF TaskOrNone
  <2>2. CASE Reader
    BY <2>2, ReaderIsTask DEF TaskOrNone
  <2>3. CASE UNCHANGED vars
    BY <2>3, Unseen DEF vars, kernelVars, ioVars, readerVars, Place, Records, Unread, Headers,
                        Holding, Behind, FullBatch
  <2>4. QED
    BY <2>1, <2>2, <2>3 DEF Next
<1>2. Spec => []TaskInv
  BY InitInv, NextInv, InitRing, NextRing, InitTask, NextTask, PTL DEF Spec
<1>3. QED
  BY <1>1, <1>2, InitStarted, InitInv, NextInv, RingInvariance, PTL DEF Spec, RunsAsTask

-----------------------------------------------------------------------------
(* Setting a perf event up: PerfOpen.tla                                   *)

\* Every set of numbers has a smallest: what the recursion of Pow2 goes down on.
LEMMA SmallestExists ==
  ASSUME NEW S \in SUBSET Nat, S # {}
  PROVE  \E x \in S : \A y \in S : x <= y
<1> DEFINE R == {ss \in Nat \X Nat : ss[1] < ss[2]}
<1>1. IsWellFoundedOn(R, Nat)
  BY NatLessThanWellFounded DEF OpToRel
<1> HIDE DEF R
<1>2. PICK x \in S : \A y \in S : ~(<<y, x>> \in R)
  BY <1>1, WFMin, Zenon
<1>3. ASSUME NEW y \in S PROVE x <= y
  <2>1. x \in Nat /\ y \in Nat
    OBVIOUS
  <2>2. <<y, x>> \notin R
    BY <1>2
  <2>3. ~(y < x)
    BY <2>1, <2>2 DEF R
  <2> QED
    BY <2>1, <2>3
<1> QED
  BY <1>3

\* The powers of two up to the n-th.
Powers(g, n) ==
  g \in [0..n -> Nat] /\ g[0] = 1 /\ \A i \in 1..n : g[i] = 2 * g[i - 1]

LEMMA PowersExist == \A n \in Nat : \E g : Powers(g, n)
<1> DEFINE S == {n \in Nat : ~\E g : Powers(g, n)}
<1> SUFFICES ASSUME S # {} PROVE FALSE
  OBVIOUS
<1>1. PICK m \in S : \A k \in S : m <= k
  BY SmallestExists
<1>2. m \in Nat /\ ~\E g : Powers(g, m)
  OBVIOUS
<1>3. CASE m = 0
  <2>1. Powers([i \in 0..0 |-> 1], 0)
    BY DEF Powers
  <2> QED
    BY <1>2, <1>3, <2>1
<1>4. CASE m # 0
  <2>1. m - 1 \in Nat /\ m - 1 \notin S
    BY <1>1, <1>2, <1>4
  <2>2. PICK g : Powers(g, m - 1)
    BY <2>1
  <2> DEFINE h == [i \in 0..m |-> IF i = m THEN 2 * g[m - 1] ELSE g[i]]
  <2>3. Powers(h, m)
    <3>1. g[m - 1] \in Nat
      BY <2>1, <2>2 DEF Powers
    <3>2. h \in [0..m -> Nat]
      BY <1>2, <2>2, <3>1 DEF Powers
    <3>3. h[0] = 1
      BY <1>2, <1>4, <2>2 DEF Powers
    <3>4. ASSUME NEW i \in 1..m PROVE h[i] = 2 * h[i - 1]
      <4>1. h[i - 1] = g[i - 1]
        BY <1>2, <3>4
      <4>2. CASE i = m
        BY <1>2, <4>1, <4>2
      <4>3. CASE i # m
        <5>1. i \in 1..m - 1 /\ h[i] = g[i]
          BY <1>2, <3>4, <4>3
        <5> QED
          BY <2>2, <4>1, <5>1 DEF Powers
      <4> QED
        BY <4>2, <4>3
    <3> HIDE DEF h
    <3> QED
      BY <3>2, <3>3, <3>4 DEF Powers
  <2> QED
    BY <1>2, <2>3
<1> QED
  BY <1>3, <1>4

LEMMA PowersAgree ==
  ASSUME NEW n \in Nat, NEW m \in Nat, n <= m, NEW g, Powers(g, n), NEW h, Powers(h, m),
         NEW i \in 0..n
  PROVE  g[i] = h[i]
<1> DEFINE S == {j \in 0..n : g[j] # h[j]}
<1> SUFFICES ASSUME S # {} PROVE FALSE
  OBVIOUS
<1>0. S \in SUBSET Nat
  OBVIOUS
<1>1. PICK k \in S : \A j \in S : k <= j
  <2> HIDE DEF S
  <2> QED
    BY <1>0, SmallestExists
<1>2. k \in 0..n /\ g[k] # h[k] /\ k # 0
  <2>1. g[0] = h[0]
    BY DEF Powers
  <2> QED
    BY <2>1
<1>3. k - 1 \in 0..n /\ k - 1 \notin S /\ k \in 1..n /\ k \in 1..m
  BY <1>1, <1>2
<1>4. g[k - 1] = h[k - 1]
  BY <1>3
<1> QED
  BY <1>2, <1>3, <1>4 DEF Powers

\* Pow2 is what its definition says.
LEMMA Pow2Def ==
  Pow2 = [n \in Nat |-> IF n = 0 THEN 1 ELSE 2 * Pow2[n - 1]]
<1> DEFINE G(n) == CHOOSE g : Powers(g, n)
           f == [n \in Nat |-> G(n)[n]]
<1>1. \A n \in Nat : Powers(G(n), n)
  BY PowersExist
<1> HIDE DEF G
<1>2. ASSUME NEW n \in Nat PROVE f[n] = IF n = 0 THEN 1 ELSE 2 * f[n - 1]
  <2>1. CASE n = 0
    BY <1>1, <2>1 DEF Powers
  <2>2. CASE n # 0
    <3>1. n - 1 \in Nat /\ n \in 1..n /\ n - 1 \in 0..n - 1 /\ n - 1 <= n
      BY <2>2
    <3>2. G(n)[n] = 2 * G(n)[n - 1]
      BY <1>1, <3>1 DEF Powers
    <3>3. G(n - 1)[n - 1] = G(n)[n - 1]
      BY <1>1, <3>1, PowersAgree
    <3>4. f[n] = G(n)[n] /\ f[n - 1] = G(n - 1)[n - 1]
      BY <3>1
    <3> QED
      BY <2>2, <3>2, <3>3, <3>4
  <2> QED
    BY <2>1, <2>2
<1>3. f = [n \in Nat |-> IF n = 0 THEN 1 ELSE 2 * f[n - 1]]
  BY <1>2
<1> HIDE DEF f
<1> QED
  BY <1>3 DEF Pow2

LEMMA Pow2Steps ==
  /\ Pow2[0] = 1
  /\ \A n \in Nat : Pow2[n + 1] = 2 * Pow2[n]
<1>1. Pow2[0] = 1
  BY Pow2Def
<1>2. ASSUME NEW n \in Nat PROVE Pow2[n + 1] = 2 * Pow2[n]
  <2>1. n + 1 \in Nat /\ n + 1 # 0 /\ (n + 1) - 1 = n
    OBVIOUS
  <2> QED
    BY <2>1, Pow2Def
<1> QED
  BY <1>1, <1>2

LEMMA Pow2Type == \A n \in Nat : Pow2[n] \in Nat /\ Pow2[n] >= 1
<1> DEFINE S == {n \in Nat : ~(Pow2[n] \in Nat /\ Pow2[n] >= 1)}
<1> SUFFICES ASSUME S # {} PROVE FALSE
  OBVIOUS
<1>1. PICK m \in S : \A k \in S : m <= k
  BY SmallestExists
<1>2. m \in Nat /\ m # 0
  BY Pow2Steps
<1>3. m - 1 \in Nat /\ m - 1 \notin S /\ (m - 1) + 1 = m
  BY <1>1, <1>2
<1>4. Pow2[m - 1] \in Nat /\ Pow2[m - 1] >= 1
  BY <1>3
<1>5. Pow2[m] = 2 * Pow2[m - 1]
  BY <1>3, Pow2Steps
<1> HIDE DEF S
<1>6. Pow2[m] \in Nat /\ Pow2[m] >= 1
  BY <1>4, <1>5
<1> QED
  BY <1>6 DEF S

LEMMA Pow2Sum == \A a, b \in Nat : Pow2[a + b] = Pow2[a] * Pow2[b]
<1> SUFFICES ASSUME NEW a \in Nat PROVE \A b \in Nat : Pow2[a + b] = Pow2[a] * Pow2[b]
  OBVIOUS
<1> DEFINE S == {b \in Nat : Pow2[a + b] # Pow2[a] * Pow2[b]}
<1> SUFFICES ASSUME S # {} PROVE FALSE
  OBVIOUS
<1>1. PICK m \in S : \A k \in S : m <= k
  BY SmallestExists
<1>2. m \in Nat /\ m # 0
  <2>1. Pow2[a + 0] = Pow2[a] * Pow2[0]
    BY Pow2Steps, Pow2Type
  <2> QED
    BY <2>1
<1>3. m - 1 \in Nat /\ m - 1 \notin S /\ (m - 1) + 1 = m
  BY <1>1, <1>2
<1>4. Pow2[a + (m - 1)] = Pow2[a] * Pow2[m - 1]
  BY <1>3
<1>5. Pow2[m] = 2 * Pow2[m - 1]
  BY <1>3, Pow2Steps
<1>6. Pow2[a + m] = 2 * Pow2[a + (m - 1)]
  <2>1. a + (m - 1) \in Nat /\ (a + (m - 1)) + 1 = a + m
    BY <1>3
  <2> QED
    BY <2>1, Pow2Steps
<1>7. \A x, y \in Nat : 2 * (x * y) = x * (2 * y)
  OBVIOUS
<1>8. Pow2[a + m] = Pow2[a] * Pow2[m]
  BY <1>3, <1>4, <1>5, <1>6, <1>7, Pow2Type
<1> QED
  BY <1>8

LEMMA Pow2Grows == \A a, b \in Nat : a <= b => Pow2[a] <= Pow2[b]
<1> SUFFICES ASSUME NEW a \in Nat, NEW b \in Nat, a <= b PROVE Pow2[a] <= Pow2[b]
  OBVIOUS
<1>1. b - a \in Nat /\ a + (b - a) = b
  OBVIOUS
<1>2. Pow2[b] = Pow2[a] * Pow2[b - a]
  BY <1>1, Pow2Sum
<1>3. \A x, y \in Nat : y >= 1 => x <= x * y
  OBVIOUS
<1> QED
  BY <1>1, <1>2, <1>3, Pow2Type

\* A size for which the length does not overflow fits the address space; and one that fits is
\* mapped with as many data pages as asked, unless it is refused.
LEMMA MmapLenFits ==
  ASSUME NEW b \in Nat, Fits(b) \/ ~Overflows(b),
         NEW pages, pages = MmapLen(b) \div Pow2[PageBits], Mappable(pages)
  PROVE  Fits(b) /\ pages = 1 + Pow2[b]
<1> DEFINE A == Pow2[b]
           B == Pow2[PageBits]
           M == Pow2[WordBits]
           len == (1 + A) * B
<1>0. /\ WordBits \in Nat /\ PageBits \in Nat /\ PageBits < WordBits
      /\ b + PageBits \in Nat
  BY OpenAssumption DEF OpenAssumption
<1>1. A \in Nat /\ B \in Nat /\ M \in Nat /\ B >= 1 /\ A >= 1 /\ M >= 1
  BY <1>0, Pow2Type
<1>2. Pow2[b + PageBits] = A * B
  BY <1>0, Pow2Sum
<1>3. b < WordBits
  BY <1>0 DEF Fits, Overflows
<1>4. b % WordBits = b
  <2>1. b \in 0..WordBits - 1 /\ b = WordBits * 0 + b /\ WordBits > 0
    BY <1>0, <1>3
  <2> QED
    BY <1>0, <2>1, ModUnique
<1>5. pages = (len % M) \div B
  BY <1>4 DEF MmapLen
<1> HIDE DEF A, B, M
<1>6. len = A * B + B /\ len \in Nat /\ A * B \in Nat
  BY <1>1
<1>7. Fits(b)
  <2> SUFFICES ASSUME ~Fits(b) PROVE FALSE
    OBVIOUS
  <2>1. b + PageBits >= WordBits
    BY <1>0 DEF Fits
  <2>2. M <= A * B
    BY <1>0, <1>2, <2>1, Pow2Grows DEF M
  <2>3. len < M
    <3>1. ~(len >= M)
      BY DEF Overflows, A, B, M
    <3> QED
      BY <1>1, <1>6, <3>1
  <2> HIDE DEF len
  <2> QED
    BY <1>1, <1>6, <2>2, <2>3
<1>8. len <= M
  <2> DEFINE H == Pow2[WordBits - 1]
  <2>1. WordBits - 1 \in Nat /\ (WordBits - 1) + 1 = WordBits
        /\ b + PageBits <= WordBits - 1 /\ PageBits <= WordBits - 1
    BY <1>0, <1>7 DEF Fits
  <2>2. H \in Nat /\ M = 2 * H
    BY <2>1, Pow2Steps, Pow2Type DEF M
  <2>3. A * B <= H
    BY <1>0, <1>2, <2>1, Pow2Grows
  <2>4. B <= H
    BY <1>0, <2>1, Pow2Grows DEF B
  <2> HIDE DEF H, len
  <2> QED
    BY <1>1, <1>6, <2>2, <2>3, <2>4
<1> HIDE DEF len
<1>9. len # M
  <2> SUFFICES ASSUME len = M PROVE FALSE
    OBVIOUS
  <2>1. len % M = 0
    <3>1. 0 \in 0..M - 1 /\ len = M * 1 + 0
      BY <1>1
    <3> QED
      BY <1>1, <1>6, <3>1, ModUnique
  <2>2. 0 \div B = 0
    BY <1>1
  <2>3. pages = 0
    BY <1>5, <2>1, <2>2
  <2>4. \A k \in 0..WordBits : 1 + Pow2[k] # 0
    BY <1>0, Pow2Type
  <2> QED
    BY <2>3, <2>4 DEF Mappable
<1>10. len % M = len
  <2>1. len \in 0..M - 1 /\ len = M * 0 + len
    BY <1>1, <1>6, <1>8, <1>9
  <2> QED
    BY <1>1, <1>6, <2>1, ModUnique
<1>11. len \div B = 1 + A
  <2> DEFINE q == len \div B
             r == len % B
  <2>1. len = B * q + r /\ r \in 0..B - 1 /\ q \in Int
    BY <1>1, <1>6, DivMod
  <2> HIDE DEF q, r
  <2>2. r = B * ((1 + A) - q)
    BY <1>1, <1>6, <2>1
  <2>3. (1 + A) - q = 0
    BY <1>1, <2>1, <2>2, SmallMultiple
  <2> QED
    BY <1>1, <2>1, <2>3 DEF q
<1> QED
  BY <1>5, <1>7, <1>10, <1>11 DEF A

-----------------------------------------------------------------------------
(* Who holds the debug register                                            *)

\* Who holds a descriptor, and who a mapping: after a failure only a mapping is left.
Holders ==
  \A c \in Call :
    /\ c \in fd => setup[c] \in {"opened", "mapped", "open", "unmapped"}
    /\ mapped[c] > 0 => setup[c] \in {"mapped", "open", "failed"}

\* A ring is as large as asked from its mmap on.
Mapped ==
  \A c \in Call :
    setup[c] \in {"mapped", "open"} /\ (Fits(buf[c]) \/ build = "debug") =>
      Fits(buf[c]) /\ mapped[c] = 1 + Pow2[buf[c]]

OpenInv == OpenTypeOK /\ Holders /\ Mapped

LEMMA InitOpen == OpenInit => OpenInv
BY DEF OpenInit, OpenInv, OpenTypeOK, Holders, Mapped

LEMMA NextOpen == OpenInv /\ [OpenNext]_openVars => OpenInv'
<1> SUFFICES ASSUME OpenInv, [OpenNext]_openVars PROVE OpenInv'
  OBVIOUS
<1> USE DEF OpenInv, OpenTypeOK, Holders, Mapped, Enter
<1>1. ASSUME NEW c \in Call, Open(c) PROVE OpenInv'
  BY <1>1 DEF Open
<1>2. ASSUME NEW c \in Call, Panic(c) PROVE OpenInv'
  BY <1>2 DEF Panic
<1>3. ASSUME NEW c \in Call, Map(c) PROVE OpenInv'
  <2> DEFINE pages == MmapLen(buf[c]) \div Pow2[PageBits]
  <2>1. /\ setup[c] = "opened" /\ (build = "release" \/ ~Overflows(buf[c]))
        /\ \/ /\ Mappable(pages) /\ mapped' = [mapped EXCEPT ![c] = pages]
              /\ fd' = fd /\ setup' = [setup EXCEPT ![c] = "mapped"]
           \/ /\ mapped' = mapped /\ fd' = fd \ {c}
              /\ setup' = [setup EXCEPT ![c] = "failed"]
        /\ build' = build /\ buf' = buf
    BY <1>3 DEF Map
  <2>2. buf[c] \in Nat
    BY OpenAssumption DEF OpenAssumption
  <2>3. /\ Mappable(pages) => pages \in Nat
        /\ Mappable(pages) /\ (Fits(buf[c]) \/ build = "debug") =>
             Fits(buf[c]) /\ pages = 1 + Pow2[buf[c]]
    BY <2>1, <2>2, MmapLenFits DEF Mappable
  <2> HIDE DEF pages
  <2>4. CASE mapped' = [mapped EXCEPT ![c] = pages] /\ Mappable(pages)
             /\ fd' = fd /\ setup' = [setup EXCEPT ![c] = "mapped"]
    BY <2>1, <2>3, <2>4
  <2>5. CASE mapped' = mapped /\ fd' = fd \ {c} /\ setup' = [setup EXCEPT ![c] = "failed"]
    BY <2>1, <2>5
  <2> QED
    BY <2>1, <2>4, <2>5
<1>4. ASSUME NEW c \in Call, Register(c) PROVE OpenInv'
  BY <1>4 DEF Register
<1>5. ASSUME NEW c \in Call, Unmap(c) PROVE OpenInv'
  BY <1>5 DEF Unmap
<1>6. ASSUME NEW c \in Call, Close(c) PROVE OpenInv'
  BY <1>6 DEF Close
<1>7. CASE UNCHANGED openVars
  BY <1>7 DEF openVars
<1> QED
  BY <1>1, <1>2, <1>3, <1>4, <1>5, <1>6, <1>7 DEF OpenNext, Step

LEMMA OpenInvariance == OpenSpec => []OpenInv
<1>1. OpenInv /\ [OpenNext]_openVars => OpenInv'
  BY NextOpen
<1> QED
  BY <1>1, InitOpen, PTL DEF OpenSpec

\* Every reachable state of the set-up is well typed (perf.rs:34-99, 190-199).
THEOREM OpenTypeCorrect == OpenSpec => []OpenTypeOK
<1>1. OpenInv => OpenTypeOK
  BY DEF OpenInv
<1> QED
  BY <1>1, OpenInvariance, PTL

\* A call that failed holds no descriptor, and one whose PerfMap is dropped holds neither
\* descriptor nor mapping: its debug register is free, however many callers compete for it
\* and whatever fails; only a failure after mmap keeps one (perf.rs:60-98, 190-199).
THEOREM RegistersAlwaysComeBack == OpenSpec => []RegistersComeBack
<1>1. OpenInv => RegistersComeBack
  BY DEF OpenInv, OpenTypeOK, Holders, RegistersComeBack, Armed
<1> QED
  BY <1>1, OpenInvariance, PTL

\* Every ring that is opened is as large as asked, in a build that checks for overflow always,
\* in one that does not for every size that fits the address space, whatever the width of
\* usize and the size of a page (perf.rs:73-84).
THEOREM RingsAreAsAsked == OpenSpec => []RingAsAsked
<1>1. OpenInv => RingAsAsked
  BY DEF OpenInv, Mapped, RingAsAsked
<1> QED
  BY <1>1, OpenInvariance, PTL
=============================================================================

------------------------- MODULE HitPipelineProofs -------------------------
(***************************************************************************)
(* Proofs about HitPipeline.tla, for every queue and buffer size, number   *)
(* of clients and number of samples: what is counted, what GET /hits       *)
(* shows, what a client of /hits/stream sees, and that from the outside    *)
(* the queue, the worker and the buffer are one FIFO log of samples.       *)
(***************************************************************************)
EXTENDS HitPipeline, SequenceTheorems, TLAPS

USE PipelineAssumption DEF PipelineAssumption

(* What LastN returns, on which the hit buffer and the broadcast ring rest. *)
LEMMA LastNProperties ==
  ASSUME NEW S, NEW s \in Seq(S), NEW n \in Nat
  PROVE  /\ LastN(s, n) \in Seq(S)
         /\ Len(LastN(s, n)) = IF n < Len(s) THEN n ELSE Len(s)
         /\ \A i \in 1..Len(LastN(s, n)) :
              LastN(s, n)[i] = s[Len(s) - Len(LastN(s, n)) + i]
<1>1. Len(s) \in Nat
  BY LenProperties
<1>2. CASE Len(s) <= n
  BY <1>1, <1>2 DEF LastN
<1>3. CASE n < Len(s)
  <2>1. \A i \in Len(s) - n + 1 .. Len(s) : s[i] \in S
    BY <1>1, <1>3, ElementOfSeq
  <2>2. /\ SubSeq(s, Len(s) - n + 1, Len(s)) \in Seq(S)
        /\ Len(SubSeq(s, Len(s) - n + 1, Len(s))) = n
        /\ \A i \in 1..n : SubSeq(s, Len(s) - n + 1, Len(s))[i] = s[Len(s) - n + 1 + i - 1]
    BY <1>1, <1>3, <2>1, SubSeqProperties
  <2>3. LastN(s, n) = SubSeq(s, Len(s) - n + 1, Len(s))
    BY <1>1, <1>3 DEF LastN
  <2> QED
    BY <1>1, <1>3, <2>2, <2>3
<1> QED
  BY <1>1, <1>2, <1>3

(* Retain keeps the newest HitLimit hits and puts h last. *)
LEMMA RetainProperties ==
  ASSUME NEW b \in Seq(Hit), NEW h \in Hit, Len(b) <= HitLimit
  PROVE  /\ Retain(b, h) \in Seq(Hit)
         /\ Len(Retain(b, h)) = IF Len(b) < HitLimit THEN Len(b) + 1 ELSE HitLimit
         /\ HitLimit > 0 => Retain(b, h)[Len(Retain(b, h))] = h
         /\ \A i \in 1..Len(Retain(b, h)) - 1 :
              Retain(b, h)[i] = b[Len(b) - (Len(Retain(b, h)) - 1) + i]
<1>1. Len(b) \in Nat
  BY LenProperties
<1>2. CASE HitLimit = 0
  BY <1>1, <1>2 DEF Retain
<1>3. CASE HitLimit > 0
  <2> DEFINE k == LastN(b, HitLimit - 1)
  <2>1. /\ k \in Seq(Hit)
        /\ Len(k) = IF HitLimit - 1 < Len(b) THEN HitLimit - 1 ELSE Len(b)
        /\ \A i \in 1..Len(k) : k[i] = b[Len(b) - Len(k) + i]
    BY <1>3, LastNProperties
  <2>2. /\ Append(k, h) \in Seq(Hit)
        /\ Len(Append(k, h)) = Len(k) + 1
        /\ \A i \in 1..Len(k) : Append(k, h)[i] = k[i]
        /\ Append(k, h)[Len(k) + 1] = h
    BY <2>1, AppendProperties
  <2>3. Retain(b, h) = Append(k, h)
    BY <1>3 DEF Retain
  <2>4. Len(k) \in Nat
    BY <2>1, LenProperties
  <2> HIDE DEF k
  <2> QED
    BY <1>1, <1>3, <2>1, <2>2, <2>3, <2>4
<1> QED
  BY <1>2, <1>3

-----------------------------------------------------------------------------
(* TypeOK                                                                  *)

LEMMA InitTypeOK == Init => TypeOK
  BY DEF Init, TypeOK, Idle

LEMMA NextTypeOK == TypeOK /\ [Next]_vars => TypeOK'
<1> SUFFICES ASSUME TypeOK, [Next]_vars PROVE TypeOK'
  OBVIOUS
<1> USE DEF TypeOK, Hit, Idle
<1>1. ASSUME NEW s \in Sample, TrySend(s) PROVE TypeOK'
  <2>1. Append(queue, s) \in Seq(Sample)
    BY AppendProperties
  <2>2. queue' = Append(queue, s) \/ queue' = queue
    BY <1>1, Zenon DEF TrySend
  <2>3. queue' \in Seq(Sample)
    BY <2>1, <2>2, Zenon
  <2>4. dropped' \in Nat /\ offered' \in Nat
    BY <1>1 DEF TrySend
  <2>5. UNCHANGED <<workerVars, hitBuffer, ring, sent, streamVars>>
    BY <1>1, Zenon DEF TrySend
  <2> QED
    BY <2>3, <2>4, <2>5 DEF workerVars, streamVars
<1>2. CASE Recv
  <2>1. Head(queue) \in Sample /\ Tail(queue) \in Seq(Sample)
    BY <1>2, HeadTailProperties DEF Recv
  <2>2. hit' \in Hit /\ pc' = "make" /\ queue' \in Seq(Sample)
    BY <1>2, <2>1 DEF Recv
  <2>3. UNCHANGED <<dropped, offered, nextSeq, hitBuffer, ring, sent, streamVars>>
    BY <1>2, Zenon DEF Recv
  <2> QED
    BY <2>2, <2>3 DEF streamVars
<1>3. CASE MakeHit
  <2>1. hit' \in Hit /\ hit'.seq = nextSeq'
    <3>1. hit \in Hit
      BY <1>3 DEF MakeHit
    <3>2. hit' = [hit EXCEPT !.seq = nextSeq'] /\ nextSeq' = nextSeq + 1
      BY <1>3, Zenon DEF MakeHit
    <3>3. nextSeq' \in Nat
      BY <3>2
    <3> HIDE DEF TypeOK
    <3> QED
      BY <3>1, <3>2, <3>3
  <2>2. nextSeq' \in Nat /\ nextSeq' > 0 /\ pc' = "push"
    BY <1>3 DEF MakeHit
  <2>3. UNCHANGED <<queue, dropped, offered, hitBuffer, ring, sent, streamVars>>
    BY <1>3, Zenon DEF MakeHit
  <2> QED
    BY <2>1, <2>2, <2>3 DEF streamVars
<1>4. CASE PushHit
  <2>1. Retain(hitBuffer, hit) \in Seq(Hit)
    <3>1. hit \in Hit
      BY <1>4 DEF PushHit
    <3>2. HitLimit # 0 => HitLimit - 1 \in Nat
      OBVIOUS
    <3>3. HitLimit # 0 => LastN(hitBuffer, HitLimit - 1) \in Seq(Hit)
      BY <3>2, LastNProperties
    <3> QED
      BY <3>1, <3>3, AppendProperties DEF Retain
  <2> QED
    BY <1>4, <2>1 DEF PushHit, streamVars
<1>5. CASE Broadcast
  <2>1. LastN(Append(ring, hit), BroadcastCap) \in Seq(Hit)
    <3>1. hit \in Hit
      BY <1>5 DEF Broadcast
    <3> QED
      BY <3>1, AppendProperties, LastNProperties
  <2>2. ring' \in Seq(Hit) /\ sent' \in Nat
    BY <1>5, <2>1 DEF Broadcast
  <2>3. hit' = Idle /\ pc' = "recv"
    BY <1>5, Zenon DEF Broadcast
  <2>4. UNCHANGED <<queue, dropped, offered, nextSeq, hitBuffer, streamVars>>
    BY <1>5, Zenon DEF Broadcast
  <2> QED
    BY <2>2, <2>3, <2>4 DEF streamVars
<1>6. ASSUME NEW c \in Client, Subscribe(c) PROVE TypeOK'
  <2> DEFINE n == IF pc \in {"push", "send"} THEN nextSeq - 1 ELSE nextSeq
  <2>1. cursor' = [cursor EXCEPT ![c] = sent] /\ cursor' \in [Client -> Nat]
    BY <1>6 DEF Subscribe
  <2>2. seen' = [seen EXCEPT ![c] = <<>>] /\ seen' \in [Client -> Seq(Nat)]
    BY <1>6 DEF Subscribe
  <2>3. since' = [since EXCEPT ![c] = n] /\ since' \in [Client -> Nat]
    BY <1>6 DEF Subscribe
  <2>4. lagged' \in [Client -> BOOLEAN] /\ connected' \subseteq Client
    BY <1>6 DEF Subscribe
  <2>5. UNCHANGED <<queue, dropped, offered, workerVars, hitBuffer, ring, sent>>
    BY <1>6, Zenon DEF Subscribe
  <2> QED
    BY <2>1, <2>2, <2>3, <2>4, <2>5 DEF workerVars
<1>7. ASSUME NEW c \in Client, Disconnect(c) PROVE TypeOK'
  BY <1>7 DEF Disconnect, workerVars
<1>8. ASSUME NEW c \in Client, SkipLagged(c) PROVE TypeOK'
  BY <1>8 DEF SkipLagged, Overrun, workerVars
<1>9. ASSUME NEW c \in Client, Deliver(c) PROVE TypeOK'
  <2> DEFINE k == cursor[c] + 1
             i == k - (sent - Len(ring))
  <2>1. Len(ring) \in Nat /\ cursor[c] \in Nat
    BY LenProperties
  <2>2. i \in 1..Len(ring)
    <3>1. cursor[c] < sent /\ ~(cursor[c] < sent - Len(ring)) /\ sent \in Nat
      BY <1>9 DEF Deliver, Overrun
    <3> HIDE DEF TypeOK
    <3> QED
      BY <2>1, <3>1
  <2>3. ring[i].seq \in Nat
    <3>1. ring[i] \in Hit
      BY <2>2, ElementOfSeq
    <3> QED
      BY <3>1
  <2>4. Append(seen[c], ring[i].seq) \in Seq(Nat)
    BY <2>3, AppendProperties
  <2>5. cursor' = [cursor EXCEPT ![c] = k] /\ seen' = [seen EXCEPT ![c] = Append(seen[c], ring[i].seq)]
    BY <1>9, Zenon DEF Deliver
  <2>6. UNCHANGED <<queue, dropped, offered, workerVars, hitBuffer, ring, sent,
                    connected, since, lagged>>
    BY <1>9, Zenon DEF Deliver
  <2>7. cursor' \in [Client -> Nat]
    BY <2>1, <2>5
  <2>8. seen' \in [Client -> Seq(Nat)]
    BY <2>4, <2>5, Zenon
  <2> QED
    BY <2>6, <2>7, <2>8 DEF workerVars
<1>10. CASE UNCHANGED vars
  BY <1>10 DEF vars, workerVars, streamVars
<1> QED
  BY <1>1, <1>2, <1>3, <1>4, <1>5, <1>6, <1>7, <1>8, <1>9, <1>10 DEF Next, Worker, Stream

(* Every variable always has its type, and the worker holds what its place says. *)
THEOREM TypeCorrect == Spec => []TypeOK
BY InitTypeOK, NextTypeOK, PTL DEF Spec

-----------------------------------------------------------------------------
(* Accounting                                                              *)

LEMMA InitAccounting == Init => Counted
<1> SUFFICES ASSUME Init PROVE Counted
  OBVIOUS
<1>1. queue = <<>> /\ dropped = 0 /\ offered = 0 /\ nextSeq = 0 /\ pc # "make"
  BY DEF Init
<1>2. Len(queue) = 0
  BY <1>1, EmptySeq
<1> QED
  BY <1>1, <1>2 DEF Counted

LEMMA NextAccounting == TypeOK /\ Counted /\ [Next]_vars => Counted'
<1> SUFFICES ASSUME TypeOK, Counted, [Next]_vars PROVE Counted'
  OBVIOUS
<1>0. Len(queue) \in Nat /\ dropped \in Nat /\ offered \in Nat /\ nextSeq \in Nat
  BY LenProperties DEF TypeOK
<1>1. ASSUME NEW s \in Sample, TrySend(s) PROVE Counted'
  <2>1. CASE Accepts /\ queue' = Append(queue, s) /\ UNCHANGED dropped
    <3>1. Len(queue') = Len(queue) + 1
      BY <2>1, AppendProperties DEF TypeOK
    <3> QED
      BY <1>0, <1>1, <2>1, <3>1 DEF TrySend, Counted, Accepts, workerVars
  <2>2. CASE ~Accepts /\ dropped' = dropped + 1 /\ UNCHANGED queue
    BY <1>0, <1>1, <2>2 DEF TrySend, Counted, workerVars
  <2> QED
    BY <1>1, <2>1, <2>2 DEF TrySend
<1>2. CASE Recv
  <2>1. Len(queue') = Len(queue) - 1
    BY <1>2, HeadTailProperties DEF Recv, TypeOK
  <2> QED
    BY <1>0, <1>2, <2>1 DEF Recv, Counted
<1>3. CASE MakeHit
  BY <1>0, <1>3 DEF MakeHit, Counted
<1>4. CASE PushHit
  BY <1>4 DEF PushHit, Counted
<1>5. CASE Broadcast
  BY <1>5 DEF Broadcast, Counted
<1>6. ASSUME NEW c \in Client, Stream(c) PROVE Counted'
  BY <1>6 DEF Stream, Subscribe, Disconnect, SkipLagged, Deliver, workerVars, Counted
<1>7. CASE UNCHANGED vars
  BY <1>7 DEF vars, workerVars, Counted
<1> QED
  BY <1>1, <1>2, <1>3, <1>4, <1>5, <1>6, <1>7 DEF Next, Worker

(* No sample is ever lost without being counted in dropped_samples, and the queue stays
   within its capacity. *)
THEOREM NoSampleUncounted == Spec => []Accounting
<1>1. Init => TypeOK /\ Counted
  BY InitTypeOK, InitAccounting
<1>2. TypeOK /\ Counted /\ [Next]_vars => TypeOK' /\ Counted'
  BY NextTypeOK, NextAccounting
<1> QED
  BY <1>1, <1>2, PTL DEF Spec, Accounting

-----------------------------------------------------------------------------
(* GET /hits                                                               *)

LEMMA InitBufferIsTail == Init => BufferIsTail
<1> SUFFICES ASSUME Init PROVE BufferIsTail
  OBVIOUS
<1>1. hitBuffer = <<>> /\ nextSeq = 0 /\ pc # "push"
  BY DEF Init
<1>2. Len(hitBuffer) = 0
  BY <1>1, EmptySeq
<1> QED
  BY <1>1, <1>2 DEF BufferIsTail, Pushed

LEMMA NextBufferIsTail == TypeOK /\ BufferIsTail /\ [Next]_vars => BufferIsTail'
<1> SUFFICES ASSUME TypeOK, BufferIsTail, [Next]_vars PROVE BufferIsTail'
  OBVIOUS
<1>0. Len(hitBuffer) \in Nat /\ nextSeq \in Nat
  BY LenProperties DEF TypeOK
<1>1. CASE UNCHANGED <<hitBuffer, pc, nextSeq>>
  BY <1>1 DEF BufferIsTail, Pushed
<1>2. CASE Recv
  BY <1>2 DEF Recv, BufferIsTail, Pushed
<1>3. CASE MakeHit
  BY <1>0, <1>3 DEF MakeHit, BufferIsTail, Pushed
<1>4. CASE PushHit
  <2>1. hit \in Hit /\ hit.seq = nextSeq /\ nextSeq > 0 /\ hitBuffer \in Seq(Hit)
    BY <1>4 DEF PushHit, TypeOK
  <2>2. Pushed = nextSeq - 1 /\ Pushed' = nextSeq /\ Pushed \in Nat
    BY <1>0, <1>4, <2>1 DEF PushHit, Pushed
  <2>3. Len(hitBuffer) = IF Pushed < HitLimit THEN Pushed ELSE HitLimit
    BY DEF BufferIsTail
  <2>4. \A i \in 1..Len(hitBuffer) : hitBuffer[i].seq = Pushed - Len(hitBuffer) + i
    BY DEF BufferIsTail
  <2> DEFINE b == Retain(hitBuffer, hit)
  <2>5. /\ b \in Seq(Hit)
        /\ Len(b) = IF Len(hitBuffer) < HitLimit THEN Len(hitBuffer) + 1 ELSE HitLimit
        /\ HitLimit > 0 => b[Len(b)] = hit
        /\ \A i \in 1..Len(b) - 1 : b[i] = hitBuffer[Len(hitBuffer) - (Len(b) - 1) + i]
    <3>1. Len(hitBuffer) <= HitLimit
      BY <2>2, <2>3
    <3> QED
      BY <2>1, <3>1, RetainProperties
  <2>6. hitBuffer' = b
    BY <1>4 DEF PushHit
  <2> HIDE DEF b
  <2>7. Len(b) = IF nextSeq < HitLimit THEN nextSeq ELSE HitLimit
    BY <1>0, <2>1, <2>2, <2>3, <2>5
  <2>8. ASSUME NEW i \in 1..Len(b) PROVE b[i].seq = nextSeq - Len(b) + i
    <3>1. CASE i = Len(b)
      <4>1. HitLimit > 0 /\ Len(b) \in Nat
        BY <1>0, <2>7
      <4>2. b[i].seq = nextSeq
        BY <2>1, <2>5, <3>1, <4>1
      <4> QED
        BY <1>0, <3>1, <4>1, <4>2
    <3>2. CASE i < Len(b)
      <4> DEFINE j == Len(hitBuffer) - (Len(b) - 1) + i
      <4>1. b[i] = hitBuffer[j] /\ j \in 1..Len(hitBuffer)
        BY <1>0, <2>2, <2>3, <2>5, <2>7, <3>2
      <4>2. hitBuffer[j].seq = Pushed - Len(hitBuffer) + j
        BY <2>4, <4>1
      <4> QED
        BY <1>0, <2>2, <2>7, <4>1, <4>2
    <3> QED
      BY <1>0, <2>7, <3>1, <3>2
  <2> QED
    BY <2>2, <2>6, <2>7, <2>8 DEF BufferIsTail
<1>5. CASE Broadcast
  BY <1>5 DEF Broadcast, BufferIsTail, Pushed
<1> QED
  BY <1>1, <1>2, <1>3, <1>4, <1>5
  DEF Next, Worker, TrySend, Stream, Subscribe, Disconnect, SkipLagged, Deliver,
      vars, workerVars

(* What GET /hits shows follows from what the buffer holds. *)
LEMMA ShownFromBuffer == TypeOK /\ BufferIsTail => HitsShownAreTheLast
<1> SUFFICES ASSUME TypeOK, BufferIsTail, NEW limit \in 0..HitLimit + 1
             PROVE  LET shown == GetHits(limit)
                    IN  /\ Len(shown) = IF limit < Len(hitBuffer) THEN limit ELSE Len(hitBuffer)
                        /\ \A i \in 1..Len(shown) : shown[i].seq = Pushed - Len(shown) + i
  BY DEF HitsShownAreTheLast
<1>1. hitBuffer \in Seq(Hit) /\ Len(hitBuffer) \in Nat /\ limit \in Nat
  BY LenProperties DEF TypeOK
<1>2. Pushed \in Int
  BY DEF Pushed, TypeOK
<1> DEFINE shown == LastN(hitBuffer, limit)
<1>3. /\ Len(shown) = IF limit < Len(hitBuffer) THEN limit ELSE Len(hitBuffer)
      /\ \A i \in 1..Len(shown) : shown[i] = hitBuffer[Len(hitBuffer) - Len(shown) + i]
  BY <1>1, LastNProperties
<1>4. \A i \in 1..Len(hitBuffer) : hitBuffer[i].seq = Pushed - Len(hitBuffer) + i
  BY DEF BufferIsTail
<1> HIDE DEF shown
<1>5. ASSUME NEW i \in 1..Len(shown) PROVE shown[i].seq = Pushed - Len(shown) + i
  <2> DEFINE j == Len(hitBuffer) - Len(shown) + i
  <2>1. j \in 1..Len(hitBuffer)
    BY <1>1, <1>3
  <2>2. shown[i] = hitBuffer[j]
    BY <1>3
  <2>3. hitBuffer[j].seq = Pushed - Len(hitBuffer) + j
    BY <1>4, <2>1
  <2> QED
    BY <1>1, <1>2, <1>3, <2>1, <2>2, <2>3
<1> QED
  BY <1>3, <1>5 DEF GetHits, shown

(* GET /hits always shows the newest hits, gap-free and in order, for every limit. *)
THEOREM GetHitsCorrect == Spec => []HitsShownAreTheLast
<1>1. Init => TypeOK /\ BufferIsTail
  BY InitTypeOK, InitBufferIsTail
<1>2. TypeOK /\ BufferIsTail /\ [Next]_vars => TypeOK' /\ BufferIsTail'
  BY NextTypeOK, NextBufferIsTail
<1> QED
  BY <1>1, <1>2, ShownFromBuffer, PTL DEF Spec

-----------------------------------------------------------------------------
(* /hits/stream: the streams' properties are not inductive, they need to   *)
(* know which hits the channel still holds for a receiver, and that is     *)
(* what Follows adds                                                       *)

\* What was shown on a connection, also one that is closed by now.
Shown(c) ==
  /\ \A i \in 1..Len(seen[c]) - 1 : seen[c][i] < seen[c][i + 1]
  /\ ~lagged[c] => \A i \in 1..Len(seen[c]) : seen[c][i] = since[c] + i
  /\ \A i \in 1..Len(seen[c]) : 0 < seen[c][i] /\ seen[c][i] <= Broadcasted

\* Where the receiver of an open connection is: the messages behind its cursor are the
\* latest hits without a gap, and everything it has shown is older.
Follows(c) ==
  /\ cursor[c] <= sent
  /\ since[c] + (sent - cursor[c]) <= Broadcasted
  /\ \A i \in 1..Len(ring) :
       cursor[c] < sent - Len(ring) + i => ring[i].seq = Broadcasted - (Len(ring) - i)
  /\ \A i \in 1..Len(seen[c]) : seen[c][i] <= Broadcasted - (sent - cursor[c])
  /\ ~lagged[c] => since[c] + Len(seen[c]) + (sent - cursor[c]) = Broadcasted

StreamInv ==
  /\ Len(ring) <= sent
  /\ \A c \in Client : Shown(c)
  /\ \A c \in connected : Follows(c)

LEMMA InitStreamInv == Init => StreamInv
<1> SUFFICES ASSUME Init PROVE StreamInv
  OBVIOUS
<1>1. Len(ring) = 0 /\ sent = 0 /\ connected = {}
  BY DEF Init
<1>2. \A c \in Client : Len(seen[c]) = 0
  BY DEF Init
<1> QED
  BY <1>1, <1>2 DEF StreamInv, Shown

\* The numbers a step computes with.
LEMMA Counts ==
  ASSUME TypeOK
  PROVE  /\ Len(ring) \in Nat /\ sent \in Nat /\ nextSeq \in Nat /\ Broadcasted \in Nat
         /\ \A c \in Client : /\ cursor[c] \in Nat /\ since[c] \in Nat
                              /\ seen[c] \in Seq(Nat) /\ Len(seen[c]) \in Nat
                              /\ \A i \in 1..Len(seen[c]) : seen[c][i] \in Nat
         /\ \A i \in 1..Len(ring) : ring[i] \in Hit /\ ring[i].seq \in Nat
<1>1. Len(ring) \in Nat /\ \A i \in 1..Len(ring) : ring[i] \in Hit
  BY LenProperties, ElementOfSeq DEF TypeOK
<1>2. ASSUME NEW c \in Client
      PROVE  seen[c] \in Seq(Nat) /\ Len(seen[c]) \in Nat /\ \A i \in 1..Len(seen[c]) : seen[c][i] \in Nat
  <2>1. seen[c] \in Seq(Nat)
    BY DEF TypeOK
  <2> QED
    BY <2>1, LenProperties, ElementOfSeq
<1>3. \A i \in 1..Len(ring) : ring[i].seq \in Nat
  BY <1>1 DEF Hit
<1> QED
  BY <1>1, <1>2, <1>3 DEF TypeOK, Broadcasted

\* The identities that the steps below compute with: b hits broadcast, s messages sent, a
\* cursor at k.
LEMMA Distance ==
  ASSUME NEW b \in Nat, NEW s \in Nat, NEW k \in Nat
  PROVE  /\ (b + 1) - ((s + 1) - k) = b - (s - k)
         /\ b - (s - (k + 1)) = b - (s - k) + 1
         /\ b - (s - k) \in Int
  OBVIOUS

\* A step that is nothing to the streams.
LEMMA QuietStep ==
  ASSUME StreamInv, UNCHANGED <<ring, sent, streamVars>>, Broadcasted' = Broadcasted
  PROVE  StreamInv'
  BY DEF StreamInv, Shown, Follows, streamVars

LEMMA BroadcastStep ==
  ASSUME TypeOK, StreamInv, Broadcast
  PROVE  StreamInv'
<1>1. /\ hit \in Hit /\ hit.seq = nextSeq /\ nextSeq > 0
      /\ Broadcasted = nextSeq - 1 /\ Broadcasted' = nextSeq
      /\ UNCHANGED streamVars
  BY DEF Broadcast, TypeOK, Broadcasted
<1>2. \A c \in Client : Shown(c)'
  BY <1>1, Counts DEF StreamInv, Shown, streamVars
<1>3. CASE connected = {}
  BY <1>1, <1>2, <1>3 DEF Broadcast, StreamInv, streamVars
<1>4. CASE connected # {}
  <2> DEFINE full == Append(ring, hit)
             kept == LastN(full, BroadcastCap)
  <2>1. ring' = kept /\ sent' = sent + 1
    BY <1>4 DEF Broadcast
  <2>2. /\ full \in Seq(Hit) /\ Len(full) = Len(ring) + 1
        /\ \A i \in 1..Len(ring) : full[i] = ring[i]
        /\ full[Len(ring) + 1] = hit
    BY <1>1, AppendProperties DEF TypeOK
  <2>3. /\ Len(kept) = IF BroadcastCap < Len(full) THEN BroadcastCap ELSE Len(full)
        /\ \A i \in 1..Len(kept) : kept[i] = full[Len(full) - Len(kept) + i]
    <3>1. full \in Seq(Hit) /\ BroadcastCap \in Nat
      BY <2>2
    <3> HIDE DEF full
    <3> QED
      BY <3>1, LastNProperties
  <2> HIDE DEF full, kept
  <2>4. Len(ring)' <= sent'
    BY <2>1, <2>2, <2>3, Counts DEF StreamInv
  <2>5. ASSUME NEW c \in connected PROVE Follows(c)'
    <3>1. c \in Client /\ Follows(c)
      BY DEF TypeOK, StreamInv
    <3>0. /\ cursor[c] \in Nat /\ since[c] \in Nat /\ Len(seen[c]) \in Nat
          /\ sent \in Nat /\ Len(ring) \in Nat /\ Broadcasted \in Nat /\ nextSeq \in Nat
      BY <3>1, Counts
    <3>2. cursor'[c] = cursor[c] /\ since'[c] = since[c] /\ seen'[c] = seen[c] /\ lagged'[c] = lagged[c]
      BY <1>1 DEF streamVars
    <3>3. ASSUME NEW i \in 1..Len(kept), cursor[c] < sent + 1 - Len(kept) + i
          PROVE  kept[i].seq = nextSeq - (Len(kept) - i)
      <4> DEFINE j == Len(full) - Len(kept) + i
      <4>0. i \in Nat /\ Len(kept) \in Nat /\ Len(kept) <= Len(full) /\ Len(full) = Len(ring) + 1
        BY <2>2, <2>3, <3>0
      <4>1. kept[i] = full[j]
        BY <2>3
      <4>5. j \in 1..Len(ring) + 1
        BY <3>0, <4>0
      <4>2. CASE j = Len(ring) + 1
        BY <1>1, <2>2, <3>0, <4>0, <4>1, <4>2
      <4>3. CASE j \in 1..Len(ring)
        <5>1. cursor[c] < sent - Len(ring) + j
          BY <3>0, <3>3, <4>0
        <5>2. ring[j].seq = Broadcasted - (Len(ring) - j)
          BY <3>1, <4>3, <5>1 DEF Follows
        <5>3. Len(kept) - i = Len(ring) + 1 - j /\ j \in Nat
          BY <3>0, <4>0
        <5>4. kept[i] = ring[j]
          BY <2>2, <4>1, <4>3
        <5> QED
          BY <1>1, <3>0, <4>0, <5>2, <5>3, <5>4
      <4> QED
        <5>1. j = Len(ring) + 1 \/ j \in 1..Len(ring)
          BY <3>0, <4>5
        <5> QED
          BY <4>2, <4>3, <5>1, Zenon
    <3>4. cursor'[c] <= sent' /\ since'[c] + (sent' - cursor'[c]) <= Broadcasted'
      BY <1>1, <2>1, <3>0, <3>1, <3>2 DEF Follows
    <3>5. \A i \in 1..Len(seen'[c]) : seen'[c][i] <= Broadcasted' - (sent' - cursor'[c])
      <4>1. \A i \in 1..Len(seen[c]) : seen[c][i] <= Broadcasted - (sent - cursor[c])
        BY <3>1 DEF Follows
      <4>2. Broadcasted' - (sent' - cursor'[c]) = Broadcasted - (sent - cursor[c])
        <5>1. Broadcasted' = Broadcasted + 1 /\ sent' = sent + 1
          BY <1>1, <2>1, <3>0
        <5>2. (Broadcasted + 1) - ((sent + 1) - cursor[c]) = Broadcasted - (sent - cursor[c])
          BY <3>0, Distance
        <5> QED
          BY <3>2, <5>1, <5>2, Zenon
      <4> QED
        BY <3>2, <4>1, <4>2
    <3>6. ~lagged'[c] => since'[c] + Len(seen'[c]) + (sent' - cursor'[c]) = Broadcasted'
      <4> SUFFICES ASSUME ~lagged'[c]
                   PROVE  since'[c] + Len(seen'[c]) + (sent' - cursor'[c]) = Broadcasted'
        OBVIOUS
      <4>1. since[c] + Len(seen[c]) + (sent - cursor[c]) = Broadcasted
        BY <3>1, <3>2, Zenon DEF Follows
      <4>2. Len(seen'[c]) = Len(seen[c])
        BY <3>2
      <4>3. Broadcasted' = Broadcasted + 1 /\ sent' = sent + 1
        BY <1>1, <2>1, <3>0
      <4>4. PICK d \in Int : d = sent - cursor[c]
        BY <3>0
      <4>5. (sent + 1) - cursor[c] = d + 1
        BY <3>0, <4>4
      <4>6. PICK m \in Nat : m = since[c] + Len(seen[c])
        BY <3>0
      <4>7. m + (d + 1) = Broadcasted + 1
        BY <4>1, <4>4, <4>6
      <4> QED
        BY <3>2, <4>2, <4>3, <4>5, <4>6, <4>7, Zenon
    <3>7. \A i \in 1..Len(ring') :
            cursor'[c] < sent' - Len(ring') + i => ring'[i].seq = Broadcasted' - (Len(ring') - i)
      <4>1. cursor'[c] = cursor[c] /\ sent' = sent + 1 /\ ring' = kept /\ Broadcasted' = nextSeq
        BY <1>1, <2>1, <3>2
      <4>2. Len(ring') = Len(kept)
        BY <4>1
      <4> SUFFICES ASSUME NEW i \in 1..Len(kept), cursor'[c] < sent' - Len(ring') + i
                   PROVE  ring'[i].seq = Broadcasted' - (Len(ring') - i)
        BY <4>2
      <4>3. cursor[c] < sent + 1 - Len(kept) + i
        <5>1. sent' = sent + 1 /\ Len(ring') = Len(kept) /\ cursor'[c] = cursor[c]
          BY <4>1, <4>2
        <5>2. Len(kept) \in Nat /\ i \in Nat
          BY <2>2, <2>3, <3>0
        <5>3. sent' - Len(ring') + i = sent + 1 - Len(kept) + i
          BY <3>0, <5>1, <5>2
        <5>4. cursor'[c] < sent' - Len(ring') + i
          OBVIOUS
        <5> QED
          BY <5>1, <5>3, <5>4
      <4>4. kept[i].seq = nextSeq - (Len(kept) - i)
        BY <3>3, <4>3
      <4>5. ring'[i] = kept[i] /\ Broadcasted' - (Len(ring') - i) = nextSeq - (Len(kept) - i)
        BY <4>1
      <4> QED
        BY <4>4, <4>5
    <3> QED
      BY <3>4, <3>5, <3>6, <3>7 DEF Follows
  <2> QED
    BY <1>1, <1>2, <2>4, <2>5 DEF StreamInv, streamVars
<1> QED
  BY <1>3, <1>4

\* A step of one client leaves the others where they are.
LEMMA OthersStay ==
  ASSUME TypeOK, StreamInv, NEW c \in Client, Stream(c), NEW d \in Client, d # c
  PROVE  Shown(d)' /\ (d \in connected' => Follows(d)')
<1>1. /\ UNCHANGED <<ring, sent>> /\ Broadcasted' = Broadcasted
      /\ UNCHANGED <<cursor[d], since[d], seen[d], lagged[d]>>
      /\ d \in connected' => d \in connected
  BY DEF TypeOK, Stream, Subscribe, Disconnect, SkipLagged, Deliver, Broadcasted, workerVars
<1> QED
  BY <1>1 DEF StreamInv, Shown, Follows

LEMMA SubscribeStep ==
  ASSUME TypeOK, StreamInv, NEW c \in Client, Subscribe(c)
  PROVE  Shown(c)' /\ Follows(c)'
<1>1. /\ UNCHANGED <<ring, sent>> /\ Broadcasted' = Broadcasted
      /\ cursor'[c] = sent /\ since'[c] = Broadcasted /\ seen'[c] = <<>>
  BY DEF TypeOK, Subscribe, Broadcasted, workerVars
<1>2. Len(seen'[c]) = 0
  BY <1>1
<1> QED
  BY <1>1, <1>2, Counts DEF Shown, Follows, StreamInv

LEMMA SkipLaggedStep ==
  ASSUME TypeOK, StreamInv, NEW c \in Client, SkipLagged(c)
  PROVE  Shown(c)' /\ Follows(c)'
<1>0. /\ cursor[c] \in Nat /\ since[c] \in Nat /\ Len(seen[c]) \in Nat
      /\ sent \in Nat /\ Len(ring) \in Nat /\ Broadcasted \in Nat
  BY Counts
<1>1. /\ UNCHANGED <<ring, sent, seen, since>> /\ Broadcasted' = Broadcasted
      /\ cursor'[c] = sent - Len(ring) /\ lagged'[c] = TRUE
      /\ cursor[c] < sent - Len(ring) /\ c \in connected
  BY DEF TypeOK, SkipLagged, Overrun, Broadcasted, workerVars
<1>2. Shown(c) /\ Follows(c) /\ Len(ring) <= sent
  BY <1>1 DEF StreamInv
<1>3. Shown(c)'
  BY <1>1, <1>2 DEF Shown
<1>4. since[c] + (sent' - cursor'[c]) <= Broadcasted /\ cursor'[c] <= sent
  BY <1>0, <1>1, <1>2 DEF Follows
<1>5. \A i \in 1..Len(ring) :
        cursor'[c] < sent - Len(ring) + i => ring[i].seq = Broadcasted - (Len(ring) - i)
  <2>1. \A i \in 1..Len(ring) :
          cursor[c] < sent - Len(ring) + i => ring[i].seq = Broadcasted - (Len(ring) - i)
    BY <1>2 DEF Follows
  <2> SUFFICES ASSUME NEW i \in 1..Len(ring)
               PROVE  ring[i].seq = Broadcasted - (Len(ring) - i)
    OBVIOUS
  <2>2. cursor[c] < sent - Len(ring) + i
    BY <1>0, <1>1
  <2> QED
    BY <2>1, <2>2
<1>6. \A i \in 1..Len(seen[c]) : seen[c][i] <= Broadcasted - (sent - cursor'[c])
  <2>1. \A i \in 1..Len(seen[c]) : seen[c][i] <= Broadcasted - (sent - cursor[c])
    BY <1>2 DEF Follows
  <2> SUFFICES ASSUME NEW i \in 1..Len(seen[c])
               PROVE  seen[c][i] <= Broadcasted - (sent - cursor'[c])
    OBVIOUS
  <2>2. seen[c][i] \in Nat /\ seen[c][i] <= Broadcasted - (sent - cursor[c])
    BY <2>1, Counts
  <2>3. Broadcasted - (sent - cursor'[c]) = Broadcasted - Len(ring)
    BY <1>0, <1>1
  <2>4. Len(ring) < sent - cursor[c]
    BY <1>0, <1>1
  <2>5. Broadcasted - (sent - cursor[c]) <= Broadcasted - Len(ring)
    BY <1>0, <2>4
  <2>6. Broadcasted - (sent - cursor[c]) \in Int /\ Broadcasted - Len(ring) \in Int
    BY <1>0
  <2> QED
    BY <2>2, <2>3, <2>5, <2>6
<1> QED
  BY <1>1, <1>3, <1>4, <1>5, <1>6 DEF Follows

LEMMA DeliverStep ==
  ASSUME TypeOK, StreamInv, NEW c \in Client, Deliver(c)
  PROVE  Shown(c)' /\ Follows(c)'
<1>0. /\ cursor[c] \in Nat /\ since[c] \in Nat /\ Len(seen[c]) \in Nat
      /\ sent \in Nat /\ Len(ring) \in Nat /\ Broadcasted \in Nat
  BY Counts
<1>1. Shown(c) /\ Follows(c) /\ Len(ring) <= sent
  BY DEF StreamInv, Deliver
<1>2. cursor[c] < sent /\ ~(cursor[c] < sent - Len(ring))
  BY DEF Deliver, Overrun
<1>3. PICK j \in 1..Len(ring) : j = (cursor[c] + 1) - (sent - Len(ring))
  BY <1>0, <1>1, <1>2
<1>4. PICK new : new = ring[j].seq
  OBVIOUS
<1>5. since[c] + (sent - cursor[c]) <= Broadcasted
  BY <1>1 DEF Follows
<1>6. new = Broadcasted - (sent - (cursor[c] + 1))
  <2>1. cursor[c] < sent - Len(ring) + j => ring[j].seq = Broadcasted - (Len(ring) - j)
    BY <1>1 DEF Follows
  <2>2. cursor[c] < sent - Len(ring) + j /\ Len(ring) - j = sent - (cursor[c] + 1)
    BY <1>0, <1>3
  <2> QED
    BY <1>4, <2>1, <2>2
<1>7. new \in Nat /\ 0 < new /\ new <= Broadcasted
  <2>1. PICK d \in Int : d = sent - cursor[c]
    BY <1>0
  <2>2. d > 0 /\ since[c] + d <= Broadcasted
    BY <1>0, <1>2, <1>5, <2>1
  <2>3. sent - (cursor[c] + 1) = d - 1
    BY <1>0, <2>1
  <2>4. new = Broadcasted - (d - 1)
    BY <1>6, <2>3
  <2> QED
    BY <1>0, <2>2, <2>4
<1>8. /\ UNCHANGED <<ring, sent, since, lagged>> /\ Broadcasted' = Broadcasted
      /\ cursor'[c] = cursor[c] + 1 /\ seen'[c] = Append(seen[c], new)
  <2>1. UNCHANGED <<ring, sent, since, lagged>> /\ Broadcasted' = Broadcasted
    BY DEF Deliver, Broadcasted, workerVars
  <2>2. /\ cursor'[c] = cursor[c] + 1
        /\ seen'[c] = Append(seen[c], ring[(cursor[c] + 1) - (sent - Len(ring))].seq)
    <3> DEFINE s == ring[(cursor[c] + 1) - (sent - Len(ring))].seq
    <3>1. cursor \in [Client -> Nat] /\ seen \in [Client -> Seq(Nat)]
      BY DEF TypeOK
    <3>2. cursor' = [cursor EXCEPT ![c] = cursor[c] + 1]
      BY Zenon DEF Deliver
    <3>3. seen' = [seen EXCEPT ![c] = Append(@, s)]
      BY Zenon DEF Deliver
    <3> HIDE DEF s
    <3>4. cursor'[c] = cursor[c] + 1 /\ seen'[c] = Append(seen[c], s)
      BY <3>1, <3>2, <3>3
    <3> QED
      BY <3>4 DEF s
  <2> QED
    BY <1>3, <1>4, <2>1, <2>2
<1>9. /\ Len(seen'[c]) = Len(seen[c]) + 1
      /\ \A i \in 1..Len(seen[c]) : seen'[c][i] = seen[c][i]
      /\ seen'[c][Len(seen[c]) + 1] = new
  BY <1>7, <1>8, Counts, AppendProperties
<1>10. \A i \in 1..Len(seen[c]) : seen[c][i] < new
  <2> SUFFICES ASSUME NEW i \in 1..Len(seen[c]) PROVE seen[c][i] < new
    OBVIOUS
  <2>1. seen[c][i] <= Broadcasted - (sent - cursor[c])
    BY <1>1 DEF Follows
  <2>2. seen[c][i] \in Nat
    BY Counts
  <2>3. /\ Broadcasted - (sent - cursor[c]) \in Int
        /\ Broadcasted - (sent - (cursor[c] + 1)) = Broadcasted - (sent - cursor[c]) + 1
    BY <1>0, Distance
  <2>4. new = Broadcasted - (sent - cursor[c]) + 1
    BY <1>6, <2>3
  <2> QED
    BY <2>1, <2>2, <2>3, <2>4
<1>11. Shown(c)'
  <2>1. ASSUME NEW i \in 1..Len(seen'[c]) - 1 PROVE seen'[c][i] < seen'[c][i + 1]
    <3>1. i \in 1..Len(seen[c])
      BY <1>0, <1>9, <2>1
    <3>2. seen'[c][i] = seen[c][i]
      BY <1>9, <3>1
    <3>3. CASE i = Len(seen[c])
      BY <1>9, <1>10, <3>1, <3>2, <3>3
    <3>4. CASE i \in 1..Len(seen[c]) - 1
      <4>1. seen[c][i] < seen[c][i + 1]
        BY <1>1, <3>4 DEF Shown
      <4>2. i + 1 \in 1..Len(seen[c])
        BY <1>0, <3>4
      <4>3. seen'[c][i + 1] = seen[c][i + 1]
        BY <1>9, <4>2
      <4> QED
        BY <3>2, <4>1, <4>3
    <3> QED
      BY <1>0, <3>1, <3>3, <3>4
  <2>2. ASSUME ~lagged'[c], NEW i \in 1..Len(seen'[c]) PROVE seen'[c][i] = since'[c] + i
    <3>1. ~lagged[c] /\ since'[c] = since[c]
      BY <1>8, <2>2
    <3>2. \A k \in 1..Len(seen[c]) : seen[c][k] = since[c] + k
      BY <1>1, <3>1, Zenon DEF Shown
    <3>3. since[c] + Len(seen[c]) + (sent - cursor[c]) = Broadcasted
      BY <1>1, <3>1, Zenon DEF Follows
    <3>4. new = since[c] + (Len(seen[c]) + 1)
      <4>1. Broadcasted - (sent - cursor[c]) = since[c] + Len(seen[c])
        <5>1. PICK d \in Int : d = sent - cursor[c]
          BY <1>0
        <5>2. PICK m \in Nat : m = since[c] + Len(seen[c])
          BY <1>0
        <5>3. m + d = Broadcasted
          BY <3>3, <5>1, <5>2
        <5>4. Broadcasted - d = m
          BY <5>3
        <5> QED
          BY <5>1, <5>2, <5>4
      <4>2. Broadcasted - (sent - (cursor[c] + 1)) = Broadcasted - (sent - cursor[c]) + 1
        BY <1>0, Distance
      <4>3. new = since[c] + Len(seen[c]) + 1
        BY <1>6, <4>1, <4>2
      <4> QED
        BY <1>0, <4>3
    <3>5. CASE i \in 1..Len(seen[c])
      BY <1>9, <3>1, <3>2, <3>5
    <3>6. CASE i = Len(seen[c]) + 1
      BY <1>9, <3>1, <3>4, <3>6
    <3>7. i \in 1..Len(seen[c]) \/ i = Len(seen[c]) + 1
      BY <1>0, <1>9, <2>2
    <3> QED
      BY <3>5, <3>6, <3>7, Zenon
  <2>3. ASSUME NEW i \in 1..Len(seen'[c])
        PROVE  0 < seen'[c][i] /\ seen'[c][i] <= Broadcasted'
    <3>1. CASE i \in 1..Len(seen[c])
      BY <1>1, <1>8, <1>9, <3>1 DEF Shown
    <3>2. CASE i = Len(seen[c]) + 1
      BY <1>7, <1>8, <1>9, <3>2
    <3> QED
      BY <1>0, <1>9, <2>3, <3>1, <3>2
  <2> QED
    BY <2>1, <2>2, <2>3 DEF Shown
<1>12. Follows(c)'
  <2>1. /\ Broadcasted' = Broadcasted /\ sent' = sent /\ since'[c] = since[c]
        /\ ring' = ring /\ cursor'[c] = cursor[c] + 1
    BY <1>8
  <2>2. ASSUME NEW i \in 1..Len(seen'[c])
        PROVE  seen'[c][i] <= Broadcasted' - (sent' - cursor'[c])
    <3>1. Broadcasted' - (sent' - cursor'[c]) = new
      BY <1>6, <2>1
    <3>2. CASE i \in 1..Len(seen[c])
      <4>1. seen[c][i] < new /\ seen[c][i] \in Nat
        BY <1>10, <3>2, Counts
      <4>2. seen'[c][i] = seen[c][i]
        BY <1>9, <3>2
      <4> QED
        BY <1>7, <3>1, <4>1, <4>2
    <3>3. CASE i = Len(seen[c]) + 1
      BY <1>7, <1>9, <3>1, <3>3
    <3> QED
      BY <1>0, <1>9, <2>2, <3>2, <3>3
  <2>3. \A i \in 1..Len(ring') :
          cursor'[c] < sent' - Len(ring') + i => ring'[i].seq = Broadcasted' - (Len(ring') - i)
    <3> SUFFICES ASSUME NEW i \in 1..Len(ring), cursor'[c] < sent - Len(ring) + i
                 PROVE  ring[i].seq = Broadcasted - (Len(ring) - i)
      BY <2>1
    <3>1. cursor[c] < sent - Len(ring) + i
      BY <1>0, <2>1
    <3> QED
      BY <1>1, <3>1 DEF Follows
  <2>4. cursor'[c] <= sent' /\ since'[c] + (sent' - cursor'[c]) <= Broadcasted'
    BY <1>0, <1>2, <1>5, <2>1
  <2>5. ~lagged'[c] => since'[c] + Len(seen'[c]) + (sent' - cursor'[c]) = Broadcasted'
    <3> SUFFICES ASSUME ~lagged'[c]
                 PROVE  since'[c] + Len(seen'[c]) + (sent' - cursor'[c]) = Broadcasted'
      OBVIOUS
    <3>1. ~lagged[c]
      BY <1>8
    <3>2. since[c] + Len(seen[c]) + (sent - cursor[c]) = Broadcasted
      BY <1>1, <3>1, Zenon DEF Follows
    <3> QED
      <4>1. PICK d \in Int : d = sent - cursor[c]
        BY <1>0
      <4>2. sent - (cursor[c] + 1) = d - 1
        BY <1>0, <4>1
      <4>3. PICK m \in Nat : m = since[c] + Len(seen[c])
        BY <1>0
      <4>4. since[c] + (Len(seen[c]) + 1) = m + 1
        BY <1>0, <4>3
      <4>5. (m + 1) + (d - 1) = Broadcasted
        BY <3>2, <4>1, <4>3
      <4> QED
        BY <1>9, <2>1, <4>2, <4>4, <4>5, Zenon
  <2> QED
    BY <2>2, <2>3, <2>4, <2>5 DEF Follows
<1> QED
  BY <1>11, <1>12

LEMMA NextStreamInv == TypeOK /\ StreamInv /\ [Next]_vars => StreamInv'
<1> SUFFICES ASSUME TypeOK, StreamInv, [Next]_vars PROVE StreamInv'
  OBVIOUS
<1>1. ASSUME NEW s \in Sample, TrySend(s) PROVE StreamInv'
  BY <1>1, QuietStep DEF TrySend, Broadcasted, workerVars
<1>2. CASE Recv
  BY <1>2, QuietStep DEF Recv, Broadcasted
<1>3. CASE MakeHit
  BY <1>3, QuietStep, Counts DEF MakeHit, Broadcasted
<1>4. CASE PushHit
  BY <1>4, QuietStep DEF PushHit, Broadcasted
<1>5. CASE Broadcast
  BY <1>5, BroadcastStep
<1>6. ASSUME NEW c \in Client, Stream(c) PROVE StreamInv'
  <2>1. Shown(c)' /\ (c \in connected' => Follows(c)')
    <3>1. CASE Subscribe(c)
      BY <3>1, SubscribeStep
    <3>2. CASE Disconnect(c)
      <4>1. UNCHANGED <<seen, since, lagged>> /\ Broadcasted' = Broadcasted /\ c \notin connected'
        BY <3>2 DEF Disconnect, Broadcasted, workerVars
      <4> QED
        BY <4>1 DEF StreamInv, Shown
    <3>3. CASE SkipLagged(c)
      BY <3>3, SkipLaggedStep
    <3>4. CASE Deliver(c)
      BY <3>4, DeliverStep
    <3> QED
      BY <1>6, <3>1, <3>2, <3>3, <3>4 DEF Stream
  <2>2. \A d \in Client : d # c => Shown(d)' /\ (d \in connected' => Follows(d)')
    BY <1>6, OthersStay
  <2>3. Len(ring)' <= sent' /\ connected' \subseteq Client
    BY <1>6 DEF TypeOK, StreamInv, Stream, Subscribe, Disconnect, SkipLagged, Deliver
  <2> QED
    BY <2>1, <2>2, <2>3 DEF StreamInv
<1>7. CASE UNCHANGED vars
  BY <1>7, QuietStep DEF vars, workerVars, Broadcasted
<1> QED
  BY <1>1, <1>2, <1>3, <1>4, <1>5, <1>6, <1>7 DEF Next, Worker

-----------------------------------------------------------------------------
LEMMA StreamInvariance == Spec => [](TypeOK /\ BufferIsTail /\ StreamInv)
<1>1. Init => TypeOK /\ BufferIsTail /\ StreamInv
  BY InitTypeOK, InitBufferIsTail, InitStreamInv
<1>2. TypeOK /\ BufferIsTail /\ StreamInv /\ [Next]_vars => (TypeOK /\ BufferIsTail /\ StreamInv)'
  BY NextTypeOK, NextBufferIsTail, NextStreamInv
<1> QED
  BY <1>1, <1>2, PTL DEF Spec

LEMMA FaithfulStreams == TypeOK /\ StreamInv => StreamFaithful
  BY DEF TypeOK, StreamInv, StreamFaithful, Shown, Follows

\* A stream that was never overrun misses nothing, and any stream shows hits in sequence
\* and once (server.rs:361-371).
THEOREM StreamsAreFaithful == Spec => []StreamFaithful
  BY FaithfulStreams, StreamInvariance, PTL

LEMMA StreamsBehind ==
  ASSUME TypeOK, BufferIsTail, StreamInv
  PROVE  StreamNeverAhead
<1> SUFFICES ASSUME HitLimit > 0, NEW c \in Client, NEW i \in 1..Len(seen[c])
             PROVE  hitBuffer # <<>> /\ seen[c][i] <= hitBuffer[Len(hitBuffer)].seq
  BY DEF StreamNeverAhead
<1>1. 0 < seen[c][i] /\ seen[c][i] <= Broadcasted
  BY DEF StreamInv, Shown
<1>2. seen[c][i] \in Nat /\ Broadcasted \in Nat /\ nextSeq \in Nat
  BY Counts
<1>3. Pushed \in Int /\ Broadcasted <= Pushed
  BY <1>2 DEF Pushed, Broadcasted
<1>4. Len(hitBuffer) \in Nat /\ Len(hitBuffer) = IF Pushed < HitLimit THEN Pushed ELSE HitLimit
  BY LenProperties DEF TypeOK, BufferIsTail
<1>5. Len(hitBuffer) > 0
  BY <1>1, <1>2, <1>3, <1>4
<1>6. hitBuffer[Len(hitBuffer)].seq = Pushed
  BY <1>3, <1>4, <1>5 DEF BufferIsTail
<1>7. hitBuffer # <<>>
  BY <1>5
<1> QED
  BY <1>1, <1>2, <1>3, <1>6, <1>7

\* No stream shows a hit that GET /hits does not know (server.rs:544-551).
THEOREM StreamsStayBehind == Spec => []StreamNeverAhead
  BY StreamsBehind, StreamInvariance, PTL

-----------------------------------------------------------------------------
(* The pipeline implements HitLog, as far as safety goes                   *)

\* What the log calls pending: the sample in the worker's hands, then the queue.
InHand == IF pc \in {"make", "push"} THEN <<hit.sample>> ELSE <<>>
Pending == InHand \o queue

\* A full buffer is cut to size before the push in the code, after it in the log.
LEMMA RetainIsLastN ==
  ASSUME NEW b \in Seq(Hit), NEW h \in Hit, Len(b) <= HitLimit
  PROVE  Retain(b, h) = LastN(Append(b, h), HitLimit)
<1> DEFINE r == Retain(b, h)
           full == Append(b, h)
           l == LastN(full, HitLimit)
<1>1. Len(b) \in Nat
  BY LenProperties
<1>2. /\ full \in Seq(Hit) /\ Len(full) = Len(b) + 1
      /\ \A i \in 1..Len(b) : full[i] = b[i]
      /\ full[Len(b) + 1] = h
  BY AppendProperties
<1>3. /\ r \in Seq(Hit)
      /\ Len(r) = IF Len(b) < HitLimit THEN Len(b) + 1 ELSE HitLimit
      /\ HitLimit > 0 => r[Len(r)] = h
      /\ \A i \in 1..Len(r) - 1 : r[i] = b[Len(b) - (Len(r) - 1) + i]
  BY RetainProperties
<1>4. /\ l \in Seq(Hit)
      /\ Len(l) = IF HitLimit < Len(full) THEN HitLimit ELSE Len(full)
      /\ \A i \in 1..Len(l) : l[i] = full[Len(full) - Len(l) + i]
  BY <1>2, LastNProperties
<1> HIDE DEF r, full, l
<1>5. Len(l) = Len(r) /\ Len(r) \in Nat /\ Len(r) <= Len(b) + 1 /\ Len(r) <= HitLimit
  BY <1>1, <1>2, <1>3, <1>4
<1>6. ASSUME NEW i \in 1..Len(r) PROVE r[i] = l[i]
  <2>1. l[i] = full[Len(full) - Len(l) + i]
    BY <1>4, <1>5
  <2>2. CASE i = Len(r)
    <3>1. HitLimit > 0 /\ Len(full) - Len(l) + i = Len(b) + 1
      BY <1>1, <1>2, <1>5, <2>2
    <3> QED
      BY <1>2, <1>3, <2>1, <2>2, <3>1
  <2>3. CASE i \in 1..Len(r) - 1
    <3>1. /\ Len(full) - Len(l) + i = Len(b) - (Len(r) - 1) + i
          /\ Len(b) - (Len(r) - 1) + i \in 1..Len(b)
      BY <1>1, <1>2, <1>5, <2>3
    <3> QED
      BY <1>2, <1>3, <2>1, <2>3, <3>1
  <2> QED
    BY <1>5, <2>2, <2>3
<1>7. r = l
  BY <1>3, <1>4, <1>5, <1>6, SeqEqual
<1> QED
  BY <1>7 DEF r, full, l

-----------------------------------------------------------------------------
LEMMA InitLog == Init => Log!Init
<1> SUFFICES ASSUME Init PROVE Log!Init
  OBVIOUS
<1>1. pc \in {"recv", "dead"} /\ queue = <<>> /\ hitBuffer = <<>> /\ nextSeq = 0
  BY DEF Init
<1>2. InHand = <<>> /\ Pushed = 0
  BY <1>1 DEF InHand, Pushed
<1>3. <<>> \o <<>> = <<>>
  BY ConcatEmptySeq, EmptySeq
<1> QED
  BY <1>1, <1>2, <1>3 DEF Log!Init, InHand

\* The log does not notice a step that leaves its three variables alone.
LEMMA StutterStep ==
  ASSUME Pending' = Pending, hitBuffer' = hitBuffer, Pushed' = Pushed
  PROVE  UNCHANGED Log!vars
  BY DEF Log!vars, Pending, InHand

\* A sample that the queue takes is pending behind all others.
LEMMA TrySendStep ==
  ASSUME TypeOK, NEW s \in Sample, TrySend(s)
  PROVE  [Log!Next]_(Log!vars)
<1>1. hitBuffer' = hitBuffer /\ Pushed' = Pushed /\ InHand' = InHand
  BY DEF TrySend, Pushed, InHand, workerVars
<1>2. CASE queue' = queue
  BY <1>1, <1>2, StutterStep DEF Pending
<1>3. CASE queue' = Append(queue, s)
  <2>1. InHand \in Seq(Sample) /\ queue \in Seq(Sample) /\ <<s>> \in Seq(Sample)
    BY DEF TypeOK, InHand, Hit
  <2>2. Append(queue, s) = queue \o <<s>>
    BY <2>1, AppendIsConcat
  <2>3. (InHand \o queue) \o <<s>> = InHand \o (queue \o <<s>>)
    BY <2>1, ConcatAssociative
  <2>4. Pending \in Seq(Sample)
    BY <2>1, ConcatProperties DEF Pending
  <2>5. Append(Pending, s) = Pending \o <<s>>
    BY <2>4, AppendIsConcat
  <2>6. Pending' = Append(Pending, s)
    BY <1>1, <1>3, <2>2, <2>3, <2>5 DEF Pending
  <2> QED
    BY <1>1, <2>6 DEF Log!Next, Log!Accept, Pending, InHand
<1> QED
  BY <1>2, <1>3 DEF TrySend

\* The worker takes the first sample: it stays the first pending one.
LEMMA RecvStep ==
  ASSUME TypeOK, Recv
  PROVE  UNCHANGED Log!vars
<1>1. hitBuffer' = hitBuffer /\ Pushed' = Pushed /\ InHand = <<>> /\ InHand' = <<Head(queue)>>
  BY DEF Recv, Pushed, InHand
<1>2. queue \in Seq(Sample) /\ queue # <<>> /\ queue' = Tail(queue)
  BY DEF TypeOK, Recv
<1>3. <<>> \o queue = queue
  BY <1>2, ConcatEmptySeq
<1>4. <<Head(queue)>> \o Tail(queue) = queue
  <2>1. /\ Head(queue) \in Sample /\ Tail(queue) \in Seq(Sample)
        /\ Len(Tail(queue)) = Len(queue) - 1
        /\ \A i \in 1..Len(Tail(queue)) : Tail(queue)[i] = queue[i + 1]
    BY <1>2, HeadTailProperties
  <2>2. <<Head(queue)>> \in Seq(Sample) /\ Len(<<Head(queue)>>) = 1 /\ <<Head(queue)>>[1] = queue[1]
    BY <1>2, <2>1
  <2> DEFINE joined == <<Head(queue)>> \o Tail(queue)
  <2>3. /\ joined \in Seq(Sample) /\ Len(joined) = 1 + Len(Tail(queue))
        /\ \A i \in 1..1 + Len(Tail(queue)) :
             joined[i] = IF i <= 1 THEN <<Head(queue)>>[i] ELSE Tail(queue)[i - 1]
    BY <2>1, <2>2, ConcatProperties
  <2>4. Len(queue) \in Nat
    BY <1>2, LenProperties
  <2> HIDE DEF joined
  <2>5. Len(joined) = Len(queue)
    BY <2>1, <2>3, <2>4
  <2>6. ASSUME NEW i \in 1..Len(queue) PROVE joined[i] = queue[i]
    <3>1. CASE i = 1
      BY <2>2, <2>3, <2>4, <2>5, <3>1
    <3>2. CASE i > 1
      <4>1. joined[i] = Tail(queue)[i - 1]
        BY <2>3, <2>4, <2>5, <3>2
      <4>2. i - 1 \in 1..Len(Tail(queue)) /\ (i - 1) + 1 = i
        BY <2>1, <2>4, <3>2
      <4> QED
        BY <2>1, <4>1, <4>2
    <3> QED
      BY <2>4, <3>1, <3>2
  <2>7. joined = queue
    BY <1>2, <2>3, <2>5, <2>6, SeqEqual
  <2> QED
    BY <2>7 DEF joined
<1>5. Pending' = Pending
  BY <1>1, <1>2, <1>3, <1>4 DEF Pending
<1> QED
  BY <1>1, <1>5, StutterStep

\* The push publishes the first pending sample, with the next number.
LEMMA PushHitStep ==
  ASSUME TypeOK, BufferIsTail, PushHit
  PROVE  Log!Next
<1>1. /\ hit \in Hit /\ hit.seq = nextSeq /\ nextSeq \in Nat /\ nextSeq > 0
      /\ queue \in Seq(Sample) /\ hitBuffer \in Seq(Hit)
      /\ InHand = <<hit.sample>> /\ InHand' = <<>>
      /\ Pushed = nextSeq - 1 /\ Pushed' = nextSeq
      /\ queue' = queue /\ hitBuffer' = Retain(hitBuffer, hit)
  BY DEF TypeOK, PushHit, InHand, Pushed
<1>2. hit = [seq |-> Pushed + 1, sample |-> hit.sample] /\ hit.sample \in Sample
  BY <1>1 DEF Hit
<1>3. Len(hitBuffer) <= HitLimit
  BY <1>1 DEF BufferIsTail
<1>4. hitBuffer' = LastN(Append(hitBuffer, hit), HitLimit)
  BY <1>1, <1>3, RetainIsLastN
<1>5. Pending' = queue
  BY <1>1, ConcatEmptySeq DEF Pending
<1>6. Pending # <<>> /\ Head(Pending) = hit.sample /\ Tail(Pending) = queue
  <2>1. /\ Pending \in Seq(Sample) /\ Len(Pending) = 1 + Len(queue)
        /\ \A i \in 1..1 + Len(queue) :
             Pending[i] = IF i <= 1 THEN <<hit.sample>>[i] ELSE queue[i - 1]
    <3>1. <<hit.sample>> \in Seq(Sample) /\ Len(<<hit.sample>>) = 1
      BY <1>2
    <3> QED
      BY <1>1, <3>1, ConcatProperties DEF Pending
  <2>2. Len(queue) \in Nat
    BY <1>1, LenProperties
  <2>3. Pending # <<>> /\ Pending[1] = hit.sample
    BY <2>1, <2>2
  <2>4. /\ Head(Pending) = Pending[1] /\ Tail(Pending) \in Seq(Sample)
        /\ Len(Tail(Pending)) = Len(queue)
        /\ \A i \in 1..Len(queue) : Tail(Pending)[i] = Pending[i + 1]
    BY <2>1, <2>2, <2>3, HeadTailProperties
  <2>5. \A i \in 1..Len(queue) : Tail(Pending)[i] = queue[i]
    <3> SUFFICES ASSUME NEW i \in 1..Len(queue) PROVE Tail(Pending)[i] = queue[i]
      OBVIOUS
    <3>1. i + 1 \in 1..1 + Len(queue) /\ ~(i + 1 <= 1) /\ (i + 1) - 1 = i
      BY <2>2
    <3> QED
      BY <2>1, <2>4, <3>1
  <2>6. Tail(Pending) = queue
    BY <1>1, <2>4, <2>5, SeqEqual
  <2> QED
    BY <2>3, <2>4, <2>6
<1>7. hit = [seq |-> Pushed + 1, sample |-> Head(Pending)]
  BY <1>2, <1>6
<1>8. hitBuffer' = LastN(Append(hitBuffer, [seq |-> Pushed + 1, sample |-> Head(Pending)]), HitLimit)
  BY <1>4, <1>7
<1>9. Pushed' = Pushed + 1
  BY <1>1
<1>10. Log!Publish
  BY <1>5, <1>6, <1>8, <1>9 DEF Log!Publish, Log!LastN, LastN, Pending, InHand
<1> QED
  BY <1>10 DEF Log!Next

LEMMA NextLog == TypeOK /\ BufferIsTail /\ [Next]_vars => [Log!Next]_(Log!vars)
<1> SUFFICES ASSUME TypeOK, BufferIsTail, [Next]_vars PROVE [Log!Next]_(Log!vars)
  OBVIOUS
<1>1. ASSUME NEW s \in Sample, TrySend(s) PROVE [Log!Next]_(Log!vars)
  BY <1>1, TrySendStep
<1>2. CASE Recv
  BY <1>2, RecvStep
<1>3. CASE MakeHit
  <2>1. hit'.sample = hit.sample /\ pc = "make" /\ pc' = "push" /\ Pushed' = Pushed
    BY <1>3 DEF TypeOK, MakeHit, Hit, Pushed
  <2>2. Pending' = Pending /\ hitBuffer' = hitBuffer
    BY <1>3, <2>1 DEF MakeHit, Pending, InHand
  <2> QED
    BY <2>1, <2>2, StutterStep
<1>4. CASE PushHit
  BY <1>4, PushHitStep
<1>5. CASE Broadcast
  BY <1>5, StutterStep DEF Broadcast, Pending, InHand, Pushed
<1>6. ASSUME NEW c \in Client, Stream(c) PROVE [Log!Next]_(Log!vars)
  BY <1>6, StutterStep DEF Stream, Subscribe, Disconnect, SkipLagged, Deliver, workerVars,
                           Pending, InHand, Pushed
<1>7. CASE UNCHANGED vars
  BY <1>7, StutterStep DEF vars, workerVars, Pending, InHand, Pushed
<1> QED
  BY <1>1, <1>2, <1>3, <1>4, <1>5, <1>6, <1>7 DEF Next, Worker

\* Samples come out as hits in the order they were accepted, each exactly once, numbered
\* without a gap, and GET /hits sees the last of them (server.rs:252-263, 542-578): every
\* behaviour of the pipeline is, step by step, one of the log.
THEOREM PipelineIsALog == Spec => Log!Init /\ [][Log!Next]_(Log!vars)
<1>1. Init => TypeOK /\ BufferIsTail /\ Log!Init
  BY InitTypeOK, InitBufferIsTail, InitLog
<1>2. TypeOK /\ BufferIsTail /\ [Next]_vars => (TypeOK /\ BufferIsTail)'
  BY NextTypeOK, NextBufferIsTail
<1> QED
  BY <1>1, <1>2, NextLog, PTL DEF Spec
=============================================================================

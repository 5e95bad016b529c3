-------------------------- MODULE DashboardProofs --------------------------
(***************************************************************************)
(* Proofs about Dashboard.tla for any number of servers, of loads under    *)
(* way and of connections.  The stream that is alive is the one the state  *)
(* refers to, because connect, openStream and the timer close what was     *)
(* there before they refer to another; and the page's server changes only  *)
(* where the stream is closed.                                             *)
(*                                                                         *)
(* What the table shows follows from how connect() orders its steps: the   *)
(* stream is closed before the list is asked for and opened after the list *)
(* is shown, so that a stream that was never open finds a list without a   *)
(* gap (Unfed), and each hit of it then goes after what is there or on its *)
(* way (StreamFits).                                                       *)
(***************************************************************************)
EXTENDS Dashboard, SequenceTheorems, TLAPS

USE DashboardAssumption DEF DashboardAssumption

Connection == [status : {"closed", "connecting", "open"}, server : Server \cup {None},
               queue : Seq(Nat), from : Nat, whole : BOOLEAN]

Types == hits \in [Server -> Nat] /\ apiBase \in Server /\ conn \in [Conn -> Connection]

\* What the state refers to: one stream at most, and a timer for no other.
Refs ==
  /\ eventSource \in Conn \cup {None} /\ streamAbort \in Conn \cup {None}
  /\ timer \in {None, eventSource}
  /\ eventSource = None \/ streamAbort = None

\* A connection that is alive is referred to and comes from the page's server.
Fed ==
  \A c \in Conn : conn[c].status # "closed" =>
    c \in {eventSource, streamAbort} /\ conn[c].server = apiBase

Inv == Types /\ Refs /\ Fed

LEMMA InitInv == Init => Inv
BY DEF Init, Inv, Types, Connection, Refs, Fed, Closed

LEMMA InvSuffices == Inv => OneLiveStream
BY DEF Inv, Types, Connection, Refs, Fed, OneLiveStream, Live

LEMMA ClosedType == Closed \in Connection /\ Closed.status = "closed"
BY DEF Closed, Connection

LEMMA ConnectingType ==
  apiBase \in Server =>
    Connecting \in Connection /\ Connecting.status = "connecting" /\ Connecting.server = apiBase
BY DEF Connecting, Connection

(* closeStream leaves nothing alive. *)
LEMMA CloseStreamCloses ==
  Inv => /\ CloseStream \in [Conn -> Connection]
         /\ \A c \in Conn : CloseStream[c].status = "closed"
<1> SUFFICES ASSUME Inv PROVE CloseStream \in [Conn -> Connection]
                              /\ \A c \in Conn : CloseStream[c].status = "closed"
  OBVIOUS
<1>1. ASSUME NEW c \in Conn
      PROVE  CloseStream[c] \in Connection /\ CloseStream[c].status = "closed"
  BY ClosedType DEF CloseStream, Inv, Types, Fed
<1> QED
  BY <1>1 DEF CloseStream

LEMMA NextInv == Inv /\ [Next]_vars => Inv'
<1> SUFFICES ASSUME Inv, [Next]_vars PROVE Inv'
  OBVIOUS
<1>1. ASSUME NEW s \in Server, Publish(s) PROVE Inv'
  <2>1. PICK slow \in BOOLEAN :
          conn' = [c \in Conn |->
                     IF conn[c].status = "open" /\ conn[c].server = s
                     THEN IF slow THEN [conn[c] EXCEPT !.whole = FALSE]
                          ELSE [conn[c] EXCEPT !.queue = Append(@, hits[s] + 1)]
                     ELSE conn[c]]
    BY <1>1 DEF Publish
  <2>2. hits' \in [Server -> Nat] /\ UNCHANGED <<apiBase, refs>>
    BY <1>1 DEF Publish, Inv, Types
  <2>3. ASSUME NEW c \in Conn
        PROVE  /\ conn'[c] \in Connection
               /\ conn'[c].status = conn[c].status /\ conn'[c].server = conn[c].server
    <3>1. conn[c] \in Connection /\ hits[s] + 1 \in Nat
      BY DEF Inv, Types
    <3>2. Append(conn[c].queue, hits[s] + 1) \in Seq(Nat)
      BY <3>1 DEF Connection
    <3>3. conn'[c] \in {conn[c], [conn[c] EXCEPT !.whole = FALSE],
                        [conn[c] EXCEPT !.queue = Append(conn[c].queue, hits[s] + 1)]}
      BY <2>1
    <3> QED
      BY <3>1, <3>2, <3>3 DEF Connection
  <2> QED
    BY <2>1, <2>2, <2>3 DEF Inv, Types, Refs, Fed, refs
<1>2. ASSUME NEW c \in Conn, Timeout(c) PROVE Inv'
  <2>1. CASE eventSource = timer /\ conn[timer].status # "open"
    <3>1. /\ conn' = [conn EXCEPT ![timer] = Closed, ![c] = Connecting]
          /\ eventSource' = None /\ streamAbort' = c /\ timer' = None
          /\ timer \in Conn /\ UNCHANGED <<hits, apiBase>>
      BY <1>2, <2>1 DEF Timeout, Inv, Refs
    <3>2. \A d \in Conn : d # timer => conn[d].status = "closed"
      BY <1>2, <2>1 DEF Timeout, Inv, Refs, Fed
    <3>3. ASSUME NEW d \in Conn
          PROVE  conn'[d] = IF d = c THEN Connecting ELSE IF d = timer THEN Closed ELSE conn[d]
      BY <3>1 DEF Inv, Types
    <3> QED
      BY <3>1, <3>2, <3>3, ClosedType, ConnectingType DEF Inv, Types, Refs, Fed
  <2>2. CASE ~(eventSource = timer /\ conn[timer].status # "open")
    BY <1>2, <2>2 DEF Timeout, Inv, Types, Refs, Fed
  <2> QED
    BY <2>1, <2>2
<1>3. ASSUME NEW c \in Conn, Opened(c) PROVE Inv'
  <2>1. /\ conn[c] \in Connection /\ conn[c].server = apiBase /\ hits[apiBase] \in Nat
        /\ conn[c].status # "closed"
    BY <1>3 DEF Opened, Inv, Types, Fed
  <2>2. /\ conn' = [conn EXCEPT ![c] = [conn[c] EXCEPT !.status = "open", !.from = hits[apiBase]]]
        /\ timer' = IF timer = c THEN None ELSE timer
        /\ UNCHANGED <<hits, apiBase, eventSource, streamAbort>>
    BY <1>3, <2>1 DEF Opened, Inv, Types
  <2>3. ASSUME NEW d \in Conn
        PROVE  /\ conn'[d] \in Connection /\ conn'[d].server = conn[d].server
               /\ conn'[d].status # "closed" => conn[d].status # "closed"
    BY <2>1, <2>2 DEF Inv, Types, Connection
  <2> QED
    BY <2>2, <2>3 DEF Inv, Types, Refs, Fed
<1>4. ASSUME NEW c \in Conn, Broken(c) PROVE Inv'
  <2>1. /\ \/ conn' = [conn EXCEPT ![c] = Closed]
           \/ conn' = [conn EXCEPT ![c] = [conn[c] EXCEPT !.status = "connecting",
                                                          !.queue = <<>>, !.whole = FALSE]]
        /\ conn[c].status # "closed" /\ UNCHANGED <<hits, apiBase, refs>>
    BY <1>4 DEF Broken, Live, Inv, Types
  <2>2. ASSUME NEW d \in Conn
        PROVE  /\ conn'[d] \in Connection
               /\ conn'[d].status # "closed" =>
                    conn[d].status # "closed" /\ conn'[d].server = conn[d].server
    <3>1. conn[d] \in Connection /\ <<>> \in Seq(Nat)
      BY DEF Inv, Types
    <3>2. \/ conn'[d] = conn[d]
          \/ conn'[d] = Closed
          \/ /\ conn'[d] = [conn[d] EXCEPT !.status = "connecting", !.queue = <<>>, !.whole = FALSE]
             /\ conn[d].status # "closed"
      BY <2>1 DEF Inv, Types
    <3>3. CASE conn'[d] = conn[d]
      BY <3>1, <3>3
    <3>4. CASE conn'[d] = Closed
      BY <3>4, ClosedType
    <3>5. CASE /\ conn'[d] = [conn[d] EXCEPT !.status = "connecting", !.queue = <<>>, !.whole = FALSE]
               /\ conn[d].status # "closed"
      BY <3>1, <3>5 DEF Connection
    <3> QED
      BY <3>2, <3>3, <3>4, <3>5
  <2> QED
    BY <2>1, <2>2 DEF Inv, Types, Refs, Fed, refs
<1>5. ASSUME NEW c \in Conn, HitEvent(c) PROVE Inv'
  <2>1. /\ conn' = [conn EXCEPT ![c] = [conn[c] EXCEPT !.queue = Tail(conn[c].queue)]]
        /\ conn[c].queue # <<>> /\ UNCHANGED <<hits, apiBase, refs>>
    BY <1>5 DEF HitEvent, Inv, Types
  <2>2. conn[c] \in Connection /\ Tail(conn[c].queue) \in Seq(Nat)
    BY <2>1 DEF Inv, Types, Connection
  <2>3. ASSUME NEW d \in Conn
        PROVE  /\ conn'[d] \in Connection
               /\ conn'[d].status = conn[d].status /\ conn'[d].server = conn[d].server
    BY <2>1, <2>2 DEF Inv, Types, Connection
  <2> QED
    BY <2>1, <2>3 DEF Inv, Types, Refs, Fed, refs
<1>6. ASSUME NEW k \in Load, NEW s \in Server, Connect(k, s) PROVE Inv'
  <2>1. /\ conn' = CloseStream /\ eventSource' = None /\ streamAbort' = None /\ timer' = None
        /\ hits' = hits /\ apiBase' \in Server
    BY <1>6 DEF Connect
  <2> QED
    BY <2>1, CloseStreamCloses DEF Inv, Types, Refs, Fed
<1>7. ASSUME NEW k \in Load, NEW c \in Conn, Refreshed(k, c) PROVE Inv'
  <2>1. /\ conn' = [CloseStream EXCEPT ![c] = Connecting]
        /\ eventSource' = c /\ streamAbort' = None /\ timer' = c
        /\ UNCHANGED <<hits, apiBase>>
    BY <1>7 DEF Refreshed, OpenStream
  <2>2. ASSUME NEW d \in Conn
        PROVE  conn'[d] = IF d = c THEN Connecting ELSE CloseStream[d]
    BY <2>1, CloseStreamCloses
  <2> QED
    BY <2>1, <2>2, CloseStreamCloses, ConnectingType DEF Inv, Types, Refs, Fed
<1>8. ASSUME UNCHANGED <<hits, apiBase, conn, refs>> PROVE Inv'
  BY <1>8 DEF Inv, Types, Refs, Fed, refs
<1>9. ASSUME NEW k \in Load, Answer(k) \/ Loaded(k) \/ Failed(k) PROVE Inv'
  BY <1>9, <1>8 DEF Answer, Loaded, Failed
<1>10. ASSUME NEW k \in Load, NEW l \in Limits, Reload(k, l) PROVE Inv'
  BY <1>10, <1>8 DEF Reload
<1>11. CASE Clear
  BY <1>11, <1>8 DEF Clear
<1>12. CASE UNCHANGED vars
  BY <1>12, <1>8 DEF vars
<1> QED
  BY <1>1, <1>2, <1>3, <1>4, <1>5, <1>6, <1>7, <1>9, <1>10, <1>11, <1>12 DEF Next

-----------------------------------------------------------------------------
\* However many connects, reloads and reconnects overlap, at most one stream feeds the
\* table, the state refers to it, and it is the page's own server's (app.js:116-131,
\* 202-262).
THEOREM AlwaysOneLiveStream == Spec => []OneLiveStream
<1>1. Init => Inv
  BY InitInv
<1>2. Inv /\ [Next]_vars => Inv'
  BY NextInv
<1>3. Inv => OneLiveStream
  BY InvSuffices
<1> QED
  BY <1>1, <1>2, <1>3, PTL DEF Spec

-----------------------------------------------------------------------------
(* Lists of rows                                                           *)

NRow == [server : Server, n : Nat]

\* Rows of server s without a gap, the last published among its first h hits.
Run(rows, s, h) ==
  /\ \A i \in 1..Len(rows) : rows[i].server = s /\ rows[i].n <= h
  /\ \A i, j \in 1..Len(rows) : rows[j].n + i = rows[i].n + j

\* The same with gaps.
Ordered(rows, s, h) ==
  /\ \A i \in 1..Len(rows) : rows[i].server = s /\ rows[i].n <= h
  /\ \A i, j \in 1..Len(rows) : i < j => rows[i].n < rows[j].n

\* Only the hits up to `from` may be missing, next to the one after it, and none at the end.
OneGap(rows, from, h) ==
  /\ \A i \in 2..Len(rows) : rows[i].n # rows[i - 1].n + 1 =>
       rows[i - 1].n < from /\ rows[i].n = from + 1
  /\ h > from /\ rows # <<>> => rows[Len(rows)].n = h

\* a is what is left of b without its first rows.
SuffixOf(a, b) == \E first \in Seq(NRow) : b = first \o a

LEMMA SuffixKeeps ==
  ASSUME NEW a \in Seq(NRow), NEW b \in Seq(NRow), SuffixOf(a, b), NEW s, NEW h \in Nat
  PROVE  /\ Run(b, s, h) => Run(a, s, h)
         /\ Ordered(b, s, h) => Ordered(a, s, h)
         /\ \A from \in Nat : OneGap(b, from, h) => OneGap(a, from, h)
<1>1. PICK d \in Nat : Len(b) = Len(a) + d /\ \A i \in 1..Len(a) : a[i] = b[i + d]
  <2>1. PICK first \in Seq(NRow) : b = first \o a
    BY DEF SuffixOf
  <2>2. Len(first) \in Nat /\ Len(a) \in Nat
    BY LenProperties
  <2>3. /\ Len(b) = Len(first) + Len(a)
        /\ \A i \in 1..Len(first) + Len(a) :
             b[i] = IF i <= Len(first) THEN first[i] ELSE a[i - Len(first)]
    BY <2>1, ConcatProperties
  <2>4. ASSUME NEW i \in 1..Len(a) PROVE a[i] = b[i + Len(first)]
    <3>1. /\ i + Len(first) \in 1..Len(first) + Len(a) /\ ~(i + Len(first) <= Len(first))
          /\ (i + Len(first)) - Len(first) = i
      BY <2>2
    <3> QED
      BY <2>3, <3>1
  <2> DEFINE d == Len(first)
  <2>5. d \in Nat /\ Len(b) = Len(a) + d /\ \A i \in 1..Len(a) : a[i] = b[i + d]
    BY <2>2, <2>3, <2>4
  <2> HIDE DEF d
  <2> QED
    BY <2>5
<1>2. Len(a) \in Nat /\ Len(b) \in Nat
  OBVIOUS
<1>3. ASSUME NEW i \in 1..Len(a) PROVE i + d \in 1..Len(b) /\ a[i] = b[i + d] /\ a[i] \in NRow
  BY <1>1, <1>2, ElementOfSeq
<1>4. Run(b, s, h) => Run(a, s, h)
  <2> SUFFICES ASSUME Run(b, s, h) PROVE Run(a, s, h)
    OBVIOUS
  <2>1. ASSUME NEW i \in 1..Len(a), NEW j \in 1..Len(a) PROVE a[j].n + i = a[i].n + j
    <3>1. i + d \in 1..Len(b) /\ j + d \in 1..Len(b) /\ a[i] = b[i + d] /\ a[j] = b[j + d]
      BY <1>3
    <3>2. b[j + d].n + (i + d) = b[i + d].n + (j + d)
      BY <3>1 DEF Run
    <3>3. a[i].n \in Nat /\ a[j].n \in Nat
      BY <1>3 DEF NRow
    <3>4. \A x, y \in Nat : y + (i + d) = x + (j + d) => y + i = x + j
      OBVIOUS
    <3> QED
      BY <3>1, <3>2, <3>3, <3>4
  <2>2. ASSUME NEW i \in 1..Len(a) PROVE a[i].server = s /\ a[i].n <= h
    BY <1>3 DEF Run
  <2> QED
    BY <2>1, <2>2 DEF Run
<1>5. Ordered(b, s, h) => Ordered(a, s, h)
  <2> SUFFICES ASSUME Ordered(b, s, h) PROVE Ordered(a, s, h)
    OBVIOUS
  <2>1. ASSUME NEW i \in 1..Len(a), NEW j \in 1..Len(a), i < j PROVE a[i].n < a[j].n
    <3>1. i + d < j + d
      BY <2>1
    <3> QED
      BY <1>3, <3>1 DEF Ordered
  <2> QED
    BY <1>3, <2>1 DEF Ordered
<1>6. ASSUME NEW from \in Nat, OneGap(b, from, h) PROVE OneGap(a, from, h)
  <2>1. ASSUME NEW i \in 2..Len(a), a[i].n # a[i - 1].n + 1
        PROVE  a[i - 1].n < from /\ a[i].n = from + 1
    <3>1. i \in 1..Len(a) /\ i - 1 \in 1..Len(a) /\ i + d \in 2..Len(b) /\ (i - 1) + d = (i + d) - 1
      BY <1>1, <1>2
    <3> QED
      BY <1>3, <1>6, <2>1, <3>1 DEF OneGap
  <2>2. ASSUME h > from, a # <<>> PROVE a[Len(a)].n = h
    <3>1. Len(a) \in 1..Len(a) /\ b # <<>>
      BY <1>1, <1>2, <2>2
    <3> QED
      BY <1>1, <1>3, <1>6, <2>2, <3>1 DEF OneGap
  <2> QED
    BY <2>1, <2>2 DEF OneGap
<1> QED
  BY <1>4, <1>5, <1>6

LEMMA MoreHitsKeep ==
  ASSUME NEW rows \in Seq(NRow), NEW s, NEW h \in Nat
  PROVE  /\ Run(rows, s, h) => Run(rows, s, h + 1)
         /\ Ordered(rows, s, h) => Ordered(rows, s, h + 1)
<1>0. \A i \in 1..Len(rows) : rows[i] \in NRow
  BY ElementOfSeq
<1>1. \A i \in 1..Len(rows) : rows[i].n \in Nat
  BY <1>0 DEF NRow
<1>2. ASSUME NEW i \in 1..Len(rows), rows[i].n <= h PROVE rows[i].n <= h + 1
  <2>1. rows[i].n \in Nat
    BY <1>1
  <2>2. \A x \in Nat : x <= h => x <= h + 1
    OBVIOUS
  <2> QED
    BY <1>2, <2>1, <2>2
<1> QED
  BY <1>2 DEF Run, Ordered

\* A server's next hit fits at the end.
LEMMA AppendKeeps ==
  ASSUME NEW rows \in Seq(NRow), NEW s, NEW h \in Nat, Ordered(rows, s, h),
         NEW row \in NRow, row.server = s, row.n = h + 1
  PROVE  /\ Ordered(Append(rows, row), s, h + 1)
         /\ \A from \in Nat : from <= h /\ OneGap(rows, from, h) =>
              OneGap(Append(rows, row), from, h + 1)
<1> DEFINE all == Append(rows, row)
           m == Len(rows)
<1>1. m \in Nat /\ Len(all) = m + 1 /\ all[m + 1] = row /\ \A i \in 1..m : all[i] = rows[i]
  OBVIOUS
<1>2. \A i \in 1..m : rows[i] \in NRow
  BY ElementOfSeq
<1> HIDE DEF all
<1>3. Ordered(all, s, h + 1)
  <2>0. ASSUME NEW i \in 1..m
        PROVE  all[i] = rows[i] /\ all[i].server = s /\ all[i].n \in Nat /\ all[i].n <= h
    BY <1>1, <1>2 DEF Ordered, NRow
  <2>1. ASSUME NEW i \in 1..m + 1 PROVE all[i].server = s /\ all[i].n <= h + 1
    <3>1. CASE i = m + 1
      BY <1>1, <3>1
    <3>2. CASE i \in 1..m
      BY <2>0, <3>2
    <3> QED
      BY <1>1, <3>1, <3>2
  <2>2. ASSUME NEW i \in 1..m + 1, NEW j \in 1..m + 1, i < j PROVE all[i].n < all[j].n
    <3>1. i \in 1..m
      BY <1>1, <2>2
    <3>2. CASE j = m + 1
      BY <1>1, <2>0, <3>1, <3>2
    <3>3. CASE j \in 1..m
      BY <2>0, <2>2, <3>1, <3>3 DEF Ordered
    <3> QED
      BY <1>1, <3>2, <3>3
  <2> QED
    BY <1>1, <2>1, <2>2 DEF Ordered
<1>4. ASSUME NEW from \in Nat, from <= h, OneGap(rows, from, h) PROVE OneGap(all, from, h + 1)
  <2>1. ASSUME NEW i \in 2..m + 1, all[i].n # all[i - 1].n + 1
        PROVE  all[i - 1].n < from /\ all[i].n = from + 1
    <3>1. CASE i \in 2..m
      <4>1. i \in 1..m /\ i - 1 \in 1..m
        BY <1>1, <3>1
      <4>2. all[i] = rows[i] /\ all[i - 1] = rows[i - 1]
        BY <1>1, <4>1
      <4> QED
        BY <1>1, <1>4, <2>1, <3>1, <4>2 DEF OneGap
    <3>2. CASE i = m + 1
      <4>1. m \in 1..m /\ rows # <<>> /\ rows[m].n \in Nat /\ rows[m].n <= h
        BY <1>1, <1>2, <2>1, <3>2 DEF Ordered, NRow
      <4>2. all[i - 1].n = rows[m].n /\ all[i].n = h + 1
        BY <1>1, <3>2, <4>1
      <4>3. ~(h > from)
        BY <1>4, <2>1, <4>1, <4>2 DEF OneGap
      <4> QED
        BY <1>4, <2>1, <4>1, <4>2, <4>3
    <3> QED
      BY <1>1, <3>1, <3>2
  <2> QED
    BY <1>1, <2>1 DEF OneGap
<1> QED
  BY <1>3, <1>4 DEF all

\* A list without a gap is in order, and shows a stream that subscribes now no gap of its own.
LEMMA RunIsOrdered ==
  ASSUME NEW rows \in Seq(NRow), NEW s, NEW h \in Nat, Run(rows, s, h)
  PROVE  Ordered(rows, s, h) /\ OneGap(rows, h, h)
<1>1. \A i \in 1..Len(rows) : rows[i] \in NRow
  BY ElementOfSeq
<1>2. ASSUME NEW i \in 1..Len(rows), NEW j \in 1..Len(rows)
      PROVE  rows[i].n \in Nat /\ rows[j].n \in Nat /\ rows[j].n + i = rows[i].n + j
  BY <1>1 DEF Run, NRow
<1>3. \A i, j \in 1..Len(rows) : i < j => rows[i].n < rows[j].n
  BY <1>2
<1>4. ASSUME NEW i \in 2..Len(rows) PROVE rows[i].n = rows[i - 1].n + 1
  <2>1. i \in 1..Len(rows) /\ i - 1 \in 1..Len(rows)
    OBVIOUS
  <2>2. /\ rows[i].n \in Nat /\ rows[i - 1].n \in Nat
        /\ rows[i].n + (i - 1) = rows[i - 1].n + i
    BY <1>2, <2>1
  <2>3. \A x, y \in Nat : y + (i - 1) = x + i => y = x + 1
    OBVIOUS
  <2> QED
    BY <2>2, <2>3
<1> QED
  BY <1>3, <1>4 DEF Run, Ordered, OneGap

-----------------------------------------------------------------------------
(* The rows of the table and those on their way to it                      *)

Rows(con) == [i \in 1..Len(con.queue) |-> [server |-> con.server, n |-> con.queue[i]]]

ComingOf(tab, con) == tab \o Rows(con)

LEMMA RowsAssociate ==
  ASSUME NEW a \in Seq(NRow), NEW b \in Seq(NRow), NEW c \in Seq(NRow)
  PROVE  (a \o b) \o c = a \o (b \o c)
BY ConcatAssociative, SMTT(60)

LEMMA RowsType ==
  ASSUME NEW con \in Connection, con.server \in Server
  PROVE  Rows(con) \in Seq(NRow) /\ Len(Rows(con)) = Len(con.queue)
<1>1. con.queue \in Seq(Nat)
  BY DEF Connection
<1>2. ASSUME NEW i \in 1..Len(con.queue)
      PROVE  [server |-> con.server, n |-> con.queue[i]] \in NRow
  <2>1. con.queue[i] \in Nat
    BY <1>1, ElementOfSeq
  <2> QED
    BY <2>1 DEF NRow
<1>3. Rows(con) \in [1..Len(con.queue) -> NRow] /\ Len(con.queue) \in Nat
  BY <1>1, <1>2 DEF Rows
<1> QED
  BY <1>3, SeqDef, LenProperties

LEMMA ComingType ==
  ASSUME NEW tab \in Seq(NRow), NEW con \in Connection, con.server \in Server
  PROVE  ComingOf(tab, con) \in Seq(NRow)
BY RowsType, ConcatProperties DEF ComingOf

\* With nothing queued the table is all there is.
LEMMA NothingComing ==
  ASSUME NEW tab \in Seq(NRow), NEW con \in Connection, con.server \in Server, con.queue = <<>>
  PROVE  ComingOf(tab, con) = tab
<1>1. Rows(con) = <<>>
  BY DEF Rows
<1> QED
  BY <1>1, ConcatEmptySeq DEF ComingOf

\* A published hit comes after all the others.
LEMMA PublishedComing ==
  ASSUME NEW tab \in Seq(NRow), NEW con \in Connection, con.server \in Server, NEW h \in Nat,
         NEW con2 \in Connection, con2.server = con.server, con2.queue = Append(con.queue, h)
  PROVE  ComingOf(tab, con2) = Append(ComingOf(tab, con), [server |-> con.server, n |-> h])
<1> DEFINE row == [server |-> con.server, n |-> h]
           q == Len(con.queue)
<1>1. row \in NRow
  BY DEF NRow
<1>2. con.queue \in Seq(Nat) /\ q \in Nat
  BY DEF Connection
<1>3. Rows(con) \in Seq(NRow) /\ Len(Rows(con)) = q
  BY RowsType
<1>4. Rows(con2) = Append(Rows(con), row)
  <2>1. Len(con2.queue) = q + 1
    BY <1>2, AppendProperties
  <2>2. Rows(con2) \in Seq(NRow) /\ Len(Rows(con2)) = q + 1
    BY <2>1, RowsType
  <2>3. /\ Append(Rows(con), row) \in Seq(NRow) /\ Len(Append(Rows(con), row)) = q + 1
        /\ \A i \in 1..q : Append(Rows(con), row)[i] = Rows(con)[i]
        /\ Append(Rows(con), row)[q + 1] = row
    BY <1>1, <1>3, AppendProperties
  <2>4. ASSUME NEW i \in 1..q + 1 PROVE Rows(con2)[i] = Append(Rows(con), row)[i]
    <3>1. Rows(con2)[i] = [server |-> con.server, n |-> con2.queue[i]]
      BY <2>1 DEF Rows
    <3>2. CASE i = q + 1
      BY <1>2, <2>3, <3>1, <3>2, AppendProperties
    <3>3. CASE i # q + 1
      <4>1. i \in 1..q
        BY <1>2, <3>3
      <4>2. con2.queue[i] = con.queue[i]
        BY <1>2, <4>1, AppendProperties
      <4>3. Rows(con)[i] = [server |-> con.server, n |-> con.queue[i]]
        BY <4>1 DEF Rows
      <4> QED
        BY <2>3, <3>1, <4>1, <4>2, <4>3
    <3> QED
      BY <3>2, <3>3
  <2> HIDE DEF row
  <2> QED
    BY <2>2, <2>3, <2>4, SeqEqual
<1> HIDE DEF row
<1>5. Append(Rows(con), row) = Rows(con) \o <<row>>
  BY <1>1, <1>3, AppendIsConcat
<1>6. <<row>> \in Seq(NRow) /\ tab \o Rows(con) \in Seq(NRow)
  BY <1>1, <1>3, ConcatProperties
<1>7. tab \o (Rows(con) \o <<row>>) = (tab \o Rows(con)) \o <<row>>
  BY <1>3, <1>6, RowsAssociate
<1>8. (tab \o Rows(con)) \o <<row>> = Append(tab \o Rows(con), row)
  BY <1>1, <1>6, AppendIsConcat
<1> QED
  BY <1>4, <1>5, <1>7, <1>8 DEF ComingOf, row

\* A row that goes from the queue to the table stays where it is among those to come; only
\* the first rows may leave the table.
LEMMA HandedComing ==
  ASSUME NEW tab \in Seq(NRow), NEW con \in Connection, con.server \in Server, con.queue # <<>>,
         NEW con2 \in Connection, con2.server = con.server, con2.queue = Tail(con.queue),
         NEW tab2 \in Seq(NRow),
         SuffixOf(tab2, Append(tab, [server |-> con.server, n |-> Head(con.queue)]))
  PROVE  SuffixOf(ComingOf(tab2, con2), ComingOf(tab, con))
<1> DEFINE row == [server |-> con.server, n |-> Head(con.queue)]
           q == Len(con.queue)
<1>1. con.queue \in Seq(Nat) /\ q \in Nat \ {0} /\ Head(con.queue) \in Nat
  BY HeadTailProperties DEF Connection
<1>2. row \in NRow /\ <<row>> \in Seq(NRow)
  BY <1>1 DEF NRow
<1>3. Rows(con) \in Seq(NRow) /\ Len(Rows(con)) = q /\ Rows(con2) \in Seq(NRow)
  BY RowsType
<1>4. Rows(con) # <<>> /\ Head(Rows(con)) = row
  <2>1. Rows(con)[1] = [server |-> con.server, n |-> con.queue[1]]
    BY <1>1 DEF Rows
  <2> QED
    BY <1>1, <1>3, <2>1
<1>5. Tail(Rows(con)) = Rows(con2)
  <2>1. /\ Len(con2.queue) = q - 1
        /\ \A i \in 1..q - 1 : con2.queue[i] = con.queue[i + 1]
    BY <1>1, HeadTailProperties
  <2>2. Len(Rows(con2)) = q - 1
    BY <2>1, RowsType
  <2>3. /\ Tail(Rows(con)) \in Seq(NRow) /\ Len(Tail(Rows(con))) = q - 1
        /\ \A i \in 1..q - 1 : Tail(Rows(con))[i] = Rows(con)[i + 1]
    BY <1>3, <1>4, HeadTailProperties
  <2>4. ASSUME NEW i \in 1..q - 1 PROVE Tail(Rows(con))[i] = Rows(con2)[i]
    <3>1. Rows(con2)[i] = [server |-> con.server, n |-> con2.queue[i]]
      BY <2>1 DEF Rows
    <3>2. Rows(con)[i + 1] = [server |-> con.server, n |-> con.queue[i + 1]]
      <4>1. i + 1 \in 1..q
        BY <1>1
      <4> QED
        BY <4>1 DEF Rows
    <3>3. con2.queue[i] = con.queue[i + 1]
      BY <2>1
    <3>4. Tail(Rows(con))[i] = Rows(con)[i + 1]
      BY <2>3
    <3> QED
      BY <3>1, <3>2, <3>3, <3>4
  <2> QED
    BY <1>3, <2>2, <2>3, <2>4, SeqEqual, ZenonT(60)
<1> HIDE DEF row
<1>6. Rows(con) = <<row>> \o Rows(con2)
  <2>1. 1 \in 1..Len(Rows(con)) /\ Len(Rows(con)) \in 1..Len(Rows(con))
    BY <1>1, <1>3
  <2>2. Rows(con) = SubSeq(Rows(con), 1, Len(Rows(con)))
    BY <1>3, SubSeqFull
  <2>3. SubSeq(Rows(con), 1, Len(Rows(con)))
          = <<Rows(con)[1]>> \o SubSeq(Rows(con), 1 + 1, Len(Rows(con)))
    BY <1>3, <2>1, SubSeqRecursiveFirst
  <2>4. SubSeq(Rows(con), 1 + 1, Len(Rows(con))) = Tail(Rows(con))
    BY <1>3, <1>4, TailIsSubSeq
  <2>5. Rows(con)[1] = row
    BY <1>3, <1>4
  <2> QED
    BY <1>5, <2>2, <2>3, <2>4, <2>5
<1>7. PICK first \in Seq(NRow) : Append(tab, row) = first \o tab2
  BY DEF SuffixOf, row
<1>8. Append(tab, row) = tab \o <<row>>
  BY <1>2, AppendIsConcat, Zenon
<1>9. ComingOf(tab, con) = (tab \o <<row>>) \o Rows(con2)
  <2>1. (tab \o <<row>>) \o Rows(con2) = tab \o (<<row>> \o Rows(con2))
    BY <1>2, <1>3, RowsAssociate, ZenonT(60)
  <2> QED
    BY <1>6, <2>1 DEF ComingOf
<1>10. ComingOf(tab, con) = first \o ComingOf(tab2, con2)
  <2>1. (first \o tab2) \o Rows(con2) = first \o (tab2 \o Rows(con2))
    BY <1>3, RowsAssociate, ZenonT(60)
  <2> QED
    BY <1>7, <1>8, <1>9, <2>1 DEF ComingOf
<1> QED
  BY <1>10 DEF SuffixOf

\* What is on its way is left when the table is emptied.
LEMMA ClearedComing ==
  ASSUME NEW tab \in Seq(NRow), NEW con \in Connection, con.server \in Server
  PROVE  SuffixOf(ComingOf(<<>>, con), ComingOf(tab, con))
<1>1. ComingOf(<<>>, con) = Rows(con)
  BY RowsType, ConcatEmptySeq DEF ComingOf
<1> QED
  BY <1>1 DEF SuffixOf, ComingOf

\* appendHit.
LEMMA AppendHitSuffix ==
  ASSUME NEW row \in NRow, table \in Seq(NRow), limit \in Nat \ {0}
  PROVE  /\ AppendHit(row) \in Seq(NRow)
         /\ SuffixOf(AppendHit(row), Append(table, row))
         /\ Len(AppendHit(row)) <= limit
<1> DEFINE rows == Append(table, row)
           m == Len(rows)
           d == m - limit
<1>1. rows \in Seq(NRow) /\ m \in Nat /\ limit \in Nat
  BY AppendProperties, LenProperties
<1>2. AppendHit(row) = IF m > limit THEN SubSeq(rows, d + 1, m) ELSE rows
  BY DEF AppendHit
<1> HIDE DEF rows
<1>3. CASE m > limit
  <2>1. d + 1 \in 1..m /\ d \in 0..m /\ d \in Nat /\ m - (d + 1) + 1 = limit
    BY <1>1, <1>3
  <2>2. \A i \in 1..m : rows[i] \in NRow
    BY <1>1, ElementOfSeq
  <2>3. SubSeq(rows, d + 1, m) \in Seq(NRow) /\ Len(SubSeq(rows, d + 1, m)) = limit
    <3>1. \A i \in d + 1..m : rows[i] \in NRow
      BY <1>1, <2>1, <2>2
    <3>2. d + 1 \in Int /\ m \in Int /\ d + 1 <= m
      BY <1>1, <2>1
    <3> HIDE DEF d
    <3> QED
      BY <2>1, <3>1, <3>2, SubSeqProperties
  <2>4. SubSeq(rows, 1, d) \in Seq(NRow)
    <3>1. \A i \in 1..d : rows[i] \in NRow
      BY <1>1, <2>1, <2>2
    <3>2. d \in Int /\ 1 \in Int
      BY <2>1
    <3> HIDE DEF d
    <3> QED
      BY <3>1, <3>2, SubSeqProperties
  <2>5. SubSeq(rows, 1, d) \o SubSeq(rows, d + 1, m) = SubSeq(rows, 1, m)
    <3>1. 1 \in 1..Len(rows) + 1 /\ d \in 1 - 1..Len(rows) /\ m \in d..Len(rows)
      BY <1>1, <2>1
    <3> QED
      BY <1>1, <3>1, ConcatAdjacentSubSeq
  <2>6. SubSeq(rows, 1, m) = rows
    BY <1>1, SubSeqFull
  <2>7. SuffixOf(SubSeq(rows, d + 1, m), rows)
    BY <2>4, <2>5, <2>6 DEF SuffixOf
  <2>8. AppendHit(row) = SubSeq(rows, d + 1, m)
    BY <1>2, <1>3
  <2>9. /\ AppendHit(row) \in Seq(NRow) /\ SuffixOf(AppendHit(row), rows)
        /\ Len(AppendHit(row)) <= limit
    BY <1>1, <2>3, <2>7, <2>8
  <2> QED
    BY <2>9 DEF rows
<1>4. CASE ~(m > limit)
  <2>1. SuffixOf(rows, rows)
    BY <1>1, ConcatEmptySeq, EmptySeq DEF SuffixOf
  <2>2. m <= limit
    BY <1>1, <1>4
  <2> QED
    BY <1>1, <1>2, <1>4, <2>1, <2>2 DEF rows
<1> QED
  BY <1>3, <1>4

LEMMA ComingSame ==
  ASSUME NEW tab, NEW con, NEW con2, con2.queue = con.queue, con2.server = con.server
  PROVE  ComingOf(tab, con2) = ComingOf(tab, con)
BY DEF ComingOf, Rows

-----------------------------------------------------------------------------
(* The inductive invariant of what is shown                                *)

LoadRec == [who : {"none", "connect", "limit"}, stage : {"sent", "answered", "loaded"},
            server : Server \cup {None}, limit : Nat, rows : Seq(NRow), alone : BOOLEAN]

LoadTypes ==
  /\ table \in Seq(NRow) /\ limit \in Nat \ {0} /\ load \in [Load -> LoadRec]
  /\ \A k \in Load :
       /\ load[k] # NoLoad => load[k].server \in Server
       /\ load[k].stage = "loaded" => load[k].who = "connect"

\* Hits are queued on an open connection only, and the timer is for one that is not open.
QueuesFit ==
  /\ \A c \in Conn : conn[c].status # "open" => conn[c].queue = <<>>
  /\ timer # None => conn[timer].status # "open"

NoStream == eventSource = None /\ streamAbort = None

\* A connect() that no other load overlapped has closed the stream, and what it loads is
\* what it will show.
AloneFits ==
  \A k \in Load : load[k] # NoLoad /\ load[k].alone =>
    /\ \A j \in Load : load[j] # NoLoad => j = k
    /\ load[k].who = "connect" =>
         /\ load[k].server = apiBase /\ load[k].limit = limit /\ NoStream
         /\ load[k].stage = "answered" =>
              Run(load[k].rows, apiBase, hits[apiBase]) /\ Len(load[k].rows) <= limit
         /\ load[k].stage = "loaded" => Run(table, apiBase, hits[apiBase]) /\ Len(table) <= limit

\* No hit of a stream is in the table yet: the stream's connection was never open.
Unfed == timer # None \/ \E c \in Conn : conn[c].status = "connecting" /\ conn[c].whole

StreamFits(tab, con, s, h) ==
  /\ Ordered(ComingOf(tab, con), s, h)
  /\ con.status = "open" /\ con.whole =>
       con.from <= h /\ OneGap(ComingOf(tab, con), con.from, h)

TableFits ==
  /\ Ordered(table, apiBase, hits[apiBase]) /\ Len(table) <= limit
  /\ Unfed => Run(table, apiBase, hits[apiBase])
  /\ \A c \in Conn : conn[c].status # "closed" =>
       StreamFits(table, conn[c], apiBase, hits[apiBase])

QuietFits == quiet => (\A k \in Load : load[k] = NoLoad) /\ TableFits

ShownInv == Inv /\ LoadTypes /\ QueuesFit /\ AloneFits /\ QuietFits

LEMMA InitShown == Init => ShownInv
<1> SUFFICES ASSUME Init PROVE ShownInv
  OBVIOUS
<1>1. LoadTypes
  <2>1. NoLoad \in LoadRec /\ NoLoad.stage = "sent"
    BY EmptySeq DEF NoLoad, LoadRec
  <2>2. table \in Seq(NRow)
    BY EmptySeq DEF Init
  <2> QED
    BY <2>1, <2>2 DEF Init, LoadTypes
<1>2. QueuesFit /\ AloneFits /\ QuietFits
  BY DEF Init, QueuesFit, AloneFits, QuietFits, Closed
<1> QED
  BY <1>1, <1>2, InitInv DEF ShownInv

\* A load begins: alone if no other is under way, and none of the others is any more.
LEMMA StartEffect ==
  ASSUME LoadTypes, NEW k \in Load, NEW who \in {"connect", "limit"}, NEW s \in Server,
         NEW l \in Nat, Start(k, who, s, l)
  PROVE  /\ load' \in [Load -> LoadRec]
         /\ load'[k].who = who /\ load'[k].stage = "sent" /\ load'[k].server = s
         /\ load'[k].limit = l /\ load'[k] # NoLoad
         /\ load'[k].alone => \A j \in Load : j # k => load'[j] = NoLoad
         /\ \A j \in Load : j # k =>
              /\ load'[j] # NoLoad => ~load'[j].alone /\ load'[j].server = load[j].server
                                      /\ load[j] # NoLoad
              /\ load'[j].stage = load[j].stage /\ load'[j].who = load[j].who
<1>1. NoLoad \in LoadRec
  BY EmptySeq DEF NoLoad, LoadRec
<1>2. load'[k] = [NoLoad EXCEPT !.who = who, !.server = s, !.limit = l, !.alone = (Busy = {})]
  BY DEF Start
<1>3. ASSUME NEW j \in Load, j # k
      PROVE  load'[j] = IF j \in Busy THEN [load[j] EXCEPT !.alone = FALSE] ELSE load[j]
  BY <1>3 DEF Start
<1>4. load'[k] \in LoadRec
  BY <1>1, <1>2 DEF LoadRec
<1>5. /\ load'[k].who = who /\ load'[k].stage = "sent" /\ load'[k].server = s
      /\ load'[k].limit = l /\ load'[k].alone = (Busy = {})
  BY <1>2 DEF NoLoad
<1>6. load'[k] # NoLoad
  BY <1>5 DEF NoLoad
<1>7. ASSUME NEW j \in Load, j # k, j \in Busy
      PROVE  /\ load'[j] \in LoadRec /\ load'[j].alone = FALSE
             /\ load'[j].server = load[j].server /\ load'[j].stage = load[j].stage
             /\ load'[j].who = load[j].who /\ load[j] # NoLoad
  <2>1. load[j] \in LoadRec
    BY DEF LoadTypes
  <2>2. load'[j] = [load[j] EXCEPT !.alone = FALSE]
    BY <1>3, <1>7
  <2> QED
    BY <1>7, <2>1, <2>2 DEF LoadRec, Busy
<1>8. ASSUME NEW j \in Load, j # k, j \notin Busy PROVE load'[j] = load[j] /\ load[j] = NoLoad
  BY <1>3, <1>8 DEF Busy
<1>9. ASSUME NEW j \in Load PROVE load'[j] \in LoadRec
  BY <1>1, <1>4, <1>7, <1>8
<1>10. load' \in [Load -> LoadRec]
  BY <1>9 DEF Start
<1>11. load'[k].alone => \A j \in Load : j # k => load'[j] = NoLoad
  BY <1>5, <1>8
<1> QED
  BY <1>5, <1>6, <1>7, <1>8, <1>10, <1>11

LEMMA NextLoadTypes == ShownInv /\ [Next]_vars => LoadTypes'
<1> SUFFICES ASSUME ShownInv, [Next]_vars PROVE LoadTypes'
  OBVIOUS
<1>0. LoadTypes /\ Types /\ Fed /\ QueuesFit
  BY DEF ShownInv, Inv
<1>1. ASSUME UNCHANGED <<table, limit, load>> PROVE LoadTypes'
  BY <1>0, <1>1 DEF LoadTypes
<1>2. ASSUME NEW c \in Conn, HitEvent(c) PROVE LoadTypes'
  <2>1. conn[c] \in Connection /\ conn[c].queue # <<>>
    BY <1>0, <1>2 DEF Types, HitEvent
  <2>2. conn[c].server \in Server
    BY <1>0, <2>1 DEF QueuesFit, Fed, Types
  <2>3. Head(conn[c].queue) \in Nat
    BY <2>1, HeadTailProperties DEF Connection
  <2>4. [server |-> conn[c].server, n |-> Head(conn[c].queue)] \in NRow
    BY <2>2, <2>3 DEF NRow
  <2>5. table' \in Seq(NRow)
    BY <1>0, <1>2, <2>4, AppendHitSuffix DEF HitEvent, LoadTypes
  <2> QED
    BY <1>0, <1>2, <2>5 DEF HitEvent, LoadTypes
<1>3. ASSUME NEW k \in Load, NEW s \in Server, Connect(k, s) PROVE LoadTypes'
  <2>1. Start(k, "connect", s, limit) /\ table' = table /\ limit' = limit /\ limit \in Nat
    BY <1>0, <1>3 DEF Connect, LoadTypes
  <2> QED
    BY <1>0, <2>1, StartEffect DEF LoadTypes
<1>4. ASSUME NEW k \in Load, NEW l \in Limits, Reload(k, l) PROVE LoadTypes'
  <2>1. Start(k, "limit", apiBase, l) /\ table' = table /\ limit' = l
    BY <1>4 DEF Reload
  <2>2. l \in Nat \ {0} /\ apiBase \in Server
    BY <1>0 DEF Types
  <2> QED
    BY <1>0, <2>1, <2>2, StartEffect DEF LoadTypes
<1>5. ASSUME NEW k \in Load, Answer(k) PROVE LoadTypes'
  <2> DEFINE srv == load[k].server
             n == IF hits[srv] < load[k].limit THEN hits[srv] ELSE load[k].limit
             rows == [i \in 1..n |-> [server |-> srv, n |-> hits[srv] - n + i]]
  <2>1. /\ load[k] \in LoadRec /\ srv \in Server /\ hits[srv] \in Nat /\ load[k].stage = "sent"
        /\ load[k].limit \in Nat
    BY <1>0, <1>5 DEF Answer, LoadTypes, Types, LoadRec
  <2>2. n \in Nat /\ n <= hits[srv]
    BY <2>1
  <2>3. load' = [load EXCEPT ![k] = [load[k] EXCEPT !.stage = "answered", !.rows = rows]]
    BY <1>0, <1>5 DEF Answer, LoadTypes
  <2> HIDE DEF n, srv
  <2>4. rows \in Seq(NRow)
    <3>1. ASSUME NEW i \in 1..n PROVE [server |-> srv, n |-> hits[srv] - n + i] \in NRow
      <4>1. hits[srv] - n + i \in Nat
        BY <2>1, <2>2
      <4> QED
        BY <2>1, <4>1 DEF NRow
    <3>2. rows \in [1..n -> NRow]
      BY <3>1
    <3> QED
      BY <2>2, <3>2, SeqDef
  <2> HIDE DEF rows
  <2>5. /\ load'[k] \in LoadRec /\ load'[k].stage = "answered" /\ load'[k].server = load[k].server
    BY <1>0, <2>1, <2>3, <2>4 DEF LoadTypes, LoadRec
  <2>6. load' \in [Load -> LoadRec] /\ \A j \in Load : j # k => load'[j] = load[j]
    BY <1>0, <2>3, <2>5 DEF LoadTypes
  <2>7. table' = table /\ limit' = limit
    BY <1>5 DEF Answer
  <2> QED
    BY <1>0, <2>1, <2>5, <2>6, <2>7 DEF LoadTypes, srv
<1>6. ASSUME NEW k \in Load, Loaded(k) PROVE LoadTypes'
  <2>1. load[k] \in LoadRec /\ load[k].rows \in Seq(NRow) /\ load[k].stage = "answered"
    BY <1>0, <1>6 DEF Loaded, LoadTypes, LoadRec
  <2>2. NoLoad \in LoadRec /\ NoLoad.stage = "sent"
    BY EmptySeq DEF NoLoad, LoadRec
  <2>3. load[k] # NoLoad
    BY <2>1, <2>2
  <2>4. load' = [load EXCEPT ![k] = IF load[k].who = "connect"
                                   THEN [load[k] EXCEPT !.stage = "loaded", !.rows = <<>>]
                                   ELSE NoLoad]
    BY <1>0, <1>6 DEF Loaded, LoadTypes
  <2>5. <<>> \in Seq(NRow)
    BY EmptySeq
  <2>6. CASE load[k].who = "connect"
    <3>1. load'[k] = [load[k] EXCEPT !.stage = "loaded", !.rows = <<>>]
      BY <1>0, <2>4, <2>6 DEF LoadTypes
    <3>2. load'[k] \in LoadRec /\ load'[k].server = load[k].server /\ load'[k].who = "connect"
      BY <2>1, <2>5, <2>6, <3>1 DEF LoadRec
    <3>3. load' \in [Load -> LoadRec] /\ \A j \in Load : j # k => load'[j] = load[j]
      BY <1>0, <2>4, <3>1, <3>2 DEF LoadTypes
    <3>4. table' \in Seq(NRow) /\ limit' = limit
      BY <1>6, <2>1 DEF Loaded
    <3> QED
      BY <1>0, <2>3, <3>2, <3>3, <3>4 DEF LoadTypes
  <2>7. CASE load[k].who # "connect"
    BY <1>0, <1>6, <2>1, <2>2, <2>4, <2>7 DEF Loaded, LoadTypes
  <2> QED
    BY <2>6, <2>7
<1>7. ASSUME NEW k \in Load, load' = [load EXCEPT ![k] = NoLoad], UNCHANGED <<table, limit>>
      PROVE LoadTypes'
  <2>1. NoLoad \in LoadRec /\ NoLoad.stage = "sent"
    BY EmptySeq DEF NoLoad, LoadRec
  <2> QED
    BY <1>0, <1>7, <2>1 DEF LoadTypes
<1>8. ASSUME NEW k \in Load, Failed(k) PROVE LoadTypes'
  <2>1. CASE load' = [load EXCEPT ![k] = NoLoad]
    BY <1>7, <1>8, <2>1 DEF Failed
  <2>2. CASE load[k].stage # "loaded" /\ load' = [load EXCEPT ![k].who = "limit"]
    <3>1. load' = [load EXCEPT ![k] = [load[k] EXCEPT !.who = "limit"]] /\ load[k] \in LoadRec
      BY <1>0, <2>2 DEF LoadTypes
    <3>2. /\ load'[k] \in LoadRec /\ load'[k].server = load[k].server
          /\ load'[k].stage # "loaded"
      <4>1. load'[k] = [load[k] EXCEPT !.who = "limit"]
        BY <1>0, <3>1 DEF LoadTypes
      <4> QED
        BY <2>2, <3>1, <4>1 DEF LoadRec
    <3>3. load[k] # NoLoad /\ UNCHANGED <<table, limit>>
      BY <1>8 DEF Failed
    <3> QED
      BY <1>0, <3>1, <3>2, <3>3 DEF LoadTypes
  <2> QED
    BY <1>8, <2>1, <2>2 DEF Failed
<1>9. ASSUME NEW k \in Load, NEW c \in Conn, Refreshed(k, c) PROVE LoadTypes'
  BY <1>7, <1>9 DEF Refreshed
<1>10. CASE Clear
  <2>1. table' \in Seq(NRow)
    BY <1>10, EmptySeq DEF Clear
  <2> QED
    BY <1>0, <1>10, <2>1 DEF Clear, LoadTypes
<1>11. ASSUME NEW s \in Server, Publish(s) PROVE LoadTypes'
  BY <1>1, <1>11 DEF Publish
<1>12. ASSUME NEW c \in Conn, Timeout(c) \/ Opened(c) \/ Broken(c) PROVE LoadTypes'
  BY <1>1, <1>12 DEF Timeout, Opened, Broken
<1>13. CASE UNCHANGED vars
  BY <1>1, <1>13 DEF vars
<1> QED
  BY <1>2, <1>3, <1>4, <1>5, <1>6, <1>8, <1>9, <1>10, <1>11, <1>12, <1>13 DEF Next

-----------------------------------------------------------------------------
(* Streams and loads                                                       *)

\* What the publication of a hit does to a connection.
LEMMA PublishEffect ==
  ASSUME Types, NEW s \in Server, Publish(s), NEW c \in Conn
  PROVE  /\ conn'[c].status = conn[c].status /\ conn'[c].server = conn[c].server
         /\ conn'[c].from = conn[c].from
         /\ conn[c].status # "open" \/ conn[c].server # s => conn'[c] = conn[c]
         /\ conn[c].status = "open" /\ conn[c].server = s =>
              \/ conn'[c].queue = conn[c].queue /\ ~conn'[c].whole
              \/ conn'[c].queue = Append(conn[c].queue, hits[s] + 1)
                 /\ conn'[c].whole = conn[c].whole
<1>1. PICK slow \in BOOLEAN :
        conn' = [d \in Conn |->
                   IF conn[d].status = "open" /\ conn[d].server = s
                   THEN IF slow THEN [conn[d] EXCEPT !.whole = FALSE]
                        ELSE [conn[d] EXCEPT !.queue = Append(@, hits[s] + 1)]
                   ELSE conn[d]]
  BY DEF Publish
<1>2. conn[c] \in Connection
  BY DEF Types
<1>3. conn'[c] = IF conn[c].status = "open" /\ conn[c].server = s
                 THEN IF slow THEN [conn[c] EXCEPT !.whole = FALSE]
                      ELSE [conn[c] EXCEPT !.queue = Append(conn[c].queue, hits[s] + 1)]
                 ELSE conn[c]
  BY <1>1
<1> QED
  BY <1>2, <1>3 DEF Connection

\* What a connection breaking does to it.
LEMMA BrokenEffect ==
  ASSUME Types, NEW c \in Conn, Broken(c), NEW d \in Conn
  PROVE  /\ d # c => conn'[d] = conn[d]
         /\ conn[c].status # "closed"
         /\ \/ conn'[c] = Closed
            \/ /\ conn'[c].status = "connecting" /\ conn'[c].server = conn[c].server
               /\ conn'[c].queue = <<>> /\ ~conn'[c].whole
<1>1. conn[c] \in Connection
  BY DEF Types
<1>2. \/ conn' = [conn EXCEPT ![c] = Closed]
      \/ conn' = [conn EXCEPT ![c] = [conn[c] EXCEPT !.status = "connecting",
                                                     !.queue = <<>>, !.whole = FALSE]]
  BY DEF Broken, Types
<1>3. conn[c].status # "closed"
  BY DEF Broken, Live
<1>4. \/ conn'[c] = Closed
      \/ conn'[c] = [conn[c] EXCEPT !.status = "connecting", !.queue = <<>>, !.whole = FALSE]
  BY <1>2 DEF Types
<1>5. d # c => conn'[d] = conn[d]
  BY <1>2 DEF Types
<1>6. \/ conn'[c] = Closed
      \/ /\ conn'[c].status = "connecting" /\ conn'[c].server = conn[c].server
         /\ conn'[c].queue = <<>> /\ ~conn'[c].whole
  BY <1>1, <1>4 DEF Connection
<1> QED
  BY <1>3, <1>5, <1>6

\* What the timer does.
LEMMA TimeoutEffect ==
  ASSUME Inv, QueuesFit, NEW c \in Conn, Timeout(c)
  PROVE  /\ timer \in Conn /\ eventSource = timer /\ timer' = None
         /\ UNCHANGED <<hits, apiBase, limit, table, load, quiet>>
         /\ \/ UNCHANGED <<conn, eventSource, streamAbort>>
            \/ /\ conn[timer].status # "open"
               /\ conn'[c] = Connecting
               /\ \A d \in Conn : d # c => conn'[d].status = "closed" /\ conn'[d].queue = <<>>
<1>1. timer \in Conn /\ eventSource = timer /\ streamAbort = None
  BY DEF Timeout, Inv, Refs
<1>2. CASE conn[timer].status # "open"
  <2>1. conn' = [conn EXCEPT ![timer] = Closed, ![c] = Connecting]
    BY <1>1, <1>2 DEF Timeout
  <2>2. conn'[c] = Connecting
    BY <2>1 DEF Inv, Types
  <2>3. ASSUME NEW d \in Conn, d # c
        PROVE  conn'[d].status = "closed" /\ conn'[d].queue = <<>>
    <3>1. CASE d = timer
      <4>1. conn'[d] = Closed
        BY <1>1, <2>1, <2>3, <3>1 DEF Inv, Types
      <4> QED
        BY <4>1 DEF Closed
    <3>2. CASE d # timer
      BY <1>1, <2>1, <2>3, <3>2 DEF Inv, Types, Fed, QueuesFit
    <3> QED
      BY <3>1, <3>2
  <2> QED
    BY <1>1, <1>2, <2>2, <2>3 DEF Timeout
<1>3. CASE conn[timer].status = "open"
  BY <1>1, <1>3 DEF Timeout
<1> QED
  BY <1>1, <1>2, <1>3 DEF Inv, Types, Connection

\* What the open event does.
LEMMA OpenedEffect ==
  ASSUME Inv, NEW c \in Conn, Opened(c), NEW d \in Conn
  PROVE  /\ d # c => conn'[d] = conn[d]
         /\ conn[c].status = "connecting" /\ conn'[c].status = "open"
         /\ conn[c].server = apiBase /\ conn'[c].server = apiBase
         /\ conn'[c].from = hits[apiBase] /\ conn'[c].queue = conn[c].queue
         /\ conn'[c].whole = conn[c].whole
         /\ timer' = None
<1>1. conn[c] \in Connection /\ conn[c].server = apiBase /\ conn[c].status = "connecting"
  BY DEF Opened, Inv, Types, Fed
<1>2. conn' = [conn EXCEPT ![c] = [conn[c] EXCEPT !.status = "open", !.from = hits[apiBase]]]
  BY <1>1 DEF Opened, Inv, Types
<1>3. timer = None \/ timer = c
  BY <1>1 DEF Inv, Refs, Fed
<1>4. timer' = None
  BY <1>3 DEF Opened
<1> QED
  BY <1>1, <1>2, <1>4 DEF Inv, Types, Connection

\* What the arrival of a hit does.
LEMMA HitEventEffect ==
  ASSUME Inv, QueuesFit, NEW c \in Conn, HitEvent(c), NEW d \in Conn
  PROVE  /\ conn[c].status = "open" /\ conn[c].server = apiBase /\ conn[c].queue # <<>>
         /\ c \in {eventSource, streamAbort} /\ timer = None
         /\ d # c => conn'[d] = conn[d] /\ conn[d].status = "closed"
         /\ conn'[c].status = "open" /\ conn'[c].server = apiBase
         /\ conn'[c].from = conn[c].from /\ conn'[c].whole = conn[c].whole
         /\ conn'[c].queue = Tail(conn[c].queue)
<1>1. conn[c] \in Connection /\ conn[c].queue # <<>> /\ conn[c].status = "open"
  BY DEF HitEvent, Inv, Types, QueuesFit
<1>2. conn[c].server = apiBase /\ c \in {eventSource, streamAbort}
  BY <1>1 DEF Inv, Fed
<1>3. d # c => conn[d].status = "closed"
  BY <1>2 DEF Inv, Fed, Refs
<1>4. timer = None
  BY <1>1, <1>2 DEF Inv, Refs, QueuesFit
<1>5. conn' = [conn EXCEPT ![c] = [conn[c] EXCEPT !.queue = Tail(conn[c].queue)]]
  BY DEF HitEvent, Inv, Types
<1> QED
  BY <1>1, <1>2, <1>3, <1>4, <1>5 DEF Inv, Types, Connection

\* After openStream there is one connection, that was never open.
LEMMA RefreshedEffect ==
  ASSUME Inv, NEW k \in Load, NEW c \in Conn, Refreshed(k, c), NEW d \in Conn
  PROVE  /\ conn'[c] = Connecting /\ timer' = c
         /\ d # c => conn'[d].status = "closed"
         /\ d # c => conn'[d].queue = <<>> \/ conn'[d] = conn[d]
<1>1. conn' = [CloseStream EXCEPT ![c] = Connecting] /\ timer' = c
  BY DEF Refreshed, OpenStream
<1>2. CloseStream \in [Conn -> Connection] /\ CloseStream[d].status = "closed"
  BY CloseStreamCloses
<1>3. CloseStream[d] = Closed \/ CloseStream[d] = conn[d]
  BY DEF CloseStream
<1> QED
  BY <1>1, <1>2, <1>3 DEF Closed

LEMMA NextQueuesFit == ShownInv /\ [Next]_vars => QueuesFit'
<1> SUFFICES ASSUME ShownInv, [Next]_vars PROVE QueuesFit'
  OBVIOUS
<1>0. Inv /\ Types /\ Refs /\ Fed /\ QueuesFit
  BY DEF ShownInv, Inv
<1>1. ASSUME UNCHANGED <<conn, timer>> PROVE QueuesFit'
  BY <1>0, <1>1 DEF QueuesFit
<1>2. ASSUME NEW s \in Server, Publish(s) PROVE QueuesFit'
  <2>1. timer' = timer
    BY <1>2 DEF Publish, refs
  <2>2. timer # None => timer \in Conn
    BY <1>0 DEF Refs
  <2> QED
    BY <1>0, <1>2, <2>1, <2>2, PublishEffect DEF QueuesFit
<1>3. ASSUME NEW c \in Conn, Timeout(c) PROVE QueuesFit'
  <2>1. Connecting.status = "connecting" /\ Connecting.queue = <<>>
    BY DEF Connecting
  <2>2. \A d \in Conn : conn'[d].status # "open" => conn'[d].queue = <<>>
    BY <1>0, <1>3, <2>1, TimeoutEffect DEF QueuesFit
  <2>3. timer' = None
    BY <1>3 DEF Timeout
  <2> QED
    BY <2>2, <2>3 DEF QueuesFit
<1>4. ASSUME NEW c \in Conn, Opened(c) PROVE QueuesFit'
  BY <1>0, <1>4, OpenedEffect DEF QueuesFit
<1>5. ASSUME NEW c \in Conn, Broken(c) PROVE QueuesFit'
  <2>1. timer' = timer
    BY <1>5 DEF Broken, refs
  <2>2. ASSUME NEW d \in Conn
        PROVE  /\ conn'[d].status # "open" => conn'[d].queue = <<>>
               /\ conn'[d].status = "open" => conn[d].status = "open"
    BY <1>0, <1>5, BrokenEffect DEF QueuesFit, Closed
  <2>3. timer # None => timer \in Conn
    BY <1>0 DEF Refs
  <2> QED
    BY <1>0, <2>1, <2>2, <2>3 DEF QueuesFit
<1>6. ASSUME NEW c \in Conn, HitEvent(c) PROVE QueuesFit'
  <2>1. timer' = timer
    BY <1>6 DEF HitEvent, refs
  <2> QED
    BY <1>0, <1>6, <2>1, HitEventEffect DEF QueuesFit
<1>7. ASSUME NEW k \in Load, NEW s \in Server, Connect(k, s) PROVE QueuesFit'
  <2>1. conn' = CloseStream /\ timer' = None
    BY <1>7 DEF Connect
  <2>2. \A d \in Conn : CloseStream[d] = Closed \/ CloseStream[d] = conn[d]
    BY DEF CloseStream
  <2> QED
    BY <1>0, <2>1, <2>2 DEF QueuesFit, Closed
<1>8. ASSUME NEW k \in Load, NEW c \in Conn, Refreshed(k, c) PROVE QueuesFit'
  <2>1. Connecting.status = "connecting" /\ Connecting.queue = <<>>
    BY DEF Connecting
  <2>2. ASSUME NEW d \in Conn PROVE conn'[d].status # "open" /\ conn'[d].queue = <<>>
    BY <1>0, <1>8, <2>1, RefreshedEffect DEF QueuesFit
  <2>3. timer' \in Conn
    BY <1>0, <1>8, RefreshedEffect
  <2> QED
    BY <2>2, <2>3 DEF QueuesFit
<1>9. ASSUME NEW k \in Load, Answer(k) \/ Loaded(k) \/ Failed(k) PROVE QueuesFit'
  BY <1>1, <1>9 DEF Answer, Loaded, Failed, refs
<1>10. ASSUME NEW k \in Load, NEW l \in Limits, Reload(k, l) PROVE QueuesFit'
  BY <1>1, <1>10 DEF Reload, refs
<1>11. CASE Clear
  BY <1>1, <1>11 DEF Clear, refs
<1>12. CASE UNCHANGED vars
  BY <1>1, <1>12 DEF vars, refs
<1> QED
  BY <1>2, <1>3, <1>4, <1>5, <1>6, <1>7, <1>8, <1>9, <1>10, <1>11, <1>12 DEF Next

LEMMA RunOfNothing ==
  ASSUME NEW s, NEW h
  PROVE  Run(<<>>, s, h) /\ Ordered(<<>>, s, h)
BY DEF Run, Ordered

\* The list a server answers with.
LEMMA AnswerIsRun ==
  ASSUME NEW s \in Server, NEW h \in Nat, NEW n \in 0..h,
         NEW rows, Len(rows) = n,
         \A i \in 1..n : rows[i].server = s /\ rows[i].n = h - n + i
  PROVE  Run(rows, s, h)
BY DEF Run

LEMMA NextAloneFits == ShownInv /\ [Next]_vars => AloneFits'
<1> SUFFICES ASSUME ShownInv, [Next]_vars PROVE AloneFits'
  OBVIOUS
<1>0. /\ Inv /\ Types /\ Refs /\ LoadTypes /\ QueuesFit /\ AloneFits
      /\ None \notin Conn /\ apiBase \in Server /\ hits[apiBase] \in Nat
  BY DEF ShownInv, Inv, Types
<1>1. ASSUME UNCHANGED <<hits, apiBase, limit, table, load, eventSource, streamAbort>>
      PROVE  AloneFits'
  BY <1>0, <1>1 DEF AloneFits, NoStream
<1>2. ASSUME UNCHANGED load, ~NoStream PROVE AloneFits'
  BY <1>0, <1>2 DEF AloneFits
<1>3. ASSUME NEW s \in Server, Publish(s) PROVE AloneFits'
  <2>1. /\ UNCHANGED <<apiBase, limit, table, load, eventSource, streamAbort>>
        /\ hits'[apiBase] \in {hits[apiBase], hits[apiBase] + 1}
    BY <1>0, <1>3 DEF Publish, refs, Types
  <2>2. \A rows \in Seq(NRow) :
          Run(rows, apiBase, hits[apiBase]) => Run(rows, apiBase, hits'[apiBase])
    BY <1>0, <2>1, MoreHitsKeep
  <2>3. table \in Seq(NRow) /\ \A k \in Load : load[k].rows \in Seq(NRow)
    BY <1>0 DEF LoadTypes, LoadRec
  <2> QED
    BY <1>0, <2>1, <2>2, <2>3 DEF AloneFits, NoStream
<1>4. ASSUME NEW c \in Conn, Timeout(c) PROVE AloneFits'
  <2>1. ~NoStream /\ load' = load
    BY <1>0, <1>4, TimeoutEffect DEF NoStream
  <2> QED
    BY <1>2, <2>1
<1>5. ASSUME NEW c \in Conn, Opened(c) \/ Broken(c) PROVE AloneFits'
  BY <1>1, <1>5 DEF Opened, Broken, refs
<1>6. ASSUME NEW c \in Conn, HitEvent(c) PROVE AloneFits'
  <2>1. c \in {eventSource, streamAbort}
    BY <1>0, <1>6, HitEventEffect
  <2>2. ~NoStream /\ load' = load
    BY <1>0, <1>6, <2>1 DEF HitEvent, NoStream
  <2> QED
    BY <1>2, <2>2
<1>7. ASSUME NEW k \in Load, NEW s \in Server, Connect(k, s) PROVE AloneFits'
  <2>1. /\ Start(k, "connect", s, limit) /\ limit \in Nat
        /\ apiBase' = s /\ limit' = limit /\ eventSource' = None /\ streamAbort' = None
    BY <1>0, <1>7 DEF Connect, LoadTypes
  <2>2. /\ load'[k].stage = "sent" /\ load'[k].server = s /\ load'[k].limit = limit
        /\ load'[k].alone => \A j \in Load : j # k => load'[j] = NoLoad
        /\ \A j \in Load : j # k => (load'[j] # NoLoad => ~load'[j].alone)
    BY <1>0, <2>1, StartEffect
  <2> QED
    BY <2>1, <2>2 DEF AloneFits, NoStream
<1>8. ASSUME NEW k \in Load, NEW l \in Limits, Reload(k, l) PROVE AloneFits'
  <2>1. Start(k, "limit", apiBase, l) /\ l \in Nat
    BY <1>8 DEF Reload
  <2>2. /\ load'[k].who = "limit"
        /\ load'[k].alone => \A j \in Load : j # k => load'[j] = NoLoad
        /\ \A j \in Load : j # k => (load'[j] # NoLoad => ~load'[j].alone)
    BY <1>0, <2>1, StartEffect
  <2> QED
    BY <2>2 DEF AloneFits
<1>9. ASSUME NEW k \in Load, Answer(k) PROVE AloneFits'
  <2> DEFINE srv == load[k].server
             n == IF hits[srv] < load[k].limit THEN hits[srv] ELSE load[k].limit
             rows == [i \in 1..n |-> [server |-> srv, n |-> hits[srv] - n + i]]
  <2>1. /\ load[k] \in LoadRec /\ srv \in Server /\ hits[srv] \in Nat
        /\ load[k].limit \in Nat /\ load[k] # NoLoad
        /\ UNCHANGED <<hits, apiBase, limit, table, eventSource, streamAbort>>
    BY <1>0, <1>9 DEF Answer, LoadTypes, Types, LoadRec, refs
  <2>2. n \in 0..hits[srv] /\ n <= load[k].limit
    BY <2>1
  <2>3. load' = [load EXCEPT ![k] = [load[k] EXCEPT !.stage = "answered", !.rows = rows]]
    BY <1>0, <1>9 DEF Answer, LoadTypes
  <2>4. Run(rows, srv, hits[srv]) /\ Len(rows) = n
    <3> HIDE DEF n, srv
    <3>1. n \in 0..hits[srv]
      BY <2>2
    <3>2. /\ Len(rows) = n
          /\ \A i \in 1..n : rows[i].server = srv /\ rows[i].n = hits[srv] - n + i
      BY <2>1, <3>1
    <3> HIDE DEF rows
    <3> QED
      BY <2>1, <3>1, <3>2, AnswerIsRun
  <2> HIDE DEF rows, n, srv
  <2>5. load'[k] = [load[k] EXCEPT !.stage = "answered", !.rows = rows]
    BY <1>0, <2>3 DEF LoadTypes
  <2>6. /\ load'[k].alone = load[k].alone /\ load'[k].who = load[k].who
        /\ load'[k].server = load[k].server /\ load'[k].limit = load[k].limit
        /\ load'[k].stage = "answered" /\ load'[k].rows = rows
    BY <2>1, <2>5 DEF LoadRec
  <2>7. \A j \in Load : j # k => load'[j] = load[j]
    BY <1>0, <2>3 DEF LoadTypes
  <2>8. load[k].alone /\ load[k].who = "connect" =>
          /\ Run(rows, apiBase, hits[apiBase]) /\ Len(rows) <= limit
          /\ load[k].server = apiBase /\ load[k].limit = limit /\ NoStream
    BY <1>0, <2>1, <2>2, <2>4 DEF AloneFits, srv
  <2> QED
    BY <1>0, <2>1, <2>6, <2>7, <2>8 DEF AloneFits, NoStream
<1>10. ASSUME NEW k \in Load, load[k] # NoLoad, load' = [load EXCEPT ![k] = NoLoad] PROVE AloneFits'
  <2>1. load'[k] = NoLoad /\ \A j \in Load : j # k => load'[j] = load[j]
    BY <1>0, <1>10 DEF LoadTypes
  <2> QED
    BY <1>0, <1>10, <2>1 DEF AloneFits
<1>11. ASSUME NEW k \in Load, Loaded(k) PROVE AloneFits'
  <2>1. /\ load[k] \in LoadRec /\ load[k].stage = "answered" /\ table' = load[k].rows
        /\ UNCHANGED <<hits, apiBase, limit, eventSource, streamAbort>>
    BY <1>0, <1>11 DEF Loaded, LoadTypes, refs
  <2>2. load[k] # NoLoad
    BY <2>1 DEF NoLoad
  <2>3. CASE load[k].who = "connect"
    <3>1. load' = [load EXCEPT ![k] = [load[k] EXCEPT !.stage = "loaded", !.rows = <<>>]]
      BY <1>0, <1>11, <2>3 DEF Loaded, LoadTypes
    <3>2. /\ load'[k] = [load[k] EXCEPT !.stage = "loaded", !.rows = <<>>]
          /\ \A j \in Load : j # k => load'[j] = load[j]
      BY <1>0, <3>1 DEF LoadTypes
    <3>3. /\ load'[k].alone = load[k].alone /\ load'[k].who = "connect"
          /\ load'[k].server = load[k].server /\ load'[k].limit = load[k].limit
          /\ load'[k].stage = "loaded"
      BY <2>1, <2>3, <3>2 DEF LoadRec
    <3>4. load[k].alone =>
            /\ \A j \in Load : load[j] # NoLoad => j = k
            /\ load[k].server = apiBase /\ load[k].limit = limit /\ NoStream
            /\ Run(load[k].rows, apiBase, hits[apiBase]) /\ Len(load[k].rows) <= limit
      BY <1>0, <2>1, <2>2, <2>3 DEF AloneFits
    <3>5. \A j \in Load : j # k /\ load[j] # NoLoad => ~load[j].alone
      BY <1>0, <2>2 DEF AloneFits
    <3>6. \A j \in Load : load'[j] # NoLoad /\ load'[j].alone => j = k
      BY <3>2, <3>5
    <3>7. load'[k].alone => \A j \in Load : load'[j] # NoLoad => j = k
      BY <3>2, <3>3, <3>4
    <3>8. load'[k].alone =>
            /\ load'[k].server = apiBase' /\ load'[k].limit = limit' /\ NoStream'
            /\ Run(table', apiBase', hits'[apiBase']) /\ Len(table') <= limit'
      BY <2>1, <3>3, <3>4 DEF NoStream
    <3> QED
      BY <3>3, <3>6, <3>7, <3>8 DEF AloneFits
  <2>4. CASE load[k].who # "connect"
    <3>1. load' = [load EXCEPT ![k] = NoLoad]
      BY <1>0, <1>11, <2>4 DEF Loaded, LoadTypes
    <3> QED
      BY <1>10, <2>2, <3>1
  <2> QED
    BY <2>3, <2>4
<1>12. ASSUME NEW k \in Load, NEW c \in Conn, Refreshed(k, c) PROVE AloneFits'
  <2>1. load[k] # NoLoad /\ load' = [load EXCEPT ![k] = NoLoad]
    BY <1>12 DEF Refreshed, NoLoad
  <2> QED
    BY <1>10, <2>1
<1>13. ASSUME NEW k \in Load, Failed(k) PROVE AloneFits'
  <2>1. CASE load' = [load EXCEPT ![k] = NoLoad]
    BY <1>10, <1>13, <2>1 DEF Failed
  <2>2. CASE load' = [load EXCEPT ![k].who = "limit"]
    <3>1. load[k] \in LoadRec /\ load' = [load EXCEPT ![k] = [load[k] EXCEPT !.who = "limit"]]
      BY <1>0, <2>2 DEF LoadTypes
    <3>2. /\ load'[k] = [load[k] EXCEPT !.who = "limit"]
          /\ \A j \in Load : j # k => load'[j] = load[j]
      BY <1>0, <3>1 DEF LoadTypes
    <3>3. load'[k].alone = load[k].alone /\ load'[k].who = "limit"
      BY <3>1, <3>2 DEF LoadRec
    <3>4. /\ UNCHANGED <<hits, apiBase, limit, table, eventSource, streamAbort>>
          /\ load[k] # NoLoad
      BY <1>13 DEF Failed, refs
    <3>5. \A j \in Load : load'[j] # NoLoad /\ load'[j].alone => j = k
      BY <1>0, <3>2, <3>4 DEF AloneFits
    <3>6. load'[k].alone => \A j \in Load : load'[j] # NoLoad => j = k
      BY <1>0, <3>2, <3>3, <3>4 DEF AloneFits
    <3> QED
      BY <3>3, <3>5, <3>6 DEF AloneFits
  <2> QED
    BY <1>13, <2>1, <2>2 DEF Failed
<1>14. CASE Clear
  <2>1. /\ table' = <<>> /\ UNCHANGED <<hits, apiBase, limit, load, eventSource, streamAbort>>
    BY <1>14 DEF Clear, refs
  <2>2. Run(table', apiBase, hits[apiBase]) /\ Len(table') = 0 /\ 0 <= limit
    BY <1>0, <2>1, RunOfNothing DEF LoadTypes
  <2> QED
    BY <1>0, <2>1, <2>2 DEF AloneFits, NoStream
<1>15. CASE UNCHANGED vars
  BY <1>1, <1>15 DEF vars, refs
<1> QED
  BY <1>3, <1>4, <1>5, <1>6, <1>7, <1>8, <1>9, <1>11, <1>12, <1>13, <1>14, <1>15 DEF Next

-----------------------------------------------------------------------------
(* The table and its stream                                                *)

LEMMA PrefixOrdered ==
  ASSUME NEW a \in Seq(NRow), NEW b \in Seq(NRow), NEW s, NEW h, Ordered(a \o b, s, h)
  PROVE  Ordered(a, s, h)
<1>1. Len(a) \in Nat /\ Len(b) \in Nat /\ Len(a \o b) = Len(a) + Len(b)
  BY LenProperties, ConcatProperties
<1>2. ASSUME NEW i \in 1..Len(a) PROVE i \in 1..Len(a \o b) /\ (a \o b)[i] = a[i]
  BY <1>1, ConcatProperties
<1> QED
  BY <1>2 DEF Ordered

\* A connection with nothing queued: what is to come is the table.
LEMMA EmptyStreamFits ==
  ASSUME NEW tab \in Seq(NRow), NEW con \in Connection, con.server \in Server, con.queue = <<>>,
         NEW s, NEW h, Ordered(tab, s, h), con.status # "open" \/ ~con.whole
  PROVE  StreamFits(tab, con, s, h)
BY NothingComing DEF StreamFits

\* Fewer rows in front change nothing of the others.
LEMMA SuffixFits ==
  ASSUME NEW tab \in Seq(NRow), NEW con \in Connection, con.server \in Server,
         NEW tab2 \in Seq(NRow), NEW con2 \in Connection, con2.server \in Server,
         SuffixOf(ComingOf(tab2, con2), ComingOf(tab, con)),
         con2.status = con.status, con2.from = con.from, con2.whole = con.whole,
         NEW s, NEW h \in Nat, StreamFits(tab, con, s, h)
  PROVE  StreamFits(tab2, con2, s, h)
<1> DEFINE a == ComingOf(tab2, con2)
           b == ComingOf(tab, con)
<1>1. a \in Seq(NRow) /\ b \in Seq(NRow) /\ con.from \in Nat
  BY ComingType DEF Connection
<1> HIDE DEF a, b
<1>2. SuffixOf(a, b)
  BY DEF a, b
<1>3. /\ Ordered(b, s, h) => Ordered(a, s, h)
      /\ \A from \in Nat : OneGap(b, from, h) => OneGap(a, from, h)
  BY <1>1, <1>2, SuffixKeeps
<1> QED
  BY <1>1, <1>3 DEF StreamFits, a, b

LEMMA NextQuietFits == ShownInv /\ [Next]_vars => QuietFits'
<1> SUFFICES ASSUME ShownInv, [Next]_vars, quiet' PROVE QuietFits'
  BY DEF QuietFits
<1> DEFINE h == hits[apiBase]
           Shown == (\A k \in Load : load'[k] = NoLoad) /\ TableFits'
<1>0. /\ Inv /\ Types /\ Refs /\ Fed /\ LoadTypes /\ QueuesFit /\ AloneFits
      /\ None \notin Conn /\ apiBase \in Server /\ h \in Nat
      /\ table \in Seq(NRow) /\ limit \in Nat \ {0}
  BY DEF ShownInv, Inv, Types, LoadTypes
<1>a. /\ Inv' /\ LoadTypes'
      /\ table' \in Seq(NRow)
      /\ \A c \in Conn : conn'[c] \in Connection
  <2>1. Inv' /\ LoadTypes'
    BY <1>0, NextInv, NextLoadTypes
  <2>2. \A c \in Conn : conn'[c] \in Connection
    BY <2>1 DEF Inv, Types
  <2> QED
    BY <2>1, <2>2 DEF LoadTypes
<1>b. ASSUME quiet
      PROVE  /\ \A k \in Load : load[k] = NoLoad
             /\ Ordered(table, apiBase, h) /\ Len(table) <= limit
             /\ Unfed => Run(table, apiBase, h)
             /\ \A c \in Conn : conn[c].status # "closed" => StreamFits(table, conn[c], apiBase, h)
  BY <1>b DEF ShownInv, QuietFits, TableFits
<1>c. \A c \in Conn : /\ conn[c] \in Connection
                      /\ conn[c].status # "closed" => conn[c].server = apiBase
  BY <1>0 DEF Types, Fed
<1> SUFFICES Shown
  BY DEF QuietFits
<1>1. ASSUME UNCHANGED <<hits, apiBase, limit, table, load, conn, timer, quiet>> PROVE Shown
  BY <1>1, <1>b DEF TableFits, Unfed
<1>2. ASSUME NEW s \in Server, Publish(s) PROVE Shown
  <2>1. quiet /\ UNCHANGED <<apiBase, limit, table, load, timer>>
    BY <1>2 DEF Publish, refs
  <2> DEFINE h2 == hits'[apiBase]
  <2>2. h2 = IF s = apiBase THEN h + 1 ELSE h
    BY <1>0, <1>2 DEF Publish, Types
  <2>3. /\ Ordered(table, apiBase, h2)
        /\ Run(table, apiBase, h) => Run(table, apiBase, h2)
    BY <1>0, <1>b, <2>1, <2>2, MoreHitsKeep
  <2>4. Unfed' => Unfed
    BY <1>0, <1>2, <2>1, PublishEffect DEF Unfed
  <2>5. ASSUME NEW c \in Conn, conn'[c].status # "closed"
        PROVE  StreamFits(table, conn'[c], apiBase, h2)
    <3> DEFINE rows == ComingOf(table, conn[c])
    <3>1. /\ conn[c].status = conn'[c].status /\ conn'[c].server = apiBase
          /\ conn[c].server = apiBase /\ conn'[c].from = conn[c].from
          /\ StreamFits(table, conn[c], apiBase, h) /\ conn[c].from \in Nat
      BY <1>0, <1>2, <1>b, <1>c, <2>1, <2>5, PublishEffect DEF Connection
    <3>2. rows \in Seq(NRow)
      BY <1>0, <1>c, <3>1, ComingType
    <3>3. Ordered(rows, apiBase, h) /\ Ordered(rows, apiBase, h2)
      <4>1. Ordered(rows, apiBase, h)
        BY <3>1 DEF StreamFits
      <4> HIDE DEF rows
      <4> QED
        BY <1>0, <2>2, <3>2, <4>1, MoreHitsKeep
    <3>4. CASE conn[c].status # "open" \/ s # apiBase
      <4>1. conn'[c] = conn[c]
        BY <1>0, <1>2, <3>1, <3>4, PublishEffect
      <4>2. conn[c].status = "open" => h2 = h
        BY <2>2, <3>4
      <4> QED
        BY <3>1, <3>3, <4>1, <4>2 DEF StreamFits
    <3>5. CASE conn[c].status = "open" /\ s = apiBase
      <4>1. CASE conn'[c].queue = conn[c].queue /\ ~conn'[c].whole
        <5>1. ComingOf(table, conn'[c]) = rows
          BY <3>1, <4>1, ComingSame
        <5> QED
          BY <3>3, <4>1, <5>1 DEF StreamFits
      <4>2. CASE /\ conn'[c].queue = Append(conn[c].queue, h + 1)
                 /\ conn'[c].whole = conn[c].whole
        <5> DEFINE row == [server |-> apiBase, n |-> h + 1]
        <5>1. h + 1 \in Nat /\ h2 = h + 1
          BY <1>0, <2>2, <3>5
        <5>2. ComingOf(table, conn'[c]) = Append(rows, row)
          <6> DEFINE con == conn[c]
                     con2 == conn'[c]
                     next == h + 1
          <6>1. /\ con \in Connection /\ con.server \in Server /\ con2 \in Connection
                /\ con2.server = con.server /\ con2.queue = Append(con.queue, next)
                /\ next \in Nat /\ table \in Seq(NRow)
            BY <1>0, <1>a, <1>c, <3>1, <4>2, <5>1
          <6> HIDE DEF con, con2, next
          <6>2. ComingOf(table, con2)
                  = Append(ComingOf(table, con), [server |-> con.server, n |-> next])
            BY <6>1, PublishedComing
          <6> QED
            BY <3>1, <6>2 DEF con, con2, next
        <5>3. row \in NRow /\ row.server = apiBase /\ row.n = h + 1
          BY <1>0, <5>1 DEF NRow
        <5> HIDE DEF row, rows
        <5>4. /\ Ordered(Append(rows, row), apiBase, h + 1)
              /\ \A from \in Nat : from <= h /\ OneGap(rows, from, h) =>
                   OneGap(Append(rows, row), from, h + 1)
          BY <1>0, <3>2, <3>3, <5>3, AppendKeeps
        <5>5. conn[c].whole => conn[c].from <= h /\ OneGap(rows, conn[c].from, h)
          BY <3>1, <3>5 DEF StreamFits, rows
        <5>6. conn[c].whole => conn[c].from <= h + 1
          BY <1>0, <3>1, <5>5
        <5> QED
          BY <3>1, <4>2, <5>1, <5>2, <5>4, <5>5, <5>6 DEF StreamFits
      <4> QED
        BY <1>0, <1>2, <3>1, <3>5, <4>1, <4>2, PublishEffect
    <3> QED
      BY <3>4, <3>5
  <2> QED
    BY <1>b, <2>1, <2>3, <2>4, <2>5 DEF TableFits
<1>3. ASSUME NEW c \in Conn, Timeout(c) PROVE Shown
  <2>1. /\ timer \in Conn /\ UNCHANGED <<hits, apiBase, limit, table, load, quiet>>
        /\ \/ UNCHANGED conn
           \/ /\ conn'[c] = Connecting
              /\ \A d \in Conn : d # c => conn'[d].status = "closed"
    BY <1>0, <1>3, TimeoutEffect
  <2>2. /\ Unfed /\ Run(table, apiBase, h)
        /\ \A k \in Load : load[k] = NoLoad
        /\ Ordered(table, apiBase, h) /\ Len(table) <= limit
        /\ \A d \in Conn : conn[d].status # "closed" => StreamFits(table, conn[d], apiBase, h)
    BY <1>0, <1>b, <2>1 DEF Unfed
  <2>3. ASSUME NEW d \in Conn, conn'[d].status # "closed"
        PROVE  StreamFits(table, conn'[d], apiBase, h)
    <3>1. CASE UNCHANGED conn
      BY <2>2, <2>3, <3>1
    <3>2. CASE d = c /\ conn'[c] = Connecting
      <4>1. /\ conn'[d] \in Connection /\ conn'[d].server \in Server
            /\ conn'[d].queue = <<>> /\ conn'[d].status # "open"
        BY <1>0, <1>a, <3>2 DEF Connecting
      <4> QED
        BY <1>0, <2>2, <4>1, EmptyStreamFits
    <3> QED
      BY <2>1, <2>3, <3>1, <3>2
  <2> QED
    BY <2>1, <2>2, <2>3 DEF TableFits
<1>4. ASSUME NEW c \in Conn, Opened(c) PROVE Shown
  <2>1. quiet /\ UNCHANGED <<hits, apiBase, limit, table, load>>
    BY <1>4 DEF Opened
  <2>2. /\ conn[c].status = "connecting" /\ conn'[c].status = "open"
        /\ conn'[c].server = apiBase /\ conn'[c].from = h /\ conn'[c].whole = conn[c].whole
        /\ conn'[c].queue = conn[c].queue /\ timer' = None
    BY <1>0, <1>4, OpenedEffect
  <2>3. \A d \in Conn : d # c => conn'[d] = conn[d]
    BY <1>0, <1>4, OpenedEffect
  <2>4. Unfed' => Unfed
    BY <2>2, <2>3 DEF Unfed
  <2>5. StreamFits(table, conn'[c], apiBase, h)
    <3>1. conn'[c] \in Connection /\ conn'[c].queue = <<>>
      BY <1>0, <1>a, <2>2 DEF QueuesFit
    <3>2. ComingOf(table, conn'[c]) = table
      BY <1>0, <2>2, <3>1, NothingComing
    <3>3. conn'[c].whole => Run(table, apiBase, h)
      BY <1>b, <2>1, <2>2 DEF Unfed
    <3>4. conn'[c].whole => OneGap(table, h, h)
      BY <1>0, <3>3, RunIsOrdered
    <3> QED
      BY <1>0, <1>b, <2>1, <2>2, <3>2, <3>4 DEF StreamFits
  <2> QED
    BY <1>b, <2>1, <2>3, <2>4, <2>5 DEF TableFits
<1>5. ASSUME NEW c \in Conn, Broken(c) PROVE Shown
  <2>1. quiet /\ UNCHANGED <<hits, apiBase, limit, table, load, timer>>
    BY <1>5 DEF Broken, refs
  <2>2. /\ conn[c].status # "closed"
        /\ \/ conn'[c].status = "closed"
           \/ /\ conn'[c].status = "connecting" /\ conn'[c].server = conn[c].server
              /\ conn'[c].queue = <<>> /\ ~conn'[c].whole
    BY <1>0, <1>5, BrokenEffect DEF Closed
  <2>3. \A d \in Conn : d # c => conn'[d] = conn[d]
    BY <1>0, <1>5, BrokenEffect
  <2>4. Unfed' => Unfed
    BY <2>1, <2>2, <2>3 DEF Unfed
  <2>5. conn'[c].status # "closed" => StreamFits(table, conn'[c], apiBase, h)
    <3> SUFFICES ASSUME conn'[c].status # "closed"
                 PROVE  StreamFits(table, conn'[c], apiBase, h)
      OBVIOUS
    <3>1. /\ conn'[c] \in Connection /\ conn'[c].server \in Server
          /\ conn'[c].queue = <<>> /\ ~conn'[c].whole
      BY <1>0, <1>a, <1>c, <2>2
    <3> QED
      BY <1>0, <1>b, <2>1, <3>1, EmptyStreamFits
  <2> QED
    BY <1>b, <2>1, <2>3, <2>4, <2>5 DEF TableFits
<1>6. ASSUME NEW c \in Conn, HitEvent(c) PROVE Shown
  <2> DEFINE row == [server |-> conn[c].server, n |-> Head(conn[c].queue)]
  <2>1. quiet /\ UNCHANGED <<hits, apiBase, limit, load, timer>> /\ table' = AppendHit(row)
    BY <1>6 DEF HitEvent, refs
  <2>2. /\ conn[c].status = "open" /\ conn[c].server = apiBase /\ conn[c].queue # <<>>
        /\ timer = None
        /\ conn'[c].status = "open" /\ conn'[c].server = apiBase
        /\ conn'[c].from = conn[c].from /\ conn'[c].whole = conn[c].whole
        /\ conn'[c].queue = Tail(conn[c].queue)
    BY <1>0, <1>6, HitEventEffect
  <2>3. \A d \in Conn : d # c => conn'[d].status = "closed"
    BY <1>0, <1>6, HitEventEffect
  <2>4. row \in NRow
    <3>1. Head(conn[c].queue) \in Nat
      BY <1>c, <2>2, HeadTailProperties DEF Connection
    <3> QED
      BY <1>0, <2>2, <3>1 DEF NRow
  <2>5. SuffixOf(table', Append(table, row)) /\ Len(table') <= limit
    <3> HIDE DEF row
    <3> QED
      BY <1>0, <2>1, <2>4, AppendHitSuffix
  <2>6. SuffixOf(ComingOf(table', conn'[c]), ComingOf(table, conn[c]))
    BY <1>0, <1>a, <1>c, <2>2, <2>5, HandedComing
  <2>7. StreamFits(table, conn[c], apiBase, h)
    BY <1>b, <2>1, <2>2
  <2>8. StreamFits(table', conn'[c], apiBase, h)
    BY <1>0, <1>a, <1>c, <2>2, <2>6, <2>7, SuffixFits
  <2>9. Ordered(table', apiBase, h)
    <3>1. Ordered(table' \o Rows(conn'[c]), apiBase, h)
      BY <2>8 DEF StreamFits, ComingOf
    <3>2. Rows(conn'[c]) \in Seq(NRow)
      BY <1>0, <1>a, <2>2, RowsType
    <3> QED
      BY <1>a, <3>1, <3>2, PrefixOrdered
  <2>10. ~Unfed'
    BY <2>1, <2>2, <2>3 DEF Unfed
  <2> QED
    BY <1>b, <2>1, <2>3, <2>5, <2>8, <2>9, <2>10 DEF TableFits
<1>7. ASSUME NEW k \in Load,
             \/ \E s \in Server : Connect(k, s)
             \/ \E l \in Limits : Reload(k, l)
             \/ Answer(k) \/ Loaded(k) \/ Failed(k)
      PROVE  FALSE
  <2>1. NoLoad.stage = "sent"
    BY DEF NoLoad
  <2>2. quiet /\ load[k] # NoLoad
    BY <1>7, <2>1 DEF Connect, Reload, Answer, Loaded, Failed
  <2> QED
    BY <1>b, <2>2
<1>8. ASSUME NEW k \in Load, NEW c \in Conn, Refreshed(k, c) PROVE Shown
  <2>1. /\ load[k].stage = "loaded" /\ load' = [load EXCEPT ![k] = NoLoad] /\ load[k].alone
        /\ UNCHANGED <<hits, apiBase, limit, table>>
    BY <1>8 DEF Refreshed
  <2>2. load[k] # NoLoad /\ load[k].who = "connect"
    BY <1>0, <2>1 DEF NoLoad, LoadTypes
  <2>3. /\ \A j \in Load : load[j] # NoLoad => j = k
        /\ Run(table, apiBase, h) /\ Len(table) <= limit
    BY <1>0, <2>1, <2>2 DEF AloneFits
  <2>4. \A j \in Load : load'[j] = NoLoad
    BY <1>0, <2>1, <2>3 DEF LoadTypes
  <2>5. Ordered(table, apiBase, h)
    BY <1>0, <2>3, RunIsOrdered
  <2>6. conn'[c] = Connecting /\ \A d \in Conn : d # c => conn'[d].status = "closed"
    BY <1>0, <1>8, RefreshedEffect
  <2>7. StreamFits(table, conn'[c], apiBase, h)
    <3>1. /\ conn'[c] \in Connection /\ conn'[c].server \in Server
          /\ conn'[c].queue = <<>> /\ conn'[c].status # "open"
      BY <1>0, <1>a, <2>6 DEF Connecting
    <3> QED
      BY <1>0, <2>5, <3>1, EmptyStreamFits
  <2> QED
    BY <2>1, <2>3, <2>4, <2>5, <2>6, <2>7 DEF TableFits
<1>9. CASE Clear
  <2>1. quiet /\ table' = <<>> /\ UNCHANGED <<hits, apiBase, limit, load, conn, timer>>
    BY <1>9 DEF Clear, refs
  <2>2. Run(table', apiBase, h) /\ Ordered(table', apiBase, h) /\ Len(table') <= limit
    BY <1>0, <2>1, RunOfNothing
  <2>3. ASSUME NEW c \in Conn, conn[c].status # "closed"
        PROVE  StreamFits(table', conn[c], apiBase, h)
    <3>1. conn[c].server \in Server /\ StreamFits(table, conn[c], apiBase, h)
      BY <1>0, <1>b, <1>c, <2>1, <2>3
    <3>2. SuffixOf(ComingOf(table', conn[c]), ComingOf(table, conn[c]))
      BY <1>0, <1>c, <2>1, <3>1, ClearedComing
    <3> QED
      BY <1>0, <1>a, <1>c, <3>1, <3>2, SuffixFits
  <2> QED
    BY <1>b, <2>1, <2>2, <2>3 DEF TableFits
<1>10. CASE UNCHANGED vars
  BY <1>1, <1>10 DEF vars, refs
<1> QED
  BY <1>2, <1>3, <1>4, <1>5, <1>6, <1>7, <1>8, <1>9, <1>10 DEF Next

LEMMA NextShown == ShownInv /\ [Next]_vars => ShownInv'
BY NextInv, NextLoadTypes, NextQueuesFit, NextAloneFits, NextQuietFits DEF ShownInv

-----------------------------------------------------------------------------
(* Theorems                                                                *)

LEMMA AlwaysShown == Spec => []ShownInv
BY InitShown, NextShown, PTL DEF Spec

LEMMA ComingRows == \A c \in Conn : Coming(c) = ComingOf(table, conn[c])
BY DEF Coming, ComingOf, Rows

\* The rows shown and those on their way are never shown twice, never out of order and never
\* of another server, and appendHit keeps to the rows asked for, for as long as no loadHits
\* overlapped another or the stream (app.js:116-131, 144-148, 312-317).
THEOREM TableStaysInOrder == Spec => []TableInOrder
<1>1. ASSUME ShownInv PROVE TableInOrder
  <2>1. ASSUME quiet, NEW c \in Live
        PROVE  /\ Ordered(Coming(c), apiBase, hits[apiBase])
               /\ Len(table) <= limit
    BY <1>1, <2>1, ComingRows DEF ShownInv, QuietFits, TableFits, StreamFits, Live
  <2> QED
    BY <2>1 DEF TableInOrder, Ordered
<1> QED
  BY <1>1, AlwaysShown, PTL

\* As long as no load overlapped and the stream was never slow and never connected again,
\* hits are missing only between the list that connect() loaded and the subscription of the
\* stream that it opens after; whatever is published later is shown or on its way
\* (app.js:123-124).
THEOREM TableHasOneGap == Spec => []OnlyOneGap
<1>1. ASSUME ShownInv PROVE OnlyOneGap
  <2>1. ASSUME quiet, NEW c \in Conn, conn[c].status = "open", conn[c].whole
        PROVE  OneGap(Coming(c), conn[c].from, hits[apiBase])
    BY <1>1, <2>1, ComingRows DEF ShownInv, QuietFits, TableFits, StreamFits
  <2> QED
    BY <2>1 DEF OnlyOneGap, OneGap
<1> QED
  BY <1>1, AlwaysShown, PTL
=============================================================================

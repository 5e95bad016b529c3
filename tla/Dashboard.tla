----------------------------- MODULE Dashboard -----------------------------
(***************************************************************************)
(* The table of hits of the browser dashboard (app.js): filled from GET    *)
(* /hits by loadHits, and row by row from GET /hits/stream, read with an   *)
(* EventSource or, when that does not open in time, with fetch.  Handlers  *)
(* run to their next await; requests are answered in any order, and the    *)
(* user connects, to this server or another, refreshes, and changes the    *)
(* number of rows whenever he likes.                                       *)
(*                                                                         *)
(* A server is the number of hits it has published: GET /hits gives the    *)
(* last of them, a stream those published from its subscription on, in     *)
(* order, without some if it is slow (HitPipeline.tla).  External: the     *)
(* servers, the network and the browser's EventSource, which connects      *)
(* again by itself.                                                        *)
(***************************************************************************)
EXTENDS Naturals, Sequences, FiniteSets

CONSTANTS
  Server,   \* addresses of servers
  MaxHits,  \* bound on the hits of a server
  Limits,   \* numbers of rows the user asks for
  Load,     \* calls of loadHits that may be under way at once
  Conn,     \* connections of streams that may be alive at once
  None      \* no server, no connection

ASSUME DashboardAssumption ==
  /\ MaxHits \in Nat /\ Limits \subseteq Nat \ {0} /\ Limits # {}
  /\ None \notin Conn \cup Server

VARIABLES
  hits,         \* per server: hits published
  apiBase,      \* state.apiBase
  limit,        \* els.hitLimit
  table,        \* state.hits: rows of a server and a number
  load,         \* calls of loadHits, those of connect() and others
  conn,         \* connections of streams
  eventSource,  \* state.eventSource, or None
  streamAbort,  \* state.streamAbort, or None
  timer,        \* the EventSource that streamReadyTimer is for, or None
  quiet         \* history: no load overlapped another or the stream since connect() began

refs == <<eventSource, streamAbort, timer>>
vars == <<hits, apiBase, limit, table, load, conn, refs, quiet>>

Row == [server : Server, n : 1..MaxHits]

\* A call that is over, and a connection that is closed.  `alone`: no other call was under
\* way with this one; `from`: hits published before the subscription; `whole`: it is the
\* first of the connection, and missed nothing.
NoLoad == [who |-> "none", stage |-> "sent", server |-> None, limit |-> 0,
           rows |-> <<>>, alone |-> FALSE]
Closed == [status |-> "closed", server |-> None, queue |-> <<>>, from |-> 0, whole |-> FALSE]

Busy == {k \in Load : load[k] # NoLoad}
Live == {c \in Conn : conn[c].status # "closed"}

Init ==
  /\ hits = [s \in Server |-> 0]
  /\ apiBase \in Server /\ limit \in Limits /\ table = <<>>
  /\ load = [k \in Load |-> NoLoad] /\ conn = [c \in Conn |-> Closed]
  /\ eventSource = None /\ streamAbort = None /\ timer = None /\ quiet = FALSE

-----------------------------------------------------------------------------
(* Streams                                                                 *)

\* closeStream.
CloseStream ==
  [c \in Conn |-> IF c \in {eventSource, streamAbort} THEN Closed ELSE conn[c]]

Connecting ==
  [status |-> "connecting", server |-> apiBase, queue |-> <<>>, from |-> 0, whole |-> TRUE]

\* Mutant: the stream there was is left alone.
OpenStreamKeepsOld(c) ==
  /\ conn[c] = Closed
  /\ conn' = [conn EXCEPT ![c] = Connecting]
  /\ eventSource' = c /\ timer' = c /\ UNCHANGED streamAbort

\* openStream, on some connection that is free.
OpenStream(c) ==
  /\ CloseStream[c] = Closed
  /\ conn' = [CloseStream EXCEPT ![c] = Connecting]
  /\ eventSource' = c /\ streamAbort' = None /\ timer' = c

\* The timer of openStream: an EventSource that is not open yet gives way to fetch.
Timeout(c) ==
  /\ timer # None
  /\ IF eventSource = timer /\ conn[timer].status # "open"
     THEN /\ conn[c] = Closed \/ c = timer
          /\ conn' = [conn EXCEPT ![timer] = Closed, ![c] = Connecting]
          /\ eventSource' = None /\ streamAbort' = c
     ELSE c = timer /\ UNCHANGED <<conn, eventSource, streamAbort>>
  /\ timer' = None
  /\ UNCHANGED <<hits, apiBase, limit, table, load, quiet>>

\* The server subscribes; the open event stops the timer.
Opened(c) ==
  /\ conn[c].status = "connecting"
  /\ conn' = [conn EXCEPT ![c].status = "open", ![c].from = hits[conn[c].server]]
  /\ timer' = IF timer = c THEN None ELSE timer
  /\ UNCHANGED <<hits, apiBase, limit, table, load, eventSource, streamAbort, quiet>>

\* A connection breaks or is refused: an EventSource connects again or is closed, a fetch
\* is over.
Broken(c) ==
  /\ c \in Live
  /\ \/ conn' = [conn EXCEPT ![c] = Closed]
     \/ c = eventSource
        /\ conn' = [conn EXCEPT ![c].status = "connecting", ![c].queue = <<>>, ![c].whole = FALSE]
  /\ UNCHANGED <<hits, apiBase, limit, table, load, refs, quiet>>

\* Mutant: a full table takes no more rows.
AppendHitFull(row) == IF Len(table) < limit THEN Append(table, row) ELSE table

\* Mutant: the table grows.
AppendHitUntrimmed(row) == Append(table, row)

\* appendHit: the table keeps its last rows.
AppendHit(row) ==
  LET rows == Append(table, row)
  IN  IF Len(rows) > limit THEN SubSeq(rows, Len(rows) - limit + 1, Len(rows)) ELSE rows

HitEvent(c) ==
  /\ conn[c].queue # <<>>
  /\ table' = AppendHit([server |-> conn[c].server, n |-> Head(conn[c].queue)])
  /\ conn' = [conn EXCEPT ![c].queue = Tail(@)]
  /\ UNCHANGED <<hits, apiBase, limit, load, refs, quiet>>

\* The server publishes a hit; a slow stream may miss it.
Publish(s) ==
  /\ hits[s] < MaxHits
  /\ hits' = [hits EXCEPT ![s] = @ + 1]
  /\ \E slow \in BOOLEAN :
       conn' = [c \in Conn |->
                  IF conn[c].status = "open" /\ conn[c].server = s
                  THEN IF slow THEN [conn[c] EXCEPT !.whole = FALSE]
                       ELSE [conn[c] EXCEPT !.queue = Append(@, hits[s] + 1)]
                  ELSE conn[c]]
  /\ UNCHANGED <<apiBase, limit, table, load, refs, quiet>>

-----------------------------------------------------------------------------
(* Loads                                                                   *)

Start(k, who, s, l) ==
  /\ load[k] = NoLoad
  /\ load' = [j \in Load |->
                IF j = k THEN [NoLoad EXCEPT !.who = who, !.server = s, !.limit = l, !.alone = Busy = {}]
                ELSE IF j \in Busy THEN [load[j] EXCEPT !.alone = FALSE] ELSE load[j]]

\* connect, up to its await.
Connect(k, s) ==
  /\ Start(k, "connect", s, limit)
  /\ apiBase' = s /\ quiet' = FALSE
  /\ conn' = CloseStream /\ eventSource' = None /\ streamAbort' = None /\ timer' = None
  /\ UNCHANGED <<hits, limit, table>>

\* Another number of rows, or the refresh button, loads them anew.
Reload(k, l) ==
  /\ limit' = l
  /\ Start(k, "limit", apiBase, l) /\ quiet' = FALSE
  /\ UNCHANGED <<hits, apiBase, table, conn, refs>>

\* The server answers with its last hits.
Answer(k) ==
  /\ load[k] # NoLoad /\ load[k].stage = "sent"
  /\ LET s == load[k].server
         n == IF hits[s] < load[k].limit THEN hits[s] ELSE load[k].limit
     IN  load' = [load EXCEPT ![k].stage = "answered",
                              ![k].rows = [i \in 1..n |-> [server |-> s, n |-> hits[s] - n + i]]]
  /\ UNCHANGED <<hits, apiBase, limit, table, conn, refs, quiet>>

\* The rest of loadHits.  connect() goes on to wait for its other requests.
Loaded(k) ==
  /\ load[k].stage = "answered"
  /\ table' = load[k].rows
  /\ load' = [load EXCEPT ![k] = IF @.who = "connect" THEN [@ EXCEPT !.stage = "loaded", !.rows = <<>>]
                                 ELSE NoLoad]
  /\ UNCHANGED <<hits, apiBase, limit, conn, refs, quiet>>

\* The rest of connect, once all its requests are answered.
Refreshed(k, c) ==
  /\ load[k].stage = "loaded"
  /\ OpenStream(c)
  /\ load' = [load EXCEPT ![k] = NoLoad] /\ quiet' = load[k].alone
  /\ UNCHANGED <<hits, apiBase, limit, table>>

\* A request fails: loadHits, or another of connect()'s.  Then connect() is over, and its
\* loadHits goes on without it.
Failed(k) ==
  /\ load[k] # NoLoad
  /\ \/ load' = [load EXCEPT ![k] = NoLoad]
     \/ load[k].who = "connect" /\ load[k].stage # "loaded"
        /\ load' = [load EXCEPT ![k].who = "limit"]
  /\ UNCHANGED <<hits, apiBase, limit, table, conn, refs, quiet>>

Clear ==
  /\ table # <<>> /\ table' = <<>>
  /\ UNCHANGED <<hits, apiBase, limit, load, conn, refs, quiet>>

Next ==
  \/ \E s \in Server : Publish(s)
  \/ \E c \in Conn : Timeout(c) \/ Opened(c) \/ Broken(c) \/ HitEvent(c)
  \/ \E k \in Load :
       \/ \E s \in Server : Connect(k, s)
       \/ \E l \in Limits : Reload(k, l)
       \/ Answer(k) \/ Loaded(k) \/ Failed(k)
       \/ \E c \in Conn : Refreshed(k, c)
  \/ Clear

Spec == Init /\ [][Next]_vars

-----------------------------------------------------------------------------
\* At most one stream feeds the table, it is the one closeStream would close, and it comes
\* from the server the page shows as its own: however connects, failures and the timer
\* overlap (app.js:116-131, 202-262).
OneLiveStream ==
  \A c \in Live :
    /\ Live = {c} /\ c \in {eventSource, streamAbort}
    /\ conn[c].server = apiBase

\* The rows shown and those on their way to the table.
Coming(c) ==
  table \o [i \in 1..Len(conn[c].queue) |-> [server |-> conn[c].server, n |-> conn[c].queue[i]]]

\* Nothing is shown twice, out of order or of another server, and no more than the rows
\* asked for, as long as no load overlapped another one or the stream
\* (app.js:116-131, 144-148, 312-317).
TableInOrder ==
  quiet => \A c \in Live :
    LET rows == Coming(c)
    IN  /\ \A i \in 1..Len(rows) : rows[i].server = apiBase
        /\ \A i, j \in 1..Len(rows) : i < j => rows[i].n < rows[j].n
        /\ Len(table) <= limit

\* Then, on a stream that was never slow and never connected again, hits are missing in one
\* place only, between the list connect() loaded and the subscription of the stream; what is
\* published later is shown or on its way.  A slow stream, or one that the browser connects
\* again, leaves further gaps (app.js:123-124, server.rs:361-371).
OnlyOneGap ==
  quiet => \A c \in Conn : conn[c].status = "open" /\ conn[c].whole =>
    LET rows == Coming(c)
        from == conn[c].from
    IN  /\ \A i \in 2..Len(rows) : rows[i].n # rows[i - 1].n + 1 =>
             rows[i - 1].n < from /\ rows[i].n = from + 1
        /\ hits[apiBase] > from /\ rows # <<>> => rows[Len(rows)].n = hits[apiBase]
=============================================================================

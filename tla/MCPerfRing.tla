----------------------------- MODULE MCPerfRing -----------------------------
(* PerfMap::events twice: by itself, against the kernel's ring (PerfRing),  *)
(* and as several tasks on a pool of workers (Runtime).  A behaviour is one *)
(* of the two; the other stays at rest, where it has nothing to do.         *)
(*                                                                          *)
(* A ring of eight cells takes two samples.  The third wraps around its     *)
(* end, or finds no room while the reader lags and is reported lost with    *)
(* the fourth; a batch of two is shorter than what may be unread.  Two      *)
(* workers and two threads, of which none, one or both exit; two hits of a  *)
(* thread are a full batch, three more than one.                            *)
EXTENDS RingTask

CONSTANTS Tid, Workers, MaxHits

VARIABLES
  part,   \* "ring" or "pool"
  dead, hits, ring, edge, hup, task, timer, request   \* of Runtime

poolVars == <<dead, hits, ring, edge, hup, task, timer, request>>

Pool == INSTANCE Runtime

RingAtRest ==
  /\ cells = [i \in 0..Size - 1 |-> Blank]
  /\ head = 0 /\ tail = 0 /\ khead = 0 /\ kpc = "idle"
  /\ lost = 0 /\ raised = 0 /\ emitted = <<>> /\ exited = FALSE
  /\ poll = FALSE /\ ready = FALSE /\ closed = FALSE /\ fresh = FALSE
  /\ pc = "parked" /\ rd = 0 /\ processed = 0 /\ seenHead = 0
  /\ rec = Blank /\ delivered = <<>> /\ logged = <<>>

PoolAtRest ==
  /\ dead = {} /\ edge = {} /\ hup = {}
  /\ hits = [t \in Tid |-> 0] /\ ring = [t \in Tid |-> 0]
  /\ task = [t \in Tid |-> "waiting"]
  /\ timer = "fired" /\ request = "answered"

EventsInit ==
  \/ part = "ring" /\ Init /\ PoolAtRest
  \/ part = "pool" /\ Pool!Init /\ RingAtRest

EventsNext ==
  \/ part = "ring" /\ Next /\ UNCHANGED <<part, poolVars>>
  \/ part = "pool" /\ Pool!Next /\ UNCHANGED <<part, vars>>

\* The fairness of both: what is at rest is not enabled.
EventsSpec ==
  /\ EventsInit /\ [][EventsNext]_<<part, vars, poolVars>>
  /\ WF_vars(Publish) /\ WF_vars(Wake) /\ WF_vars(Driver) /\ WF_vars(Reader)
  /\ Pool!Fairness

\* With a worker to spare, the timer fires, a request is answered and every sample is read,
\* although the task of each thread that exited keeps a worker (perf.rs:110-147,
\* main.rs:167-172).
SpareWorkerServesAll == Pool!SpareWorkerServesAll
=============================================================================

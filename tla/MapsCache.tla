----------------------------- MODULE MapsCache -----------------------------
(***************************************************************************)
(* The per-process cache of /proc/<pid>/maps (maps.rs), shared by the hit  *)
(* worker, which resolves every register and frame of a hit, and by the    *)
(* request handlers.  regions_with looks under the lock, reads the file    *)
(* with the lock released and takes it again to store: other callers run   *)
(* in between, each with the instant it captured when it began.            *)
(*                                                                         *)
(* A snapshot of the maps is known by the time it was read.  Whether it    *)
(* holds the address a caller asks for is a free choice.                   *)
(***************************************************************************)
EXTENDS Integers

CONSTANTS
  Caller,    \* threads that use the cache
  Pid,       \* processes asked about
  TTL,       \* Duration::from_secs(1)
  MaxClock,  \* bound on time
  NoEntry    \* nothing cached for a process, no snapshot in hand

ASSUME CacheAssumption ==
  /\ TTL \in Nat \ {0}
  /\ MaxClock \in Nat
  /\ NoEntry \notin [loadedAt : Nat, readAt : Nat]

VARIABLES
  clock,   \* Instant::now()
  cache,   \* MapsCache::inner
  pc,      \* per caller: where it is
  op,      \* "list": list, resolve_module_offset; "resolve": resolve, resolve_many_addresses
  pid,     \* the process it asks about
  now,     \* the instant it captured
  force,   \* force_refresh of the regions_with call under way
  got,     \* the snapshot it has read, then the one it was given
  answer   \* what the call returned

callVars == <<pc, op, pid, now, force, got, answer>>
vars == <<clock, cache, callVars>>

Entry == [loadedAt : Nat, readAt : Nat]

Init ==
  /\ clock = 0
  /\ cache = [p \in Pid |-> NoEntry]
  /\ pc = [c \in Caller |-> "idle"]
  /\ op = [c \in Caller |-> "list"] /\ pid \in [Caller -> Pid]
  /\ now = [c \in Caller |-> 0]
  /\ force = [c \in Caller |-> FALSE]
  /\ got = [c \in Caller |-> NoEntry]
  /\ answer = [c \in Caller |-> "none"]

Goto(c, where) == pc' = [pc EXCEPT ![c] = where]

Tick ==
  /\ clock < MaxClock
  /\ clock' = clock + 1
  /\ UNCHANGED <<cache, callVars>>

\* now.duration_since(cached.loaded_at) >= 1s; it is zero for a later loaded_at.
Stale(e, at) == e = NoEntry \/ at - e.loadedAt >= TTL

\* A public call captures its instant once, for both its lookups.
Call(c, p, o) ==
  /\ pc[c] = "idle"
  /\ op' = [op EXCEPT ![c] = o]
  /\ pid' = [pid EXCEPT ![c] = p]
  /\ now' = [now EXCEPT ![c] = clock]
  /\ force' = [force EXCEPT ![c] = (o = "list")]
  /\ got' = [got EXCEPT ![c] = NoEntry]
  /\ answer' = [answer EXCEPT ![c] = "none"]
  /\ Goto(c, "lookup")
  /\ UNCHANGED <<clock, cache>>

-----------------------------------------------------------------------------
(* regions_with                                                            *)

\* The first critical section.
Lookup(c) ==
  /\ pc[c] = "lookup"
  /\ IF ~force[c] /\ ~Stale(cache[pid[c]], now[c])
     THEN got' = [got EXCEPT ![c] = cache[pid[c]]] /\ Goto(c, "search")
     ELSE UNCHANGED got /\ Goto(c, "read")
  /\ UNCHANGED <<clock, cache, op, pid, now, force, answer>>

\* read_maps without the lock.
ReadMaps(c) ==
  /\ pc[c] = "read"
  /\ got' = [got EXCEPT ![c] = [loadedAt |-> now[c], readAt |-> clock]]
  /\ Goto(c, "store")
  /\ UNCHANGED <<clock, cache, op, pid, now, force, answer>>

\* Mutant: the entry is dated when it is stored.
StoreDatedLate(c) ==
  /\ pc[c] = "store"
  /\ LET p == pid[c]
     IN  /\ cache' = IF force[c] \/ Stale(cache[p], now[c])
                     THEN [cache EXCEPT ![p] = [loadedAt |-> clock, readAt |-> got[c].readAt]]
                     ELSE cache
         /\ got' = [got EXCEPT ![c] = cache'[p]]
  /\ Goto(c, "search")
  /\ UNCHANGED <<clock, op, pid, now, force, answer>>

\* Mutant: an entry that is there is kept, also by a forced refresh.
StoreKeepsEntry(c) ==
  /\ pc[c] = "store"
  /\ LET p == pid[c]
     IN  /\ cache' = IF Stale(cache[p], now[c])
                     THEN [cache EXCEPT ![p] = got[c]] ELSE cache
         /\ got' = [got EXCEPT ![c] = cache'[p]]
  /\ Goto(c, "search")
  /\ UNCHANGED <<clock, op, pid, now, force, answer>>

\* The second critical section: a refresh that is not forced yields to one that was
\* faster; the caller gets what the cache holds then.
Store(c) ==
  /\ pc[c] = "store"
  /\ LET p == pid[c]
     IN  /\ cache' = IF force[c] \/ Stale(cache[p], now[c])
                     THEN [cache EXCEPT ![p] = got[c]] ELSE cache
         /\ got' = [got EXCEPT ![c] = cache'[p]]
  /\ Goto(c, "search")
  /\ UNCHANGED <<clock, op, pid, now, force, answer>>

-----------------------------------------------------------------------------
(* What the public calls make of it                                        *)

Return(c, a) == answer' = [answer EXCEPT ![c] = a] /\ Goto(c, "done")

\* A cached or duplicate lookup that does not find the address is tried again, forced.
Retry(c) ==
  /\ force' = [force EXCEPT ![c] = TRUE]
  /\ Goto(c, "lookup")
  /\ UNCHANGED answer

Found(c) ==
  /\ pc[c] = "search"
  /\ Return(c, "regions") /\ UNCHANGED force
  /\ UNCHANGED <<clock, cache, op, pid, now, got>>

\* Mutant: a miss in a fresh cache is believed.
NotFoundNoRetry(c) ==
  /\ pc[c] = "search" /\ op[c] = "resolve"
  /\ Return(c, "none") /\ UNCHANGED force
  /\ UNCHANGED <<clock, cache, op, pid, now, got>>

NotFound(c) ==
  /\ pc[c] = "search" /\ op[c] = "resolve"
  /\ IF force[c] THEN Return(c, "none") /\ UNCHANGED force ELSE Retry(c)
  /\ UNCHANGED <<clock, cache, op, pid, now, got>>

\* Mutant: `list`, too, has a second try, with what another caller may have cached.
ReadFailsListRetries(c) ==
  /\ pc[c] = "read"
  /\ IF force[c] = (op[c] = "list")
     THEN /\ force' = [force EXCEPT ![c] = ~@]
          /\ Goto(c, "lookup")
          /\ UNCHANGED answer
     ELSE Return(c, "unreadable") /\ UNCHANGED force
  /\ UNCHANGED <<clock, cache, op, pid, now, got>>

\* The maps cannot be read: `list` fails, `resolve` falls back on the other lookup and
\* then on no region.
ReadFails(c) ==
  /\ pc[c] = "read"
  /\ IF force[c]
     THEN Return(c, IF op[c] = "list" THEN "error" ELSE "unreadable") /\ UNCHANGED force
     ELSE Retry(c)
  /\ UNCHANGED <<clock, cache, op, pid, now, got>>

\* The caller goes on; its locals are gone.
Done(c) ==
  /\ pc[c] = "done"
  /\ Goto(c, "idle")
  /\ now' = [now EXCEPT ![c] = 0]
  /\ force' = [force EXCEPT ![c] = FALSE]
  /\ op' = [op EXCEPT ![c] = "list"]
  /\ got' = [got EXCEPT ![c] = NoEntry]
  /\ answer' = [answer EXCEPT ![c] = "none"]
  /\ UNCHANGED <<clock, cache, pid>>

Step(c) ==
  Lookup(c) \/ ReadMaps(c) \/ Store(c) \/ Found(c) \/ NotFound(c) \/ ReadFails(c) \/ Done(c)

Next ==
  \/ Tick
  \/ \E c \in Caller :
       Step(c) \/ \E p \in Pid, o \in {"list", "resolve"} : Call(c, p, o)

Spec == Init /\ [][Next]_vars /\ \A c \in Caller : WF_vars(Step(c))

-----------------------------------------------------------------------------
TypeOK ==
  /\ clock \in Nat
  /\ cache \in [Pid -> Entry \cup {NoEntry}]
  /\ pc \in [Caller -> {"idle", "lookup", "read", "store", "search", "done"}]
  /\ op \in [Caller -> {"list", "resolve"}]
  /\ pid \in [Caller -> Pid]
  /\ now \in [Caller -> Nat]
  /\ force \in [Caller -> BOOLEAN]
  /\ got \in [Caller -> Entry \cup {NoEntry}]
  /\ answer \in [Caller -> {"none", "regions", "error", "unreadable"}]

\* No entry claims to be younger than it is: it is dated before its maps were read,
\* however long the reader waited for the lock (maps.rs:183-201).
EntriesHonest ==
  \A p \in Pid : cache[p] # NoEntry =>
    cache[p].loadedAt <= cache[p].readAt /\ cache[p].readAt <= clock

\* What a caller holds: its instant has passed; between reading and storing it has maps
\* read since then, dated with that instant; afterwards some snapshot.
InHand ==
  \A c \in Caller :
    /\ now[c] <= clock
    /\ pc[c] = "store" =>
         /\ got[c] # NoEntry /\ got[c].loadedAt = now[c]
         /\ now[c] <= got[c].readAt /\ got[c].readAt <= clock
    /\ pc[c] = "search" => got[c] # NoEntry

\* Nobody is served maps read a second or more before the call began, and a caller that
\* forces a refresh is served maps read after the call began, whoever else refreshed in
\* between (maps.rs:159-210).
ServedFresh ==
  \A c \in Caller : pc[c] = "search" =>
    /\ got[c].readAt > now[c] - TTL
    /\ force[c] => got[c].readAt >= now[c]

\* "no such region" is never an answer of the cache: the maps were read during the call
\* and did not hold the address (maps.rs:65-71, 84-92).
MissIsFresh ==
  \A c \in Caller : pc[c] = "done" /\ answer[c] = "none" =>
    got[c] # NoEntry /\ got[c].readAt >= now[c]
=============================================================================

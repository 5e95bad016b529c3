-------------------------- MODULE MapsCacheProofs --------------------------
(***************************************************************************)
(* Proofs about MapsCache.tla for any number of callers and processes, any *)
(* TTL and however long the callers take.  The freshness of what a caller  *)
(* is served rests on EntriesHonest and on what a caller holds between the *)
(* two critical sections of regions_with (InHand).                         *)
(***************************************************************************)
EXTENDS MapsCalls, TLAPS

USE CacheAssumption DEF CacheAssumption

LEMMA InitInv == Init => TypeOK /\ EntriesHonest /\ InHand /\ ServedFresh /\ MissIsFresh
BY DEF Init, TypeOK, Entry, EntriesHonest, InHand, ServedFresh, MissIsFresh

LEMMA NextTypeOK == TypeOK /\ [Next]_vars => TypeOK'
<1> SUFFICES ASSUME TypeOK, [Next]_vars PROVE TypeOK'
  OBVIOUS
<1> USE DEF TypeOK, Entry, Goto, Return, Retry
<1>1. CASE Tick
  BY <1>1 DEF Tick, callVars
<1>2. ASSUME NEW c \in Caller, NEW p \in Pid, NEW o \in {"list", "resolve"}, Call(c, p, o)
      PROVE TypeOK'
  BY <1>2 DEF Call
<1>3. ASSUME NEW c \in Caller, Lookup(c) PROVE TypeOK'
  BY <1>3 DEF Lookup
<1>4. ASSUME NEW c \in Caller, ReadMaps(c) PROVE TypeOK'
  BY <1>4 DEF ReadMaps
<1>5. ASSUME NEW c \in Caller, Store(c) PROVE TypeOK'
  <2>1. cache' \in [Pid -> Entry \cup {NoEntry}]
    BY <1>5 DEF Store
  <2>2. got' = [got EXCEPT ![c] = cache'[pid[c]]] /\ pid[c] \in Pid
    BY <1>5 DEF Store
  <2>3. got' \in [Caller -> Entry \cup {NoEntry}]
    BY <2>1, <2>2
  <2> QED
    BY <1>5, <2>1, <2>3 DEF Store
<1>6. ASSUME NEW c \in Caller, Found(c) PROVE TypeOK'
  BY <1>6 DEF Found
<1>7. ASSUME NEW c \in Caller, NotFound(c) PROVE TypeOK'
  BY <1>7 DEF NotFound
<1>8. ASSUME NEW c \in Caller, ReadFails(c) PROVE TypeOK'
  BY <1>8 DEF ReadFails
<1>9. ASSUME NEW c \in Caller, Done(c) PROVE TypeOK'
  BY <1>9 DEF Done
<1>10. CASE UNCHANGED vars
  BY <1>10 DEF vars, callVars
<1> QED
  BY <1>1, <1>2, <1>3, <1>4, <1>5, <1>6, <1>7, <1>8, <1>9, <1>10 DEF Next, Step

-----------------------------------------------------------------------------
(* The invariant the properties follow from                                *)

Inv == TypeOK /\ EntriesHonest /\ InHand /\ ServedFresh /\ MissIsFresh

(* An entry that is not stale was read less than a TTL before the caller's instant. *)
LEMMA NotStaleIsFresh ==
  ASSUME NEW e \in Entry, NEW at \in Nat, ~Stale(e, at), e.loadedAt <= e.readAt
  PROVE  e.readAt > at - TTL
BY DEF Stale, Entry

LEMMA NextInv == Inv /\ [Next]_vars => Inv'
<1> SUFFICES ASSUME Inv, [Next]_vars PROVE Inv'
  OBVIOUS
<1>0. TypeOK'
  BY NextTypeOK DEF Inv
<1>a. TypeOK /\ EntriesHonest /\ InHand /\ ServedFresh /\ MissIsFresh
  BY DEF Inv
<1> SUFFICES EntriesHonest' /\ InHand' /\ ServedFresh' /\ MissIsFresh'
  BY <1>0 DEF Inv
<1> USE DEF Goto, Return, Retry, Entry
<1>1. CASE Tick
  BY <1>1, <1>a DEF Tick, callVars, TypeOK, EntriesHonest, InHand, ServedFresh, MissIsFresh
<1>2. ASSUME NEW c \in Caller, NEW p \in Pid, NEW o \in {"list", "resolve"}, Call(c, p, o)
      PROVE  EntriesHonest' /\ InHand' /\ ServedFresh' /\ MissIsFresh'
  BY <1>2, <1>a DEF Call, TypeOK, EntriesHonest, InHand, ServedFresh, MissIsFresh
<1>3. ASSUME NEW c \in Caller, Lookup(c)
      PROVE  EntriesHonest' /\ InHand' /\ ServedFresh' /\ MissIsFresh'
  <2> DEFINE e == cache[pid[c]]
  <2>1. ~Stale(e, now[c]) => e \in Entry /\ e.readAt > now[c] - TTL
    <3>1. e \in Entry \cup {NoEntry} /\ now[c] \in Nat /\ pid[c] \in Pid
      BY <1>a DEF TypeOK
    <3>2. ~Stale(e, now[c]) => e # NoEntry
      BY DEF Stale
    <3>3. e # NoEntry => e.loadedAt <= e.readAt
      BY <1>a, <3>1 DEF EntriesHonest
    <3> QED
      BY <3>1, <3>2, <3>3, NotStaleIsFresh
  <2>2. CASE ~force[c] /\ ~Stale(e, now[c])
    BY <1>3, <1>a, <2>1, <2>2
    DEF Lookup, TypeOK, EntriesHonest, InHand, ServedFresh, MissIsFresh
  <2>3. CASE ~(~force[c] /\ ~Stale(e, now[c]))
    BY <1>3, <1>a, <2>3
    DEF Lookup, TypeOK, EntriesHonest, InHand, ServedFresh, MissIsFresh
  <2> QED
    BY <2>2, <2>3
<1>4. ASSUME NEW c \in Caller, ReadMaps(c)
      PROVE  EntriesHonest' /\ InHand' /\ ServedFresh' /\ MissIsFresh'
  BY <1>4, <1>a DEF ReadMaps, TypeOK, EntriesHonest, InHand, ServedFresh, MissIsFresh
<1>5. ASSUME NEW c \in Caller, Store(c)
      PROVE  EntriesHonest' /\ InHand' /\ ServedFresh' /\ MissIsFresh'
  <2> DEFINE p == pid[c]
             e == cache[p]
  <2>1. /\ p \in Pid /\ now[c] \in Nat /\ clock \in Nat /\ e \in Entry \cup {NoEntry}
        /\ got[c] \in Entry /\ got[c].loadedAt = now[c]
        /\ now[c] <= got[c].readAt /\ got[c].readAt <= clock
    BY <1>5, <1>a DEF Store, TypeOK, InHand
  <2>2. got[c] # NoEntry
    BY <2>1
  <2>3. CASE force[c] \/ Stale(e, now[c])
    <3>1. cache' = [cache EXCEPT ![p] = got[c]] /\ got' = [got EXCEPT ![c] = got[c]]
      BY <1>5, <1>a, <2>1, <2>3 DEF Store, TypeOK
    <3>2. got[c].readAt > now[c] - TTL
      BY <2>1
    <3> QED
      BY <1>5, <1>a, <2>1, <3>1, <3>2
      DEF Store, TypeOK, EntriesHonest, InHand, ServedFresh, MissIsFresh
  <2>4. CASE ~force[c] /\ ~Stale(e, now[c])
    <3>1. cache' = cache /\ got' = [got EXCEPT ![c] = e]
      BY <1>5, <2>4 DEF Store
    <3>2. e \in Entry
      BY <2>1, <2>4 DEF Stale
    <3>3. e.readAt > now[c] - TTL
      BY <1>a, <2>1, <2>4, <3>2, NotStaleIsFresh DEF EntriesHonest
    <3> QED
      BY <1>5, <1>a, <2>1, <2>4, <3>1, <3>2, <3>3
      DEF Store, TypeOK, EntriesHonest, InHand, ServedFresh, MissIsFresh
  <2> QED
    BY <2>3, <2>4
<1>6. ASSUME NEW c \in Caller, Found(c)
      PROVE  EntriesHonest' /\ InHand' /\ ServedFresh' /\ MissIsFresh'
  BY <1>6, <1>a DEF Found, TypeOK, EntriesHonest, InHand, ServedFresh, MissIsFresh
<1>7. ASSUME NEW c \in Caller, NotFound(c)
      PROVE  EntriesHonest' /\ InHand' /\ ServedFresh' /\ MissIsFresh'
  <2>1. force[c] => got[c] # NoEntry /\ got[c].readAt >= now[c]
    BY <1>7, <1>a DEF NotFound, ServedFresh, InHand
  <2> QED
    BY <1>7, <1>a, <2>1 DEF NotFound, TypeOK, EntriesHonest, InHand, ServedFresh, MissIsFresh
<1>8. ASSUME NEW c \in Caller, ReadFails(c)
      PROVE  EntriesHonest' /\ InHand' /\ ServedFresh' /\ MissIsFresh'
  BY <1>8, <1>a DEF ReadFails, TypeOK, EntriesHonest, InHand, ServedFresh, MissIsFresh
<1>9. ASSUME NEW c \in Caller, Done(c)
      PROVE  EntriesHonest' /\ InHand' /\ ServedFresh' /\ MissIsFresh'
  BY <1>9, <1>a DEF Done, TypeOK, EntriesHonest, InHand, ServedFresh, MissIsFresh
<1>10. CASE UNCHANGED vars
  BY <1>10, <1>a DEF vars, callVars, TypeOK, EntriesHonest, InHand, ServedFresh, MissIsFresh
<1> QED
  BY <1>1, <1>2, <1>3, <1>4, <1>5, <1>6, <1>7, <1>8, <1>9, <1>10 DEF Next, Step

\* Nobody holds maps from the future.
GotIsPast == \A c \in Caller : got[c] # NoEntry => got[c].readAt <= clock

LEMMA InitGotIsPast == Init => GotIsPast
BY DEF Init, GotIsPast

LEMMA NextGotIsPast == Inv /\ GotIsPast /\ [Next]_vars => GotIsPast'
<1> SUFFICES ASSUME Inv, GotIsPast, [Next]_vars PROVE GotIsPast'
  OBVIOUS
<1> USE DEF Inv, TypeOK, Entry, GotIsPast
<1>1. CASE Tick
  BY <1>1 DEF Tick, callVars
<1>2. ASSUME NEW c \in Caller, NEW p \in Pid, NEW o \in {"list", "resolve"}, Call(c, p, o)
      PROVE GotIsPast'
  BY <1>2 DEF Call
<1>3. ASSUME NEW c \in Caller, Lookup(c) PROVE GotIsPast'
  BY <1>3 DEF Lookup, EntriesHonest, Stale
<1>4. ASSUME NEW c \in Caller, ReadMaps(c) PROVE GotIsPast'
  BY <1>4 DEF ReadMaps
<1>5. ASSUME NEW c \in Caller, Store(c) PROVE GotIsPast'
  <2>1. cache'[pid[c]] = got[c] \/ cache'[pid[c]] = cache[pid[c]]
    BY <1>5 DEF Store
  <2>2. got' = [got EXCEPT ![c] = cache'[pid[c]]] /\ clock' = clock
    BY <1>5 DEF Store
  <2> QED
    BY <2>1, <2>2 DEF EntriesHonest
<1>6. ASSUME NEW c \in Caller, Found(c) \/ NotFound(c) \/ ReadFails(c) PROVE GotIsPast'
  BY <1>6 DEF Found, NotFound, ReadFails
<1>7. ASSUME NEW c \in Caller, Done(c) PROVE GotIsPast'
  BY <1>7 DEF Done
<1>8. CASE UNCHANGED vars
  BY <1>8 DEF vars, callVars
<1> QED
  BY <1>1, <1>2, <1>3, <1>4, <1>5, <1>6, <1>7, <1>8 DEF Next, Step

LEMMA Invariant == Spec => []Inv
<1>1. Init => Inv
  BY InitInv DEF Inv
<1> QED
  BY <1>1, NextInv, PTL DEF Spec

(* No entry is ever dated later than its maps were read. *)
THEOREM EntriesAlwaysHonest == Spec => []EntriesHonest
BY Invariant, PTL DEF Inv

(* Nobody is ever served maps older than the TTL, nor, when forcing a refresh, maps read
   before the call. *)
THEOREM FreshnessForAll == Spec => []ServedFresh
BY Invariant, PTL DEF Inv

(* "No such region" is always the answer of maps read during the call. *)
THEOREM MissesAreFresh == Spec => []MissIsFresh
BY Invariant, PTL DEF Inv

-----------------------------------------------------------------------------
(* How often a call reads the file                                         *)

\* A lookup that is not forced comes first; the listing calls force their only one.
CallPaysOnce ==
  \A c \in Caller :
    /\ pc[c] \in {"lookup", "read"} =>
         reads[c] = 0 \/ (force[c] /\ op[c] = "resolve" /\ reads[c] <= 1)
    /\ pc[c] \in {"store", "search"} =>
         reads[c] <= IF force[c] /\ op[c] = "resolve" THEN 2 ELSE 1
    /\ pc[c] = "idle" => reads[c] = 0
    /\ pc[c] # "idle" /\ op[c] = "list" => force[c]

CallInv == CountedTypeOK /\ CallPaysOnce /\ ReadsBounded

LEMMA InitCallInv == CountedInit => CallInv
BY InitInv DEF CountedInit, CallInv, CountedTypeOK, CallPaysOnce, ReadsBounded, Bounded, Init

\* The count goes up with the caller's own reads and with nothing else.
LEMMA CountOf ==
  ASSUME NEW c \in Caller, CountedTypeOK, Count
  PROVE  reads'[c] = IF pc'[c] = "idle" THEN 0
                     ELSE IF HasRead(c) THEN reads[c] + 1 ELSE reads[c]
BY DEF CountedTypeOK, Count

LEMMA NextCallInv == CallInv /\ [CountedNext]_countedVars => CallInv'
<1> SUFFICES ASSUME CallInv, [CountedNext]_countedVars PROVE CallInv'
  OBVIOUS
<1>0. TypeOK /\ CountedTypeOK /\ CallPaysOnce /\ ReadsBounded
  BY DEF CallInv, CountedTypeOK
<1>1. CASE UNCHANGED countedVars
  BY <1>0, <1>1 DEF countedVars, vars, callVars, CallInv, CountedTypeOK, TypeOK, CallPaysOnce, ReadsBounded, Bounded
<1>2. CASE Next /\ Count
  <2>1. TypeOK'
    BY <1>0, <1>2, NextTypeOK
  <2>2. CountedTypeOK'
    <3>1. \A c \in Caller : reads[c] \in Nat
      BY <1>0 DEF CountedTypeOK
    <3> QED
      BY <1>2, <2>1, <3>1 DEF Count, CountedTypeOK
  <2> DEFINE Good(c) ==
        /\ pc[c] \in {"lookup", "read"} =>
             reads[c] = 0 \/ (force[c] /\ op[c] = "resolve" /\ reads[c] <= 1)
        /\ pc[c] \in {"store", "search"} =>
             reads[c] <= IF force[c] /\ op[c] = "resolve" THEN 2 ELSE 1
        /\ pc[c] = "idle" => reads[c] = 0
        /\ pc[c] # "idle" /\ op[c] = "list" => force[c]
        /\ reads[c] <= IF op[c] = "list" THEN 1 ELSE 2
  <2>3. ASSUME NEW c \in Caller PROVE Good(c)'
    <3>1. Good(c) /\ reads[c] \in Nat
      BY <1>0 DEF CallPaysOnce, ReadsBounded, Bounded, CountedTypeOK
    <3>2. reads'[c] = IF pc'[c] = "idle" THEN 0
                      ELSE IF pc[c] = "read" /\ pc'[c] # "read" THEN reads[c] + 1 ELSE reads[c]
      BY <1>0, <1>2, CountOf DEF HasRead
    <3>3. /\ pc \in [Caller -> {"idle", "lookup", "read", "store", "search", "done"}]
          /\ op \in [Caller -> {"list", "resolve"}] /\ force \in [Caller -> BOOLEAN]
      BY <1>0 DEF TypeOK
    <3> USE DEF Goto, Return, Retry
    <3>4. CASE Tick
      BY <3>1, <3>2, <3>4 DEF Tick, callVars
    <3>5. ASSUME NEW d \in Caller, NEW p \in Pid, NEW o \in {"list", "resolve"}, Call(d, p, o)
          PROVE  Good(c)'
      <4>1. CASE c = d
        <5>1. pc[c] = "idle" /\ pc'[c] = "lookup" /\ op'[c] = o /\ (o = "list" => force'[c])
          BY <3>3, <3>5, <4>1 DEF Call
        <5>2. reads'[c] = 0
          BY <3>1, <3>2, <5>1
        <5> QED
          BY <5>1, <5>2
      <4>2. CASE c # d
        BY <3>1, <3>2, <3>3, <3>5, <4>2 DEF Call
      <4> QED
        BY <4>1, <4>2
    <3>6. ASSUME NEW d \in Caller, Lookup(d) PROVE Good(c)'
      BY <3>1, <3>2, <3>3, <3>6 DEF Lookup
    <3>7. ASSUME NEW d \in Caller, ReadMaps(d) PROVE Good(c)'
      BY <3>1, <3>2, <3>3, <3>7 DEF ReadMaps
    <3>8. ASSUME NEW d \in Caller, Store(d) PROVE Good(c)'
      BY <3>1, <3>2, <3>3, <3>8 DEF Store
    <3>9. ASSUME NEW d \in Caller, Found(d) \/ NotFound(d) PROVE Good(c)'
      BY <3>1, <3>2, <3>3, <3>9 DEF Found, NotFound
    <3>10. ASSUME NEW d \in Caller, ReadFails(d) PROVE Good(c)'
      BY <3>1, <3>2, <3>3, <3>10 DEF ReadFails
    <3>11. ASSUME NEW d \in Caller, Done(d) PROVE Good(c)'
      BY <3>1, <3>2, <3>3, <3>11 DEF Done
    <3> QED
      BY <1>2, <3>4, <3>5, <3>6, <3>7, <3>8, <3>9, <3>10, <3>11 DEF Next, Step
  <2>4. CallPaysOnce' /\ ReadsBounded'
    BY <2>3 DEF CallPaysOnce, ReadsBounded, Bounded
  <2> QED
    BY <2>2, <2>4 DEF CallInv
<1> QED
  BY <1>1, <1>2 DEF CountedNext

(* A call to the cache reads the file once if it lists, twice if it resolves, whatever
   the others do, and whatever goes stale, is missing or cannot be read. *)
THEOREM CallsReadTwiceAtMost == CountedSpec => []ReadsBounded
<1>1. CountedSpec => []CallInv
  BY InitCallInv, NextCallInv, PTL DEF CountedSpec
<1> QED
  BY <1>1, PTL DEF CallInv
=============================================================================

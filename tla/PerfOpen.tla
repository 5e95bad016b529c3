------------------------------ MODULE PerfOpen ------------------------------
(***************************************************************************)
(* Setting a perf event up and taking it down (PerfMap::new and its Drop,  *)
(* perf.rs), by callers that share the debug registers of a thread.        *)
(*                                                                         *)
(* The length of the mapping is computed in a usize.  A build with overflow*)
(* checks (debug) panics where the arithmetic leaves that type; a build    *)
(* without (release) takes the shift amount modulo the width and wraps.    *)
(*                                                                         *)
(* External and assumed (perf_event_open(2), kernel/events): the event is  *)
(* armed from perf_event_open on, holds one debug register and lives while *)
(* its descriptor is open or its ring is mapped; the data pages must be a  *)
(* power of two or none, and with none the event records nothing, not even *)
(* that it lost a sample.  Any of the system calls may fail.               *)
(***************************************************************************)
EXTENDS Integers, FiniteSets

CONSTANTS
  Call,      \* calls of PerfMap::new on one thread, and the PerfMaps they return
  Slots,     \* debug registers of that thread
  WordBits,  \* width of usize
  PageBits,  \* a page is 2^PageBits bytes
  BufSizes   \* the values of --buf-size, or of a request's buf_size, looked at

ASSUME OpenAssumption ==
  /\ Slots \in Nat
  /\ PageBits \in Nat /\ WordBits \in Nat /\ PageBits < WordBits
  /\ BufSizes \subseteq Nat

\* 1 << n: two to the n.
Pow2[n \in Nat] == IF n = 0 THEN 1 ELSE 2 * Pow2[n - 1]

VARIABLES
  build,    \* "debug" or "release"
  buf,      \* per call: its buf_size
  setup,    \* per call: where it is
  fd,       \* calls whose perf descriptor is open
  mapped    \* per call: the length of its mapping in pages, 0 if it has none

openVars == <<build, buf, setup, fd, mapped>>

OpenInit ==
  /\ build \in {"debug", "release"}
  /\ buf \in [Call -> BufSizes]
  /\ setup = [c \in Call |-> "idle"]
  /\ fd = {}
  /\ mapped = [c \in Call |-> 0]

Enter(c, where) == setup' = [setup EXCEPT ![c] = where]

\* The event exists: it watches, and occupies a debug register.
Armed == fd \cup {c \in Call : mapped[c] > 0}

-----------------------------------------------------------------------------
(* PerfMap::new                                                            *)

\* perf_event_open; the descriptor is owned from here on.
Open(c) ==
  /\ setup[c] = "idle"
  /\ \/ Cardinality(Armed) < Slots /\ fd' = fd \cup {c} /\ Enter(c, "opened")
     \/ UNCHANGED fd /\ Enter(c, "failed")
  /\ UNCHANGED <<build, buf, mapped>>

\* Mutant: no page for the ring's header.
MmapLenNoHeader(b) == (Pow2[b % WordBits] * Pow2[PageBits]) % Pow2[WordBits]

\* mmap_len, as the release build computes it.
MmapLen(b) == ((1 + Pow2[b % WordBits]) * Pow2[PageBits]) % Pow2[WordBits]

\* Where the debug build panics: the shift, or the product.
Overflows(b) == b >= WordBits \/ (1 + Pow2[b]) * Pow2[PageBits] >= Pow2[WordBits]

\* The panic unwinds through OwnedFd, which closes the descriptor.
Panic(c) ==
  /\ setup[c] = "opened" /\ build = "debug" /\ Overflows(buf[c])
  /\ fd' = fd \ {c} /\ Enter(c, "failed")
  /\ UNCHANGED <<build, buf, mapped>>

\* perf_mmap takes a header page alone, or one and a power of two of data pages.
Mappable(pages) ==
  pages \in Nat /\ (pages = 1 \/ \E k \in 0..WordBits : pages = 1 + Pow2[k])

\* mmap; an error closes the descriptor.
Map(c) ==
  LET pages == MmapLen(buf[c]) \div Pow2[PageBits]
  IN  /\ setup[c] = "opened" /\ (build = "release" \/ ~Overflows(buf[c]))
      /\ \/ Mappable(pages) /\ mapped' = [mapped EXCEPT ![c] = pages]
            /\ UNCHANGED fd /\ Enter(c, "mapped")
         \/ UNCHANGED mapped /\ fd' = fd \ {c} /\ Enter(c, "failed")
      /\ UNCHANGED <<build, buf>>

\* compat_version and AsyncFd::new; an error of either closes the descriptor, and
\* leaves the mapping, for there is no PerfMap yet whose Drop would take it down.
Register(c) ==
  /\ setup[c] = "mapped"
  /\ \/ UNCHANGED fd /\ Enter(c, "open")
     \/ fd' = fd \ {c} /\ Enter(c, "failed")
  /\ UNCHANGED <<build, buf, mapped>>

-----------------------------------------------------------------------------
(* Drop                                                                    *)

\* Mutant: the mapping is left to the descriptor's closing.
UnmapForgotten(c) ==
  /\ setup[c] = "open" /\ Enter(c, "unmapped")
  /\ UNCHANGED <<build, buf, fd, mapped>>

\* PerfMap::drop ...
Unmap(c) ==
  /\ setup[c] = "open" /\ Enter(c, "unmapped")
  /\ mapped' = [mapped EXCEPT ![c] = 0]
  /\ UNCHANGED <<build, buf, fd>>

\* ... and then that of its fields.
Close(c) ==
  /\ setup[c] = "unmapped" /\ Enter(c, "dropped")
  /\ fd' = fd \ {c}
  /\ UNCHANGED <<build, buf, mapped>>

Step(c) ==
  Open(c) \/ Panic(c) \/ Map(c) \/ Register(c) \/ Unmap(c) \/ Close(c)

OpenNext == \E c \in Call : Step(c)

OpenSpec == OpenInit /\ [][OpenNext]_openVars

-----------------------------------------------------------------------------
OpenTypeOK ==
  /\ build \in {"debug", "release"} /\ buf \in [Call -> BufSizes]
  /\ setup \in [Call -> {"idle", "opened", "mapped", "open", "unmapped", "dropped", "failed"}]
  /\ fd \subseteq Call /\ mapped \in [Call -> Nat]

\* A buf_size whose ring fits the address space.
Fits(b) == b + PageBits < WordBits

\* The ring is as large as asked, in both builds, for every size that fits, so that a
\* watch that was installed has a place for its hits; a debug build opens no other
\* (perf.rs:73-84).
RingAsAsked ==
  \A c \in Call : setup[c] = "open" /\ (Fits(buf[c]) \/ build = "debug") =>
    Fits(buf[c]) /\ mapped[c] = 1 + Pow2[buf[c]]

\* A debug register that a call took is free again once the call has failed or its
\* PerfMap is dropped, whatever the other callers do; the one exception is a failure
\* after mmap, where the mapping alone holds it (perf.rs:60-98, 190-199).
RegistersComeBack ==
  \A c \in Call :
    /\ setup[c] = "dropped" => c \notin Armed
    /\ setup[c] = "failed" => c \notin fd
    /\ c \in Armed =>
         setup[c] \in {"opened", "mapped", "open", "unmapped"} \/ (setup[c] = "failed" /\ mapped[c] > 0)
=============================================================================

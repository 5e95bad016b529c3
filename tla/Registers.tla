----------------------------- MODULE Registers -----------------------------
(***************************************************************************)
(* The registers of a sample: which the kernel is asked for (arch/), under *)
(* which index and name the program knows them, what a predicate of a      *)
(* filter compares (filter.rs) and what a hit shows (hit.rs).              *)
(*                                                                         *)
(* External: the kernel dumps the registers of the mask in the order of    *)
(* their bits (asm/perf_regs.h), or says that the task has no user         *)
(* registers (abi 0), and then there is no hit.  The case of a register's  *)
(* name does not matter to the code and is left out.                       *)
(***************************************************************************)
EXTENDS Integers, Sequences, FiniteSets

CONSTANTS MaxWord   \* a register holds 0..MaxWord

Arch == {"x86_64", "aarch64"}
RegWord == 0..MaxWord

\* id_to_str, from index 0.
Table == [a \in Arch |->
  CASE a = "x86_64" ->
         <<"ax", "bx", "cx", "dx", "si", "di", "bp", "sp", "ip", "flags", "cs", "ss",
           "r8", "r9", "r10", "r11", "r12", "r13", "r14", "r15">>
    [] a = "aarch64" ->
         <<"x0", "x1", "x2", "x3", "x4", "x5", "x6", "x7", "x8", "x9", "x10", "x11",
           "x12", "x13", "x14", "x15", "x16", "x17", "x18", "x19", "x20", "x21", "x22",
           "x23", "x24", "x25", "x26", "x27", "x28", "fp", "lr", "sp", "pc">>]

IdToStr(a, i) == IF i < Len(Table[a]) THEN Table[a][i + 1] ELSE "unknown"

\* SAMPLE_REGS_USER, as the set of its bits; regs_count is their number.
SampleRegsUser(a) == IF a = "x86_64" THEN (0..11) \cup (16..23) ELSE 0..32
RegsCount(a) == Cardinality(SampleRegsUser(a))

\* The kernel's numbering; it calls aarch64's frame pointer x29.
KernelRegs == [a \in Arch |->
  CASE a = "x86_64" ->
         <<"ax", "bx", "cx", "dx", "si", "di", "bp", "sp", "ip", "flags", "cs", "ss",
           "ds", "es", "fs", "gs", "r8", "r9", "r10", "r11", "r12", "r13", "r14", "r15">>
    [] a = "aarch64" ->
         [Table[a] EXCEPT ![30] = "x29"]]
KernelName(name) == IF name = "fp" THEN "x29" ELSE name

Compare == {"==", "!=", ">", ">=", "<", "<="}
NoMask == -1

VARIABLES
  arch,     \* the build
  asked,    \* the predicate of the filter, with the register's name as written
  cpu,      \* the thread's registers when it hits the watchpoint
  pc,       \* "running", "sampled", "skipped", "matched", "done"
  regs,     \* SampleData::regs
  verdict,  \* RegFilter::matches
  shown     \* Hit::regs

registerVars == <<arch, asked, cpu, pc, regs, verdict, shown>>

\* One register, the one asked for, may differ from the others.
RegInit ==
  /\ arch \in Arch
  /\ \E i \in 0..RegsCount(arch) - 1 :
       asked \in [name : {IdToStr(arch, i)}, mask : RegWord \cup {NoMask},
                  op : Compare, value : RegWord]
  /\ LET kernel == KernelRegs[arch]
     IN  \E this, other \in RegWord :
           cpu = [r \in {kernel[b] : b \in 1..Len(kernel)} |->
                    IF r = KernelName(asked.name) THEN this ELSE other]
  /\ pc = "running" /\ regs = <<>> /\ verdict = FALSE /\ shown = <<>>

\* The kernel dumps the registers of the mask in the order of their bits: the i-th has i - 1
\* bits of the mask before it.
Dumped == [a \in Arch |->
  LET mask == SampleRegsUser(a)
      Before(b) == {c \in mask : c < b}
      Bit(i) == CHOOSE b \in mask : Cardinality(Before(b)) = i - 1
  IN  [i \in 1..RegsCount(a) |-> KernelRegs[a][Bit(i) + 1]]]

\* The kernel writes the sample, read_sample reads it, or gives up on abi 0.
Sample ==
  /\ pc = "running"
  /\ \/ /\ pc' = "sampled"
        /\ regs' = [i \in 1..RegsCount(arch) |-> cpu[Dumped[arch][i]]]
     \/ pc' = "skipped" /\ UNCHANGED regs
  /\ UNCHANGED <<arch, asked, cpu, verdict, shown>>

\* Mutant: the register is looked up by the number of its bit.
ParseRegBit(name) ==
  CHOOSE b \in 0..63 : b < Len(KernelRegs[arch]) /\ KernelRegs[arch][b + 1] = KernelName(name)

\* The first index of that name.
ParseReg(name) ==
  CHOOSE i \in 0..RegsCount(arch) - 1 :
    /\ IdToStr(arch, i) = name
    /\ \A j \in 0..i - 1 : IdToStr(arch, j) # name

\* a & b, bit by bit.
BitAnd[a \in Nat, b \in Nat] ==
  IF a = 0 \/ b = 0 THEN 0 ELSE 2 * BitAnd[a \div 2, b \div 2] + (a % 2) * (b % 2)

Masked(reg, mask) == IF mask = NoMask THEN reg ELSE BitAnd[reg, mask]

Holds(op, lhs, value) ==
  \/ op = "==" /\ lhs = value
  \/ op = "!=" /\ lhs # value
  \/ op = ">" /\ lhs > value
  \/ op = ">=" /\ lhs >= value
  \/ op = "<" /\ lhs < value
  \/ op = "<=" /\ lhs <= value

\* A predicate on a register the sample does not have is false.
Match ==
  /\ pc = "sampled" /\ pc' = "matched"
  /\ LET i == ParseReg(asked.name)
     IN  verdict' = (i < Len(regs) /\ Holds(asked.op, Masked(regs[i + 1], asked.mask), asked.value))
  /\ UNCHANGED <<arch, asked, cpu, regs, shown>>

\* Mutant: hits count their registers from one.
MakeHitFromOne ==
  /\ pc = "matched" /\ pc' = "done"
  /\ shown' = [i \in 1..Len(regs) |-> [name |-> IdToStr(arch, i), value |-> regs[i]]]
  /\ UNCHANGED <<arch, asked, cpu, regs, verdict>>

\* Each value under the name of its index.
MakeHit ==
  /\ pc = "matched" /\ pc' = "done"
  /\ shown' = [i \in 1..Len(regs) |-> [name |-> IdToStr(arch, i - 1), value |-> regs[i]]]
  /\ UNCHANGED <<arch, asked, cpu, regs, verdict>>

RegNext == Sample \/ Match \/ MakeHit

RegSpec == RegInit /\ [][RegNext]_registerVars

-----------------------------------------------------------------------------
RegTypeOK ==
  /\ arch \in Arch /\ pc \in {"running", "sampled", "skipped", "matched", "done"}
  /\ asked.mask \in RegWord \cup {NoMask} /\ asked.op \in Compare /\ asked.value \in RegWord
  /\ regs \in Seq(RegWord) /\ verdict \in BOOLEAN
  /\ shown \in Seq([name : {IdToStr(arch, i) : i \in 0..RegsCount(arch) - 1}, value : RegWord])

\* A filter on a register speaks of that register of the thread: of all the registers only
\* it decides, although the mask has holes and the kernel packs what it dumps
\* (filter.rs:41-56, 181-185, arch/).
FilterReadsItsRegister ==
  pc \in {"matched", "done"} =>
    verdict = Holds(asked.op, Masked(cpu[KernelName(asked.name)], asked.mask), asked.value)

\* "Use the register names printed by pwatch" (README.md, Filter): what a hit prints under
\* a name is that register's value, and the filter's answer follows from the printed
\* value (hit.rs:56-71, filter.rs:181-185).
FilterAgreesWithTheHit ==
  pc = "done" =>
    /\ \A i \in 1..Len(shown) : shown[i].value = cpu[KernelName(shown[i].name)]
    /\ \E i \in 1..Len(shown) :
         /\ shown[i].name = asked.name
         /\ verdict = Holds(asked.op, Masked(shown[i].value, asked.mask), asked.value)

\* A predicate means what it says: it speaks of the register it names, and agrees with what
\* the hit prints under that name (filter.rs:41-58, 181-185, hit.rs:56-71, arch/).
PredicatesReadRegisters == RegTypeOK /\ FilterReadsItsRegister /\ FilterAgreesWithTheHit
=============================================================================

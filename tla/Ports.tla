------------------------------- MODULE Ports -------------------------------
(***************************************************************************)
(* The device ports (targets/esp32, targets/rp2040): the volume's region   *)
(* of a part's flash behind the interface the engine knows, the marks of   *)
(* the phases, the measurements the firmware prints, and the choice of a   *)
(* chip.  A byte is the set of its bits that are set; a part is a function *)
(* from its addresses to bytes.  The drivers under the ports are external. *)
(***************************************************************************)
EXTENDS Integers, Sequences, FiniteSets, SequencesExt

CONSTANTS
  AccessBytes,   \* READ_SIZE and WRITE_SIZE of esp-storage
  PageBytes,
  SectorBytes,
  Word,          \* the number of values of a u32
  Bits

Erased == Bits
Divides(k, x) == x % k = 0
UpTo(k, x) == ((x + k - 1) \div k) * k
Run(from, n) == from .. from + n - 1

---------------------------------------------------------------------------
(* The region of a port.                                                   *)

PartBytes(part) == Cardinality(DOMAIN part)

\* EspFlash::new asks for nothing of the base; PicoFlash::new does.
EspMaps(base, len, capacity) == base + len <= capacity /\ Divides(SectorBytes, len)
PicoMaps(base, len, capacity) ==
  /\ Divides(SectorBytes, base) /\ Divides(SectorBytes, len)
  /\ base + len < Word /\ base + len <= capacity
InVolume(offset, len, size) == offset + len < Word /\ offset + len <= size
Maps(port, base, len, capacity) ==
  CASE port = "esp" -> EspMaps(base, len, capacity)
    [] port = "pico" -> PicoMaps(base, len, capacity)
    [] OTHER -> TRUE

\* What the drivers accept, and what their writes do to a cell of NOR.
DriverAccepts(part, granule, from, n) ==
  Divides(granule, from) /\ Divides(granule, n) /\ from + n <= PartBytes(part)
Cell(physics, old, new) ==
  CASE physics = "nor" -> old \cap new [] physics = "ignored" -> old [] OTHER -> new
Written(part, physics, from, data) ==
  [a \in DOMAIN part |->
     IF a \in Run(from, Len(data)) THEN Cell(physics, part[a], data[a - from + 1]) ELSE part[a]]
Wiped(part, from) ==
  [a \in DOMAIN part |-> IF a \in Run(from, SectorBytes) THEN Erased ELSE part[a]]

---------------------------------------------------------------------------
(* Operations.  A volume is [port, base, len, part, physics].              *)

Out(verdict, bytes, part) == [verdict |-> verdict, bytes |-> bytes, part |-> part]
Refuse(vol, error) == Out(error, <<>>, vol.part)
BytesAt(part, from, n) == [i \in 1 .. n |-> part[from + i - 1]]
PastEnd(vol, addr, n) ==
  IF vol.port = "stub" THEN ~InVolume(addr, n, vol.len) ELSE addr + n > vol.len
EndError(vol) == IF vol.port = "stub" THEN "OutOfPartition" ELSE "OutOfBounds"
AlignError(vol) == IF vol.port = "stub" THEN "Misaligned" ELSE "Unaligned"

\* A read that takes the window from its first word on.
EspReadUnskewed(vol, addr, n) ==
  LET start == vol.base + addr
      from  == start - (start % AccessBytes)
  IN  Out("ok", BytesAt(vol.part, from, n), vol.part)

\* EspFlash::read: the words around the bytes, through a window of a sector and two words.
EspRead(vol, addr, n) ==
  LET start   == vol.base + addr
      skew    == start % AccessBytes
      aligned == UpTo(AccessBytes, skew + n)
  IN  CASE n = 0 -> Out("ok", <<>>, vol.part)
        [] n > 0 /\ aligned > SectorBytes + 2 * AccessBytes -> Refuse(vol, "OutOfBounds")
        [] n > 0 /\ aligned <= SectorBytes + 2 * AccessBytes ->
             IF DriverAccepts(vol.part, AccessBytes, start - skew, aligned)
             THEN LET window == BytesAt(vol.part, start - skew, aligned)
                  IN  Out("ok", SubSeq(window, skew + 1, skew + n), vol.part)
             ELSE Refuse(vol, "Driver")

PortRead(vol, addr, n) ==
  CASE PastEnd(vol, addr, n) -> Refuse(vol, EndError(vol))
    [] ~PastEnd(vol, addr, n) /\ vol.port = "stub" -> Refuse(vol, "NotImplemented")
    [] ~PastEnd(vol, addr, n) /\ vol.port = "pico" ->
         Out("ok", BytesAt(vol.part, vol.base + addr, n), vol.part)
    [] ~PastEnd(vol, addr, n) /\ vol.port = "esp" -> EspRead(vol, addr, n)

\* After the checks of program and erase, what carries the call out.
Carried(vol, granule, from, n, part) ==
  CASE vol.port = "stub" -> Refuse(vol, "NotImplemented")
    [] vol.port = "esp" /\ ~DriverAccepts(vol.part, granule, from, n) -> Refuse(vol, "Driver")
    [] OTHER -> Out("ok", <<>>, part)

PortProgram(vol, addr, data) ==
  IF ~Divides(PageBytes, addr) \/ ~Divides(PageBytes, Len(data)) THEN Refuse(vol, AlignError(vol))
  ELSE IF PastEnd(vol, addr, Len(data)) THEN Refuse(vol, EndError(vol))
  ELSE Carried(vol, AccessBytes, vol.base + addr, Len(data),
               Written(vol.part, vol.physics, vol.base + addr, data))

PortErase(vol, addr) ==
  IF ~Divides(SectorBytes, addr) THEN Refuse(vol, AlignError(vol))
  ELSE IF PastEnd(vol, addr, SectorBytes) THEN Refuse(vol, EndError(vol))
  ELSE Carried(vol, SectorBytes, vol.base + addr, SectorBytes, Wiped(vol.part, vol.base + addr))

Do(vol, op) ==
  CASE op.is = "read" -> PortRead(vol, op.addr, op.n)
    [] op.is = "program" -> PortProgram(vol, op.addr, op.data)
    [] op.is = "erase" -> PortErase(vol, op.addr)
After(vol, op) == [vol EXCEPT !.part = Do(vol, op).part]

---------------------------------------------------------------------------
(* Marks of the phases, and the time between them.                         *)

Phases == <<"Rotate", "Table", "Scan", "Rerank", "Finalize">>
EntryPulses(phase) == CHOOSE i \in DOMAIN Phases : Phases[i] = phase
Encode(mark) ==
  IF mark.edge = "Enter" THEN [pulses |-> EntryPulses(mark.phase), width |-> 4]
  ELSE [pulses |-> 1, width |-> 20]
DecodeEntry(pulses) == IF pulses \in DOMAIN Phases THEN Phases[pulses] ELSE "none"

MaxMarks == 16
Emit(emitted, mark) == IF Len(emitted) < MaxMarks THEN Append(emitted, Encode(mark)) ELSE emitted
EmittedBy(marks) == FoldLeft(Emit, <<>>, marks)
Marked(marks) == IF marks = Word - 1 THEN marks ELSE marks + 1

\* The low word of the microsecond timer, subtracted as u64: below zero it wraps, or
\* panics where overflow is checked.
Cycles(time) == time % Word
Elapsed(from, to) ==
  IF Cycles(to) >= Cycles(from) THEN [is |-> "ticks", ticks |-> Cycles(to) - Cycles(from)]
  ELSE [is |-> "wrapped", ticks |-> 0]

\* Whether the bench sees its timer move: it spins until the reading differs.
TimebaseOk(from, to) == Cycles(to) > Cycles(from)

\* A record of a query: cycles of the five phases.
TotalCycles(cycles) ==
  FoldLeft(LAMBDA sum, c : IF sum + c >= Word THEN Word - 1 ELSE sum + c, 0, cycles)
Micros(cycles, hz, perSecond) == IF hz = 0 THEN 0 ELSE ((cycles * perSecond) \div hz) % Word
SharePermille(cycles, phase) ==
  IF TotalCycles(cycles) = 0 \/ phase \notin DOMAIN cycles THEN 0
  ELSE (cycles[phase] * 1000) \div TotalCycles(cycles)

---------------------------------------------------------------------------
(* The firmware.                                                           *)

\* measure_flash.rs: erase, program a sector of pages, read back, program once more.
ErasedSectors == 4
Patterns == [first |-> {0}, second |-> {1}]
Page(byte) == [i \in 1 .. PageBytes |-> byte]
Op(is, addr) == [is |-> is, addr |-> addr]
EraseAt(addr) == Op("erase", addr)
ProgramAt(addr, byte) == [is |-> "program", addr |-> addr, data |-> Page(byte)]
ReadAt(addr, n) == [is |-> "read", addr |-> addr, n |-> n]
FirstPages == SectorBytes \div PageBytes

Prepared(vol) ==
  LET erases   == [i \in 1 .. ErasedSectors |-> EraseAt((i - 1) * SectorBytes)]
      programs == [i \in 1 .. FirstPages |-> ProgramAt((i - 1) * PageBytes, Patterns.first)]
  IN  FoldLeft(After, vol, erases \o programs)
MeasureFlash(vol) ==
  LET ready  == Prepared(vol)
      check  == Do(ready, ReadAt(0, PageBytes))
      again  == Do(ready, ProgramAt(0, Patterns.second))
      after  == Do(After(ready, ProgramAt(0, Patterns.second)), ReadAt(0, PageBytes))
      first  == after.bytes[1]
  IN  [roundtrip_exact |-> check.verdict = "ok" /\ check.bytes = Page(Patterns.first),
       reprogram_accepted |-> again.verdict = "ok",
       behaviour |-> CASE first = {} -> "nor"
                       [] first = Patterns.first -> "ignored"
                       [] first = Patterns.second -> "overwritten"
                       [] OTHER -> "unexpected"]

\* bench.rs: the corpus is erased, programmed and read in the order below, in bytes of the
\* device itself.
RerankBytes == 128
FlashVectors == 512
Depth == 100
RegionBytes == FlashVectors * RerankBytes
BenchSectors == {i * 4096 : i \in 0 .. ((RegionBytes + 4095) \div 4096) - 1}
BenchPages == {i * 256 : i \in 0 .. RegionBytes \div 256 - 1}
CandidateAt(c) == ((c * 37) % FlashVectors) * RerankBytes
SweepAt(i) == (i * 1024) % (RegionBytes - 1024)
FlashHolds(capacity, perVector, codebook) ==
  (IF capacity < 2 * codebook THEN 0 ELSE capacity - 2 * codebook) \div perVector

\* shell.rs: a line of words, a number among them or not.
ParseShell(words) ==
  CASE words = <<>> -> "Empty"
    [] words # <<>> /\ words[1] \in {"mount", "m"} -> "Mount"
    [] words # <<>> /\ words[1] \in {"query", "q"} ->
         IF Len(words) > 1 /\ words[2] = "number" THEN "Query" ELSE "BadArgument"
    [] words # <<>> /\ words[1] = "metrics" -> "Metrics"
    [] words # <<>> /\ words[1] = "scrub" -> "Scrub"
    [] words # <<>> /\ words[1] \in {"info", "i"} -> "Info"
    [] OTHER -> "UnknownVerb"

---------------------------------------------------------------------------
(* The chip and the target of a build.                                     *)

Imc == {"c2", "c3"}
Imac == {"c5", "c6", "c61", "h2"}
Xtensa == {"esp32", "s2", "s3"}
Chips == Imc \cup Imac \cup Xtensa
TargetOf(chip) ==
  CASE chip \in Imc -> "riscv32imc" [] chip \in Imac -> "riscv32imac" [] OTHER -> chip
Targets == {TargetOf(c) : c \in Chips} \cup {"host"}

\* build.rs: one chip and its own triple.
BuildRefuses(selected, target) ==
  Cardinality(selected) # 1 \/ \E c \in selected : TargetOf(c) # target

\* lib.rs: some chip; none of three chips with another; every chip its architecture.
SecondRejected(selected) ==
  \/ "esp32" \in selected /\ selected \cap (Chips \ {"esp32"}) # {}
  \/ "c2" \in selected /\ selected \cap (Chips \ {"esp32", "c2"}) # {}
  \/ "c3" \in selected /\ selected \cap (Chips \ {"esp32", "c2", "c3"}) # {}
LibRefuses(selected, target) ==
  \/ selected = {} \/ SecondRejected(selected)
  \/ selected \cap Xtensa # {} /\ target \notin Xtensa
  \/ selected \cap Imc # {} /\ target # "riscv32imc"
  \/ selected \cap Imac # {} /\ target # "riscv32imac"

---------------------------------------------------------------------------
(* What a port owes the engine.                                            *)

\* Through a port the region is an array of NOR of its own: a read returns its bytes, a program
\* clears bits of its pages and sets none, an erase fills its sector, a refused call changes
\* nothing, and nothing outside it ever changes.  Every aligned call inside a region of whole
\* sectors, and every read of no more than a sector, is carried out, except by the stub: a
\* program over a programmed page too, since no port looks at what is there (ReprogramRejected).
ActsAsArray(vol, op) ==
  LET done  == Do(vol, op)
      n     == CASE op.is = "read" -> op.n [] op.is = "program" -> Len(op.data)
                 [] op.is = "erase" -> SectorBytes
      fits  == op.addr + n <= vol.len
      right == CASE op.is = "read" -> op.n <= SectorBytes
                 [] op.is = "program" -> Divides(PageBytes, op.addr) /\ Divides(PageBytes, n)
                 [] op.is = "erase" -> Divides(SectorBytes, op.addr)
      mine  == Run(vol.base + op.addr, n)
  IN  /\ done.verdict # "ok" => done.part = vol.part
      /\ done.verdict = "ok" =>
           /\ fits /\ mine \subseteq Run(vol.base, vol.len)
           /\ \A a \in DOMAIN vol.part \ mine : done.part[a] = vol.part[a]
           /\ op.is = "read" =>
                done.part = vol.part /\ done.bytes = [i \in 1 .. n |-> vol.part[vol.base + op.addr + i - 1]]
           /\ op.is = "program" =>
                \A i \in 1 .. n : LET a == vol.base + op.addr + i - 1
                                  IN  done.part[a] = vol.part[a] \cap op.data[i]
           /\ op.is = "erase" => \A a \in mine : done.part[a] = Erased
      /\ fits /\ right /\ (op.is = "read" \/ Divides(SectorBytes, vol.base)) =>
           done.verdict = (IF vol.port = "stub" THEN "NotImplemented" ELSE "ok")
      /\ ~fits => done.verdict # "ok" /\ done.verdict # "NotImplemented"

\* "this rejects the call rather than corrupting quietly" (esp32 lib.rs:296): a program over a
\* page that is not erased is refused.  It is carried out (run documented_claims).
ReprogramRejected(vol, op) ==
  (\E i \in 1 .. Len(op.data) : vol.part[vol.base + op.addr + i - 1] # Erased)
    => Do(vol, op).verdict # "ok"

\* A decoder of the trace finds the phases that were entered, as far as marks are kept, and
\* a phase is never read from the end of one.
PulsesDecode(marks) ==
  LET emitted == EmittedBy(marks)
  IN  /\ Len(emitted) = (IF Len(marks) < MaxMarks THEN Len(marks) ELSE MaxMarks)
      /\ \A i \in DOMAIN emitted :
           /\ marks[i].edge = "Enter" =>
                emitted[i].width = 4 /\ DecodeEntry(emitted[i].pulses) = marks[i].phase
           /\ marks[i].edge = "Leave" => emitted[i] \notin {Encode([edge |-> "Enter", phase |-> p]) : p \in {Phases[j] : j \in DOMAIN Phases}}

\* Times: no phase has more than the whole, and an interval that does not straddle the end
\* of the timer's word, and is shorter than the word, is what passed.
TimesTrue(cycles, from, to) ==
  /\ \A p \in DOMAIN cycles : SharePermille(cycles, p) <= 1000
  /\ TotalCycles(cycles) < Word - 1 =>
       FoldLeft(+, 0, [p \in DOMAIN cycles |-> SharePermille(cycles, p)]) <= 1000
  /\ from \div Word = to \div Word /\ from <= to =>
       Elapsed(from, to) = [is |-> "ticks", ticks |-> to - from]
  /\ from < to /\ to - from < Word /\ Elapsed(from, to).is = "ticks" =>
       Elapsed(from, to).ticks = to - from /\ TimebaseOk(from, to)

\* The firmware's verdicts are about the flash: a page reads back as programmed where the
\* flash takes programs, the second program reaches the flash, and what it does there is
\* named for what it did.
MeasuresFlash(vol) ==
  LET report == MeasureFlash(vol)
  IN  /\ report.roundtrip_exact = (vol.physics # "ignored")
      /\ report.reprogram_accepted
      /\ vol.physics # "ignored" => report.behaviour = vol.physics

\* The bench programs what it erased, page by page and once, and reads only that: its
\* candidates are distinct records, no two in turn of one sector.
BenchReadsItsCorpus ==
  /\ UNION {Run(s \div 256, 16) : s \in BenchSectors} = {p \div 256 : p \in BenchPages}
  /\ Cardinality({CandidateAt(c) : c \in 0 .. Depth - 1}) = Depth
  /\ \A c \in 0 .. Depth - 1 : CandidateAt(c) + RerankBytes <= RegionBytes
  /\ \A c \in 1 .. Depth - 1 : CandidateAt(c) \div 4096 # CandidateAt(c - 1) \div 4096
  /\ \A i \in 0 .. 31 : SweepAt(i) + 1024 <= RegionBytes
  /\ FlashHolds(4194304, 144, 32768) * 144 + 2 * 32768 <= 4194304

\* "pairwise against the first in declaration order, which is enough to catch any two"
\* (esp32 lib.rs:40).  Of the pairs among the last six none is named (run documented_claims).
PairsCatchAnyTwo(selected) == Cardinality(selected) >= 2 => SecondRejected(selected)

\* Script and crate together take one chip for its own target and nothing else: what the
\* build script lets through the crate does not refuse, a wrong target for one chip is
\* refused by both, and two chips are refused by the script, whichever the crate's pairs miss.
ChipAgrees(selected, target) ==
  /\ ~BuildRefuses(selected, target) =>
       Cardinality(selected) = 1 /\ ~LibRefuses(selected, target)
  /\ (\E c \in Chips : selected = {c} /\ target \notin Xtensa) =>
       (BuildRefuses(selected, target) <=> LibRefuses(selected, target))
=============================================================================

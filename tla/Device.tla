------------------------------- MODULE Device -------------------------------
(***************************************************************************)
(* Flash as the engine sees it (sector-hal lib.rs NorFlash and Xip), as    *)
(* the simulator enforces it (sector-sim sim_flash.rs) and damages it      *)
(* (fault.rs), and the engine's own append of whole blocks on top of it    *)
(* (sector-core append.rs).                                                *)
(*                                                                         *)
(* A byte is the set of its bits that are set: erased is all of them, and  *)
(* programming intersects.  "expect" is what the last accepted operation   *)
(* meant each byte to hold and "sound" the bytes no fault has touched      *)
(* since they were last erased or installed, "done" what completed appends  *)
(* wrote: bookkeeping for the properties.                                  *)
(***************************************************************************)
EXTENDS Integers, Sequences

CONSTANTS
  FlashBytes, PageBytes, SectorBytes, \* bytes of the device, a page, a sector
  Endurance,                         \* erases a sector tolerates
  WindowBytes,                       \* extent of the mapped window, 0 for none
  Bits,                              \* the bits of a byte
  PayloadBase, Blocks, BlockBytes,   \* the region appended to
  CrcBase, SlotBytes,                \* its CRC array
  Contents,                          \* blocks of data that are appended
  CrcOf(_),                          \* the digest of a block
  Scratch, Writes,                   \* where and what other writers write
  MaxFaults                          \* bound on injected faults and power losses

\* What the parameters have to be.
DeviceAssumption ==
  /\ FlashBytes \in Nat /\ PageBytes \in Nat \ {0} /\ SectorBytes \in Nat \ {0}
  /\ SectorBytes % PageBytes = 0 /\ Endurance \in Nat /\ MaxFaults \in Nat
  /\ PayloadBase \in Nat /\ CrcBase \in Nat /\ Blocks \in Nat
  /\ BlockBytes \in Nat \ {0} /\ SlotBytes \in Nat \ {0}
  /\ \A data \in Contents :
       /\ data \in Seq(SUBSET Bits) /\ Len(data) = BlockBytes
       /\ CrcOf(data) \in Seq(SUBSET Bits) /\ Len(CrcOf(data)) = SlotBytes
  /\ Scratch \subseteq Nat
  /\ \A data \in Writes : data \in Seq(SUBSET Bits) /\ data # << >>

\* Where the region appended to and its CRC array may lie: on sectors of their own, in
\* blocks and slots that divide a sector, inside the device.
RegionsApart ==
  /\ PayloadBase % SectorBytes = 0 /\ SectorBytes % BlockBytes = 0
  /\ CrcBase % SectorBytes = 0 /\ SectorBytes % SlotBytes = 0
  /\ PayloadBase + Blocks * BlockBytes <= FlashBytes /\ CrcBase + Blocks * SlotBytes <= FlashBytes
  /\ \/ PayloadBase + Blocks * BlockBytes <= CrcBase
     \/ CrcBase + Blocks * SlotBytes <= PayloadBase

VARIABLES bytes, programmed, erases, violation, appender, done, expect, sound, faults

deviceVars == <<bytes, programmed, erases, violation, appender, done, expect, sound, faults>>

Erased == Bits
Addresses == 0 .. FlashBytes - 1
Pages == 0 .. (FlashBytes + PageBytes - 1) \div PageBytes - 1
Sectors == 0 .. (FlashBytes + SectorBytes - 1) \div SectorBytes - 1
Run(addr, len) == addr .. addr + len - 1
PagesOf(addr, len) == addr \div PageBytes .. (addr + len) \div PageBytes - 1
PageOf(a) == a \div PageBytes
Idle == [pc |-> "idle"]

DeviceInit ==
  /\ bytes = [a \in Addresses |-> Erased]
  /\ programmed = {}
  /\ erases = [s \in Sectors |-> 0]
  /\ violation = "none"
  /\ appender = Idle
  /\ done = [b \in 0 .. Blocks - 1 |-> << >>]
  /\ expect = [a \in Addresses |-> Erased]
  /\ sound = Addresses
  /\ faults = 0

---------------------------------------------------------------------------
(* sim_flash.rs.                                                           *)

InBounds(addr, len) == addr + len <= FlashBytes
Read(addr, len) == [i \in 1 .. len |-> bytes[addr + i - 1]]

\* None outside the window, and the caller reads instead.
WindowAt(addr, len) ==
  IF addr + len > WindowBytes \/ ~InBounds(addr, len) THEN << >> ELSE Read(addr, len)

\* A device that lets a page be programmed again.
ProgramViolationOnce(addr, len) ==
  IF addr % PageBytes # 0 \/ len % PageBytes # 0 THEN "Misaligned"
  ELSE IF InBounds(addr, len) THEN "none" ELSE "OutOfBounds"

\* The first contract a program breaks, checked before any byte changes.
ProgramViolation(addr, len) ==
  CASE addr % PageBytes # 0 \/ len % PageBytes # 0 -> "Misaligned"
    [] addr % PageBytes = 0 /\ len % PageBytes = 0 /\ ~InBounds(addr, len) -> "OutOfBounds"
    [] addr % PageBytes = 0 /\ len % PageBytes = 0 /\ InBounds(addr, len)
         /\ PagesOf(addr, len) \cap programmed # {} -> "DoubleProgram"
    [] OTHER -> "none"

\* NOR programming clears bits; it never sets them.
Cleared(addr, data) ==
  [a \in Addresses |-> IF a \in Run(addr, Len(data)) THEN bytes[a] \cap data[a - addr + 1]
                       ELSE bytes[a]]
Meant(addr, data) ==
  [a \in Addresses |-> IF a \in Run(addr, Len(data)) THEN data[a - addr + 1] ELSE expect[a]]

Program(addr, data) ==
  /\ UNCHANGED <<erases, sound, faults>>
  /\ \/ /\ ProgramViolation(addr, Len(data)) # "none"
        /\ violation' = ProgramViolation(addr, Len(data))
        /\ UNCHANGED <<bytes, programmed, expect>>
     \/ /\ ProgramViolation(addr, Len(data)) = "none"
        /\ programmed' = programmed \cup PagesOf(addr, Len(data))
        /\ bytes' = Cleared(addr, data)
        /\ expect' = Meant(addr, data)
        /\ UNCHANGED violation

EraseViolation(addr) ==
  CASE addr % SectorBytes # 0 -> "UnalignedErase"
    [] addr % SectorBytes = 0 /\ ~InBounds(addr, SectorBytes) -> "OutOfBounds"
    [] addr % SectorBytes = 0 /\ InBounds(addr, SectorBytes)
         /\ erases[addr \div SectorBytes] >= Endurance -> "Worn"
    [] OTHER -> "none"

SectorRun(addr) == Run(addr, SectorBytes)

\* The blocks whose payload or digest lies in a run.
BlockBase(b) == PayloadBase + b * BlockBytes
SlotBase(b) == CrcBase + b * SlotBytes
BlockRun(b) == Run(BlockBase(b), BlockBytes)
SlotRun(b) == Run(SlotBase(b), SlotBytes)
Forgotten(run) ==
  [b \in DOMAIN done |-> IF (BlockRun(b) \cup SlotRun(b)) \cap run = {} THEN done[b] ELSE << >>]

\* A worn sector is charged the cycle and keeps its bytes.
Erase(addr) ==
  /\ UNCHANGED <<faults, appender>>
  /\ erases' = IF EraseViolation(addr) \in {"none", "Worn"}
               THEN [erases EXCEPT ![addr \div SectorBytes] = @ + 1] ELSE erases
  /\ \/ /\ EraseViolation(addr) # "none"
        /\ violation' = EraseViolation(addr)
        /\ UNCHANGED <<bytes, programmed, expect, sound, done>>
     \/ /\ EraseViolation(addr) = "none"
        /\ done' = Forgotten(SectorRun(addr))
        /\ bytes' = [a \in Addresses |-> IF a \in SectorRun(addr) THEN Erased ELSE bytes[a]]
        /\ expect' = [a \in Addresses |-> IF a \in SectorRun(addr) THEN Erased ELSE expect[a]]
        /\ programmed' = programmed \ PagesOf(addr, SectorBytes)
        /\ sound' = sound \cup SectorRun(addr)
        /\ UNCHANGED violation

\* A built image put in place: past the contract, and its pages count as programmed.
Install(addr, data) ==
  LET placed == IF InBounds(addr, Len(data)) THEN Run(addr, Len(data)) ELSE {}
      last   == IF addr + Len(data) = 0 THEN 0 ELSE addr + Len(data) - 1
  IN  /\ bytes' = [a \in Addresses |-> IF a \in placed THEN data[a - addr + 1] ELSE bytes[a]]
      /\ expect' = [a \in Addresses |-> IF a \in placed THEN data[a - addr + 1] ELSE expect[a]]
      /\ programmed' = programmed \cup (Pages \cap (PageOf(addr) .. PageOf(last)))
      /\ sound' = sound \cup placed
      /\ done' = Forgotten(placed)
      /\ UNCHANGED <<erases, violation, appender, faults>>

---------------------------------------------------------------------------
(* fault.rs: what an injection overwrites; the range may pass the end.     *)

Overwritten(with) == [a \in Addresses |-> IF a \in DOMAIN with THEN with[a] ELSE bytes[a]]

Damage(with) ==
  /\ faults < MaxFaults /\ faults' = faults + 1
  /\ DOMAIN with \subseteq Addresses
  /\ bytes' = Overwritten(with)
  /\ sound' = sound \ DOMAIN with
  /\ done' = Forgotten(DOMAIN with)
  /\ UNCHANGED <<programmed, erases, violation, appender, expect>>

FlipBit(addr, bit) ==
  Damage([a \in {addr} |-> IF bit \in bytes[a] THEN bytes[a] \ {bit} ELSE bytes[a] \cup {bit}])

\* A fill of a few bytes, repeated.
CorruptBlock(base, len, fill) ==
  Damage([a \in Run(base, len) |-> fill[((a - base) % Len(fill)) + 1]])

KillSector(sector) == Damage([a \in Run(sector * SectorBytes, SectorBytes) |-> {}])

\* A valid prefix, then erased bytes: what a torn write leaves is known, not noise.
TearWrite(start, len, written) ==
  LET tail == Run(start + written, len - written)
  IN  /\ faults < MaxFaults /\ faults' = faults + 1
      /\ bytes' = Overwritten([a \in tail |-> Erased])
      /\ expect' = [a \in Addresses |-> IF a \in tail THEN Erased ELSE expect[a]]
      /\ done' = Forgotten(tail)
      /\ UNCHANGED <<programmed, erases, violation, sound>>

---------------------------------------------------------------------------
(* append.rs.                                                              *)

BlockAt(b) == Read(BlockBase(b), BlockBytes)
SlotAt(b) == Read(SlotBase(b), SlotBytes)
AllErased(data) == \A i \in DOMAIN data : data[i] = Erased

\* The first block that reads erased, Blocks when none does.
FindHead ==
  CHOOSE h \in 0 .. Blocks :
    /\ h < Blocks => AllErased(BlockAt(h))
    /\ \A b \in 0 .. h - 1 : ~AllErased(BlockAt(b))

\* append_block, payload first; a refusal by the device ends it.
StartAppend(data) ==
  /\ appender = Idle /\ FindHead < Blocks
  /\ Program(BlockBase(FindHead), data)
  /\ appender' = IF ProgramViolation(BlockBase(FindHead), Len(data)) = "none"
                 THEN [pc |-> "crc", block |-> FindHead, data |-> data] ELSE Idle
  /\ UNCHANGED done

\* ... then the digest that certifies it.
FinishAppend ==
  /\ appender # Idle
  /\ Program(SlotBase(appender.block), CrcOf(appender.data))
  /\ appender' = Idle
  /\ done' = IF /\ ProgramViolation(SlotBase(appender.block), SlotBytes) = "none"
                /\ BlockRun(appender.block) \cup SlotRun(appender.block) \subseteq sound
             THEN [done EXCEPT ![appender.block] = appender.data] ELSE done

\* Power lost while the payload is being written, or between the two writes.
LosePower ==
  /\ appender # Idle
  /\ \E written \in 0 .. BlockBytes :
       TearWrite(BlockBase(appender.block), BlockBytes, written)
  /\ appender' = Idle

\* Power lost while the digest is being written: a prefix of it stands.
Torn(data, written) == [i \in 1 .. Len(data) |-> IF i <= written THEN data[i] ELSE Erased]
LosePowerInDigest(written) ==
  LET slot == SlotBase(appender.block)
      torn == Torn(CrcOf(appender.data), written)
  IN  /\ appender # Idle /\ faults < MaxFaults /\ faults' = faults + 1
      /\ ProgramViolation(slot, SlotBytes) = "none"
      /\ bytes' = Cleared(slot, torn)
      /\ expect' = Meant(slot, torn)
      /\ programmed' = programmed \cup PagesOf(slot, SlotBytes)
      /\ appender' = Idle
      /\ UNCHANGED <<erases, violation, sound, done>>

---------------------------------------------------------------------------
(* The device and its client.  Scratch is where the other writers write;   *)
(* the device is borrowed for the whole of an append, so only faults come  *)
(* between its two writes.  A sector is not tried again once it is known   *)
(* to be worn, which bounds the count of its erases.                       *)

OtherWriter ==
  /\ appender = Idle
  /\ \/ \E addr \in Scratch, data \in Writes :
          Program(addr, data) /\ UNCHANGED <<appender, done>>
     \/ \E addr \in Scratch, data \in Writes : Install(addr, data)
     \/ \E addr \in Addresses : erases[addr \div SectorBytes] <= Endurance /\ Erase(addr)

DeviceNext ==
  \/ OtherWriter
  \/ \E addr \in Addresses, bit \in Bits : FlipBit(addr, bit)
  \/ \E b \in 0 .. Blocks - 1, data \in Writes : CorruptBlock(BlockBase(b), BlockBytes, data)
  \/ \E sector \in Sectors : KillSector(sector)
  \/ \E data \in Contents : StartAppend(data)
  \/ FinishAppend
  \/ LosePower
  \/ \E written \in 0 .. SlotBytes : LosePowerInDigest(written)

DeviceSpec == DeviceInit /\ [][DeviceNext]_deviceVars

---------------------------------------------------------------------------
(* What the contract gives.                                                *)

\* A byte no fault has touched holds exactly what the last accepted operation meant it to:
\* never two writes combined.  The window shows what a read copies.
ReadsBack ==
  /\ \A a \in sound : bytes[a] = expect[a]
  /\ \A addr \in Addresses : WindowAt(addr, 1) \in {<< >>, Read(addr, 1)}

\* Whatever power is lost and whenever, a block whose digest certifies it is a whole block
\* that was appended; an erased digest certifies nothing.
Certified(b) == ~AllErased(SlotAt(b)) /\ SlotAt(b) = CrcOf(BlockAt(b))
AppendsWhole ==
  \A b \in 0 .. Blocks - 1 :
    BlockRun(b) \cup SlotRun(b) \subseteq sound /\ Certified(b) => BlockAt(b) \in Contents

\* A completed append stays as it was until its sector is erased or damaged, although a
\* block of erased bytes is taken for free space again and a program there is tried.
AppendedKept ==
  \A b \in 0 .. Blocks - 1 : done[b] # << >> => BlockAt(b) = done[b] /\ SlotAt(b) = CrcOf(done[b])

\* The digest tells blocks apart: where held and slots name what a block and its slot may
\* hold (nothing, what is appended or a torn part of it, and whatever other writers put over
\* it), no digest a slot may hold is that of a block that was not appended.
Overlaid(old, at, addr, data) ==
  [i \in DOMAIN old |-> IF at + i - 1 \in Run(addr, Len(data)) THEN data[at + i - addr] ELSE old[i]]
BlankRun(len) == [i \in 1 .. len |-> Erased]
DigestTells(held, slots) ==
  \A b \in 0 .. Blocks - 1 :
    /\ BlankRun(BlockBytes) \in held[b] /\ BlankRun(SlotBytes) \in slots[b]
    /\ \A data \in Contents :
         /\ \A written \in 0 .. BlockBytes : Torn(data, written) \in held[b]
         /\ \A written \in 0 .. SlotBytes : Torn(CrcOf(data), written) \in slots[b]
    /\ \A addr \in Scratch, data \in Writes :
         /\ \A old \in held[b] : Overlaid(old, BlockBase(b), addr, data) \in held[b]
         /\ \A old \in slots[b] : Overlaid(old, SlotBase(b), addr, data) \in slots[b]
    /\ \A block \in held[b], slot \in slots[b] :
         slot # BlankRun(SlotBytes) /\ slot = CrcOf(block) => block \in Contents

\* What the engine may rely on: bytes as they were meant, whole blocks, kept blocks.
DeviceFaithful == ReadsBack /\ AppendsWhole /\ AppendedKept
=============================================================================

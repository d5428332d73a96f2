----------------------------- MODULE PartsProofs -----------------------------
(***************************************************************************)
(* Proofs about the parts: the flash device and the append on top of it,   *)
(* for any geometry, digest, data and bound on faults, the socket file of  *)
(* the daemon, for any set of daemons, and the offline verification of any *)
(* volume that its manifest describes.                                     *)
(***************************************************************************)
EXTENDS Device, Socket, FiniteSetTheorems, WellFoundedInduction, TLAPS

CONSTANTS MaxAddress, ByteBits   \* the rest of what a layout is measured in

Verifies == INSTANCE Verify

---------------------------------------------------------------------------
(* Addresses, pages and sectors.                                           *)

\* Quotient and remainder.
LEMMA Quotient ==
  ASSUME NEW a \in Nat, NEW k \in Nat \ {0}
  PROVE  /\ a \div k \in Nat
         /\ k * (a \div k) <= a /\ a < k * (a \div k) + k
         /\ a % k = a - k * (a \div k)
  BY Z3

\* What leaves no remainder is a multiple.
LEMMA Multiple ==
  ASSUME NEW a \in Nat, NEW k \in Nat \ {0}, a % k = 0
  PROVE  \E q \in Nat : a = k * q
<1>1. a \div k \in Nat /\ a % k = a - k * (a \div k)
  BY Quotient
<1>2. a = k * (a \div k)
  BY <1>1
<1>3. QED
  BY <1>1, <1>2

\* Products with a positive factor are in the order of the other.
LEMMA InOrder ==
  ASSUME NEW k \in Nat \ {0}, NEW x \in Int, NEW y \in Int
  PROVE  k * x < k * y <=> x < y
<1>1. k * y = k * x + k * (y - x)
  OBVIOUS
<1>2. \A z \in Int : (z > 0 => k * z > 0) /\ (z <= 0 => k * z <= 0)
  OBVIOUS
<1>3. (y - x > 0 => k * (y - x) > 0) /\ (y - x <= 0 => k * (y - x) <= 0)
  BY <1>2
<1>4. k * x \in Int /\ k * (y - x) \in Int
  OBVIOUS
<1>5. QED
  BY <1>1, <1>3, <1>4

\* No other quotient and remainder will do.
LEMMA QuotientOnly ==
  ASSUME NEW a \in Nat, NEW k \in Nat \ {0}, NEW q \in Nat, k * q <= a, a < k * q + k
  PROVE  a \div k = q /\ a % k = a - k * q
<1> DEFINE p == a \div k
<1>1. p \in Nat /\ k * p <= a /\ a < k * p + k /\ a % k = a - k * p
  BY Quotient
<1> HIDE DEF p
<1>2. k * (p + 1) = k * p + k /\ k * (q + 1) = k * q + k /\ k * p \in Int /\ k * q \in Int
  BY <1>1
<1>3. k * p < k * (q + 1) /\ k * q < k * (p + 1)
  BY <1>1, <1>2
<1>4. p < q + 1 /\ q < p + 1
  BY <1>1, <1>3, InOrder
<1>5. p = q
  BY <1>1, <1>4
<1>6. QED
  BY <1>1, <1>5 DEF p

\* The quotient of the lesser is not the greater.
LEMMA QuotientOrder ==
  ASSUME NEW a \in Nat, NEW b \in Nat, NEW k \in Nat \ {0}, a <= b
  PROVE  a \div k <= b \div k
<1> DEFINE p == a \div k
           q == b \div k
<1>1. p \in Nat /\ k * p <= a /\ q \in Nat /\ b < k * q + k
  BY Quotient
<1> HIDE DEF p, q
<1>2. k * (q + 1) = k * q + k /\ k * p \in Int /\ k * q \in Int
  BY <1>1
<1>3. k * p < k * (q + 1)
  BY <1>1, <1>2
<1>4. p < q + 1
  BY <1>1, <1>3, InOrder
<1>5. QED
  BY <1>1, <1>4 DEF p, q

\* Of a run of whole pages, the pages are those of its addresses and of no others.
LEMMA PagesExact ==
  ASSUME DeviceAssumption, NEW addr \in Nat, NEW len \in Nat, NEW a \in Nat,
         addr % PageBytes = 0, len % PageBytes = 0
  PROVE  PageOf(a) \in PagesOf(addr, len) <=> a \in Run(addr, len)
<1> DEFINE P == PageBytes
           q == a \div P
           f == addr \div P
           l == len \div P
<1>1. P \in Nat \ {0}
  BY DEF DeviceAssumption
<1>2. /\ q \in Nat /\ P * q <= a /\ a < P * q + P
      /\ f \in Nat /\ addr = P * f /\ l \in Nat /\ len = P * l
  BY <1>1, Quotient
<1> HIDE DEF P, q, f, l
<1>3. addr + len = P * (f + l) /\ P * q + P = P * (q + 1)
  BY <1>1, <1>2
<1>4. (addr + len) \div P = f + l
  <2>1. addr + len \in Nat /\ f + l \in Nat
    BY <1>2
  <2>2. P * (f + l) <= addr + len /\ addr + len < P * (f + l) + P
    BY <1>1, <1>3, <2>1
  <2>3. QED
    BY <1>1, <2>1, <2>2, QuotientOnly
<1>5. f < q + 1 <=> addr < P * q + P
  BY <1>1, <1>2, <1>3, InOrder
<1>6. q < f + l <=> P * q < addr + len
  BY <1>1, <1>2, <1>3, InOrder
<1>7. P * q \in Nat /\ addr \in Nat /\ addr + len \in Nat
  BY <1>1, <1>2
<1>8. f < q + 1 <=> addr <= a
  <2>1. f < q + 1 => addr <= P * q
    <3>1. f < q + 1 => f < q \/ f = q
      BY <1>2
    <3>2. f < q => addr < P * q
      BY <1>1, <1>2, InOrder
    <3>3. QED
      BY <1>2, <1>7, <3>1, <3>2
  <2>2. addr <= P * q => addr <= a
    BY <1>2, <1>7
  <2>3. addr <= a => addr < P * q + P
    BY <1>1, <1>2, <1>7
  <2>4. QED
    BY <1>5, <2>1, <2>2, <2>3
<1>9. q < f + l <=> a < addr + len
  <2>1. q < f + l => P * q + P <= addr + len
    <3>1. q < f + l => q + 1 < f + l \/ q + 1 = f + l
      BY <1>2
    <3>2. q + 1 < f + l => P * (q + 1) < addr + len
      BY <1>1, <1>2, <1>3, InOrder
    <3>3. q + 1 = f + l => P * (q + 1) = addr + len
      BY <1>3
    <3>4. P * q + P = P * (q + 1) /\ P * q + P \in Nat
      BY <1>1, <1>3, <1>7
    <3>5. QED
      BY <1>7, <3>1, <3>2, <3>3, <3>4
  <2>2. P * q + P <= addr + len => a < addr + len
    BY <1>1, <1>2, <1>7
  <2>3. a < addr + len => P * q < addr + len
    BY <1>1, <1>2, <1>7
  <2>4. QED
    BY <1>6, <2>1, <2>2, <2>3
<1>10. a \in Run(addr, len) <=> addr <= a /\ a < addr + len
  BY DEF Run
<1>11. PageOf(a) \in PagesOf(addr, len) <=> f <= q /\ q < f + l
  BY <1>2, <1>4 DEF PageOf, PagesOf, P, q, f, l
<1>12. QED
  BY <1>2, <1>8, <1>9, <1>10, <1>11

\* Every address has its page.
LEMMA PageOfAddress ==
  ASSUME DeviceAssumption, NEW a \in Addresses
  PROVE  PageOf(a) \in Pages
<1> DEFINE P == PageBytes
           q == a \div P
           e == (FlashBytes + P - 1) \div P
<1>1. P \in Nat \ {0} /\ FlashBytes \in Nat /\ a \in Nat /\ a < FlashBytes
      /\ FlashBytes + P - 1 \in Nat
  BY DEF DeviceAssumption, Addresses
<1>2. /\ q \in Nat /\ P * q <= a
      /\ e \in Nat /\ FlashBytes + P - 1 < P * e + P
  BY <1>1, Quotient
<1> HIDE DEF P, q, e
<1>3. P * q < P * e
  BY <1>1, <1>2
<1>4. q < e
  BY <1>1, <1>2, <1>3, InOrder
<1>5. QED
  BY <1>1, <1>2, <1>4 DEF PageOf, Pages, P, q, e

\* What an erase clears is a run of whole pages.
LEMMA SectorPages ==
  ASSUME DeviceAssumption, NEW addr \in Nat, addr % SectorBytes = 0, NEW a \in Nat
  PROVE  PageOf(a) \in PagesOf(addr, SectorBytes) <=> a \in SectorRun(addr)
<1>1. SectorBytes \in Nat /\ PageBytes \in Nat /\ PageBytes > 0 /\ SectorBytes > 0
      /\ SectorBytes % PageBytes = 0
  BY DEF DeviceAssumption
<1>2. addr % PageBytes = 0
  <2> DEFINE k == SectorBytes \div PageBytes
             s == addr \div SectorBytes
  <2>1. k \in Nat /\ SectorBytes = PageBytes * k /\ s \in Nat /\ addr = SectorBytes * s
    BY <1>1, Quotient
  <2> HIDE DEF k, s
  <2>2. addr = PageBytes * (k * s) /\ k * s \in Nat
    BY <1>1, <2>1
  <2>3. QED
    BY <1>1, <2>2, QuotientOnly
<1>3. QED
  BY <1>1, <1>2, PagesExact DEF SectorRun

\* A set of naturals has a least member.
LEMMA LeastNat ==
  ASSUME NEW T \in SUBSET Nat, T # {}
  PROVE  \E x \in T : \A y \in T : x <= y
<1> DEFINE Less == OpToRel(<, Nat)
<1>1. PICK x \in T : \A y \in T : ~(<<y, x>> \in Less)
  <2>1. IsWellFoundedOn(Less, Nat)
    BY NatLessThanWellFounded
  <2> HIDE DEF Less
  <2>2. QED
    BY <2>1, WFMin
<1>2. ASSUME NEW y \in T PROVE x <= y
  <2>1. ~(y < x)
    BY <1>1 DEF OpToRel
  <2>2. QED
    BY <2>1
<1>3. QED
  BY <1>2

---------------------------------------------------------------------------
(* The invariant.                                                          *)

Typed ==
  /\ bytes \in [Addresses -> SUBSET Bits]
  /\ expect \in [Addresses -> SUBSET Bits]
  /\ sound \subseteq Addresses
  /\ appender \in {Idle} \cup [pc : {"crc"}, block : 0 .. Blocks - 1, data : Contents]
  /\ done \in [0 .. Blocks - 1 -> {<< >>} \cup Contents]

\* A sound byte is as it was meant, and erased until its page is programmed.
AsMeant == \A a \in sound : bytes[a] = expect[a]
Fresh == \A a \in sound : PageOf(a) \notin programmed => bytes[a] = Erased

\* Between its two writes an append has programmed its block, and meant its data.
HalfWritten ==
  appender # Idle =>
    /\ BlockRun(appender.block) \subseteq Addresses
    /\ \A a \in BlockRun(appender.block) :
         /\ PageOf(a) \in programmed
         /\ expect[a] = appender.data[a - BlockBase(appender.block) + 1]

\* What a completed append wrote is there, in pages that count as programmed.
Stands(b) ==
  /\ BlockRun(b) \cup SlotRun(b) \subseteq Addresses
  /\ \A a \in BlockRun(b) \cup SlotRun(b) : PageOf(a) \in programmed
  /\ \A a \in BlockRun(b) : bytes[a] = done[b][a - BlockBase(b) + 1]
  /\ \A a \in SlotRun(b) : bytes[a] = CrcOf(done[b])[a - SlotBase(b) + 1]
Kept == \A b \in 0 .. Blocks - 1 : done[b] # << >> => Stands(b)

DeviceInv == Typed /\ AsMeant /\ Fresh /\ HalfWritten /\ Kept

---------------------------------------------------------------------------
(* What the operations do to the bytes.                                    *)

\* A program that is carried out.
Writing(addr, data) ==
  /\ ProgramViolation(addr, Len(data)) = "none"
  /\ programmed' = programmed \cup PagesOf(addr, Len(data))
  /\ bytes' = Cleared(addr, data)
  /\ expect' = Meant(addr, data)
  /\ sound' = sound

\* It is of erased pages of the device; a sound byte then holds the data.
LEMMA WritingDoes ==
  ASSUME DeviceAssumption, Typed, AsMeant, Fresh,
         NEW addr \in Nat, NEW data \in Seq(SUBSET Bits), Writing(addr, data)
  PROVE  /\ Run(addr, Len(data)) \subseteq Addresses
         /\ \A a \in Run(addr, Len(data)) :
              PageOf(a) \notin programmed /\ PageOf(a) \in programmed'
         /\ \A a \in Run(addr, Len(data)) : expect'[a] = data[a - addr + 1]
         /\ \A a \in Addresses \ Run(addr, Len(data)) :
              bytes'[a] = bytes[a] /\ expect'[a] = expect[a]
         /\ \A a \in Addresses :
              PageOf(a) \in programmed => PageOf(a) \in programmed' /\ bytes'[a] = bytes[a]
         /\ bytes' \in [Addresses -> SUBSET Bits] /\ expect' \in [Addresses -> SUBSET Bits]
         /\ sound' \subseteq Addresses
         /\ AsMeant' /\ Fresh'
<1> DEFINE len == Len(data)
           run == Run(addr, len)
<1>1. len \in Nat /\ \A i \in 1 .. len : data[i] \in SUBSET Bits
  OBVIOUS
<1>2. /\ addr % PageBytes = 0 /\ len % PageBytes = 0 /\ InBounds(addr, len)
      /\ PagesOf(addr, len) \cap programmed = {}
  BY DEF Writing, ProgramViolation
<1>3. run \subseteq Addresses
  BY <1>1, <1>2 DEF InBounds, Run, Addresses, DeviceAssumption
<1>4. \A a \in Addresses : PageOf(a) \in PagesOf(addr, len) <=> a \in run
  BY <1>1, <1>2, PagesExact DEF Addresses
<1>5. \A a \in run : PageOf(a) \notin programmed /\ PageOf(a) \in programmed'
  BY <1>2, <1>3, <1>4 DEF Writing
<1>6. \A a \in run : a - addr + 1 \in 1 .. len
  BY <1>1 DEF Run
<1>7. \A a \in run : /\ expect'[a] = data[a - addr + 1]
                     /\ bytes'[a] = bytes[a] \cap data[a - addr + 1]
  BY <1>3 DEF Writing, Meant, Cleared
<1>8. \A a \in Addresses \ run : bytes'[a] = bytes[a] /\ expect'[a] = expect[a]
  BY DEF Writing, Meant, Cleared
<1>9. \A a \in Addresses : PageOf(a) \in programmed => PageOf(a) \in programmed' /\ bytes'[a] = bytes[a]
  BY <1>5, <1>8 DEF Writing
<1>10. \A a \in Addresses : bytes'[a] \in SUBSET Bits /\ expect'[a] \in SUBSET Bits
  BY <1>1, <1>6, <1>7, <1>8 DEF Typed
<1>11. bytes' \in [Addresses -> SUBSET Bits] /\ expect' \in [Addresses -> SUBSET Bits]
  BY <1>10 DEF Writing, Cleared, Meant
<1>12. sound' \subseteq Addresses /\ sound' = sound
  BY DEF Writing, Typed
<1>13. \A a \in run \cap sound : bytes'[a] = data[a - addr + 1]
  <2>1. \A a \in run \cap sound : bytes[a] = Bits
    BY <1>5 DEF Fresh, Erased
  <2>2. QED
    BY <1>1, <1>6, <1>7, <2>1
<1>14. AsMeant'
  BY <1>7, <1>8, <1>12, <1>13 DEF AsMeant, Typed
<1>15. Fresh'
  <2>1. \A a \in sound : PageOf(a) \notin programmed' => a \notin run /\ PageOf(a) \notin programmed
    BY <1>5 DEF Writing
  <2>2. QED
    BY <1>8, <1>12, <2>1 DEF Fresh, Typed
<1>16. QED
  BY <1>3, <1>5, <1>7, <1>8, <1>9, <1>11, <1>12, <1>14, <1>15

\* A program is carried out or changes nothing.
LEMMA ProgramDoes ==
  ASSUME NEW addr, NEW data, Program(addr, data)
  PROVE  \/ Writing(addr, data)
         \/ /\ ProgramViolation(addr, Len(data)) # "none"
            /\ UNCHANGED <<bytes, programmed, expect, sound>>
  BY DEF Program, Writing

\* An erase clears its sector and no more, or changes nothing.
Clearing(addr) ==
  /\ addr % SectorBytes = 0 /\ InBounds(addr, SectorBytes)
  /\ programmed' = programmed \ PagesOf(addr, SectorBytes)
  /\ bytes' = [a \in Addresses |-> IF a \in SectorRun(addr) THEN Erased ELSE bytes[a]]
  /\ expect' = [a \in Addresses |-> IF a \in SectorRun(addr) THEN Erased ELSE expect[a]]
  /\ sound' = sound \cup SectorRun(addr)

LEMMA ClearingDoes ==
  ASSUME DeviceAssumption, Typed, AsMeant, Fresh, NEW addr \in Nat, Clearing(addr)
  PROVE  /\ \A a \in Addresses \ SectorRun(addr) :
              /\ bytes'[a] = bytes[a]
              /\ PageOf(a) \in programmed => PageOf(a) \in programmed'
         /\ bytes' \in [Addresses -> SUBSET Bits] /\ expect' \in [Addresses -> SUBSET Bits]
         /\ sound' \subseteq Addresses
         /\ AsMeant' /\ Fresh'
<1>1. SectorRun(addr) \subseteq Addresses
  BY DEF Clearing, InBounds, SectorRun, Run, Addresses, DeviceAssumption
<1>2. \A a \in Addresses : PageOf(a) \in PagesOf(addr, SectorBytes) <=> a \in SectorRun(addr)
  BY SectorPages DEF Clearing, Addresses
<1>3. bytes' \in [Addresses -> SUBSET Bits] /\ expect' \in [Addresses -> SUBSET Bits]
  BY DEF Clearing, Typed, Erased
<1>4. sound' \subseteq Addresses
  BY <1>1 DEF Clearing, Typed
<1>5. AsMeant'
  BY <1>4 DEF Clearing, AsMeant
<1>6. Fresh'
  BY <1>2, <1>4 DEF Clearing, Fresh, Typed
<1>7. QED
  BY <1>2, <1>3, <1>4, <1>5, <1>6 DEF Clearing

\* An image put in place: whole pages count as programmed, and its bytes are sound.
Placed(addr, data) == IF InBounds(addr, Len(data)) THEN Run(addr, Len(data)) ELSE {}

LEMMA InstallDoes ==
  ASSUME DeviceAssumption, Typed, AsMeant, Fresh,
         NEW addr \in Nat, NEW data \in Seq(SUBSET Bits), data # << >>, Install(addr, data)
  PROVE  /\ Placed(addr, data) \subseteq Addresses
         /\ \A a \in Placed(addr, data) : expect'[a] = data[a - addr + 1]
         /\ \A a \in Addresses \ Placed(addr, data) : bytes'[a] = bytes[a] /\ expect'[a] = expect[a]
         /\ \A a \in Addresses : PageOf(a) \in programmed => PageOf(a) \in programmed'
         /\ bytes' \in [Addresses -> SUBSET Bits] /\ expect' \in [Addresses -> SUBSET Bits]
         /\ sound' \subseteq Addresses
         /\ AsMeant' /\ Fresh'
         /\ done' = Forgotten(Placed(addr, data))
<1> DEFINE len == Len(data)
           placed == Placed(addr, data)
           last == IF addr + len = 0 THEN 0 ELSE addr + len - 1
<1>1. len \in Nat /\ len > 0 /\ \A i \in 1 .. len : data[i] \in SUBSET Bits
  OBVIOUS
<1>2. /\ bytes' = [a \in Addresses |-> IF a \in placed THEN data[a - addr + 1] ELSE bytes[a]]
      /\ expect' = [a \in Addresses |-> IF a \in placed THEN data[a - addr + 1] ELSE expect[a]]
      /\ programmed' = programmed \cup (Pages \cap (PageOf(addr) .. PageOf(last)))
      /\ sound' = sound \cup placed
      /\ done' = Forgotten(placed)
  BY DEF Install, Placed
<1>3. placed \subseteq Addresses /\ \A a \in placed : a - addr + 1 \in 1 .. len /\ addr <= a /\ a <= last
  BY <1>1 DEF Placed, InBounds, Run, Addresses, DeviceAssumption
<1>4. \A a \in placed : PageOf(a) \in programmed'
  <2>1. ASSUME NEW a \in placed PROVE PageOf(a) \in PageOf(addr) .. PageOf(last)
    <3>1. a \in Nat /\ last \in Nat /\ PageBytes \in Nat \ {0} /\ addr <= a /\ a <= last
      BY <1>1, <1>3 DEF Addresses, DeviceAssumption
    <3>2. PageOf(addr) <= PageOf(a) /\ PageOf(a) <= PageOf(last)
      BY <3>1, QuotientOrder DEF PageOf
    <3>3. PageOf(a) \in Nat /\ PageOf(addr) \in Nat /\ PageOf(last) \in Nat
      BY <3>1, Quotient DEF PageOf
    <3>4. QED
      BY <3>2, <3>3
  <2>2. QED
    BY <1>2, <1>3, <2>1, PageOfAddress
<1> HIDE DEF placed, last
<1>5. \A a \in Addresses : bytes'[a] \in SUBSET Bits /\ expect'[a] \in SUBSET Bits
  BY <1>1, <1>2, <1>3 DEF Typed
<1>6. bytes' \in [Addresses -> SUBSET Bits] /\ expect' \in [Addresses -> SUBSET Bits]
  BY <1>2, <1>5
<1>7. sound' \subseteq Addresses
  BY <1>2, <1>3 DEF Typed
<1>8. AsMeant'
  BY <1>2, <1>7 DEF AsMeant
<1>9. Fresh'
  BY <1>2, <1>4, <1>7 DEF Fresh
<1>10. QED
  BY <1>2, <1>3, <1>6, <1>7, <1>8, <1>9 DEF placed

\* Damage leaves the sound bytes and the pages alone.
LEMMA DamageDoes ==
  ASSUME Typed, AsMeant, Fresh, NEW with, Damage(with),
         \A a \in DOMAIN with : with[a] \in SUBSET Bits
  PROVE  /\ \A a \in Addresses \ DOMAIN with : bytes'[a] = bytes[a]
         /\ bytes' \in [Addresses -> SUBSET Bits]
         /\ sound' \subseteq Addresses
         /\ AsMeant' /\ Fresh'
         /\ done' = Forgotten(DOMAIN with)
         /\ UNCHANGED <<programmed, appender, expect>>
<1>1. /\ DOMAIN with \subseteq Addresses
      /\ bytes' = [a \in Addresses |-> IF a \in DOMAIN with THEN with[a] ELSE bytes[a]]
      /\ sound' = sound \ DOMAIN with
      /\ done' = Forgotten(DOMAIN with)
      /\ UNCHANGED <<programmed, appender, expect>>
  BY DEF Damage, Overwritten
<1>2. bytes' \in [Addresses -> SUBSET Bits] /\ sound' \subseteq Addresses
  BY <1>1 DEF Typed
<1>3. AsMeant' /\ Fresh'
  BY <1>1, <1>2 DEF AsMeant, Fresh, Typed
<1>4. QED
  BY <1>1, <1>2, <1>3

\* A write torn at the start of a tail erases the tail, and is meant to.
TailOf(start, len, written) == Run(start + written, len - written)

LEMMA TearDoes ==
  ASSUME Typed, AsMeant, Fresh, NEW start, NEW len, NEW written, TearWrite(start, len, written)
  PROVE  /\ \A a \in Addresses \ TailOf(start, len, written) :
              bytes'[a] = bytes[a] /\ expect'[a] = expect[a]
         /\ \A a \in Addresses \cap TailOf(start, len, written) : expect'[a] = Erased
         /\ bytes' \in [Addresses -> SUBSET Bits] /\ expect' \in [Addresses -> SUBSET Bits]
         /\ sound' \subseteq Addresses
         /\ AsMeant' /\ Fresh'
         /\ done' = Forgotten(TailOf(start, len, written))
         /\ UNCHANGED programmed
<1> DEFINE tail == TailOf(start, len, written)
<1>1. /\ bytes' = [a \in Addresses |-> IF a \in tail THEN Erased ELSE bytes[a]]
      /\ expect' = [a \in Addresses |-> IF a \in tail THEN Erased ELSE expect[a]]
      /\ done' = Forgotten(tail) /\ sound' = sound /\ programmed' = programmed
  BY DEF TearWrite, TailOf, Overwritten
<1> HIDE DEF tail
<1>2. bytes' \in [Addresses -> SUBSET Bits] /\ expect' \in [Addresses -> SUBSET Bits]
      /\ sound' \subseteq Addresses
  BY <1>1 DEF Typed, Erased
<1>3. AsMeant' /\ Fresh'
  BY <1>1 DEF AsMeant, Fresh, Typed
<1>4. QED
  BY <1>1, <1>2, <1>3 DEF tail

---------------------------------------------------------------------------
(* What stands is kept.                                                    *)

\* A block is forgotten when a run meets it, and otherwise left as it is.
LEMMA ForgottenDoes ==
  ASSUME Typed, NEW run, done' = Forgotten(run)
  PROVE  /\ done' \in [0 .. Blocks - 1 -> {<< >>} \cup Contents]
         /\ \A b \in 0 .. Blocks - 1 :
              done'[b] # << >> =>
                done'[b] = done[b] /\ \A a \in BlockRun(b) \cup SlotRun(b) : a \notin run
<1>1. DOMAIN done = 0 .. Blocks - 1
  BY DEF Typed
<1>2. \A b \in 0 .. Blocks - 1 :
        done'[b] = IF (BlockRun(b) \cup SlotRun(b)) \cap run = {} THEN done[b] ELSE << >>
  BY <1>1 DEF Forgotten
<1>3. done' \in [0 .. Blocks - 1 -> {<< >>} \cup Contents]
  BY <1>1 DEF Forgotten, Typed
<1>4. QED
  BY <1>2, <1>3

\* What a step neither forgets nor touches still stands.
LEMMA KeptStays ==
  ASSUME Kept,
         \A b \in 0 .. Blocks - 1 :
           done'[b] # << >> =>
             /\ done'[b] = done[b]
             /\ \A a \in (BlockRun(b) \cup SlotRun(b)) \cap Addresses :
                  PageOf(a) \in programmed => bytes'[a] = bytes[a] /\ PageOf(a) \in programmed'
  PROVE  Kept'
<1>1. SUFFICES ASSUME NEW b \in 0 .. Blocks - 1, done'[b] # << >> PROVE Stands(b)'
  BY DEF Kept
<1>2. done'[b] = done[b] /\ Stands(b)
  BY <1>1 DEF Kept
<1>3. \A a \in BlockRun(b) \cup SlotRun(b) : bytes'[a] = bytes[a] /\ PageOf(a) \in programmed'
  BY <1>1, <1>2 DEF Stands
<1>4. QED
  BY <1>2, <1>3 DEF Stands, BlockRun, SlotRun, BlockBase, SlotBase

\* A program is of pages that nothing that stands lies in.
LEMMA WritingKeeps ==
  ASSUME DeviceAssumption, DeviceInv, NEW addr \in Nat, NEW data \in Seq(SUBSET Bits),
         Writing(addr, data), done' = done
  PROVE  Kept'
<1>1. \A a \in Addresses :
        PageOf(a) \in programmed => PageOf(a) \in programmed' /\ bytes'[a] = bytes[a]
  BY WritingDoes DEF DeviceInv
<1>2. QED
  BY <1>1, KeptStays DEF DeviceInv

\* A block lies where its address says.
LEMMA BasesNat ==
  ASSUME DeviceAssumption, NEW b \in 0 .. Blocks - 1
  PROVE  BlockBase(b) \in Nat /\ SlotBase(b) \in Nat
<1>1. b * BlockBytes \in Nat /\ b * SlotBytes \in Nat
  BY DEF DeviceAssumption
<1>2. QED
  BY <1>1 DEF DeviceAssumption, BlockBase, SlotBase

\* The head is a block, or there is none.
LEMMA HeadIsBlock ==
  ASSUME DeviceAssumption
  PROVE  FindHead \in 0 .. Blocks
<1> DEFINE T == {h \in 0 .. Blocks : h < Blocks => AllErased(BlockAt(h))}
<1>1. Blocks \in T /\ T \in SUBSET Nat
  BY DEF DeviceAssumption
<1>2. PICK h \in T : \A y \in T : h <= y
  BY <1>1, LeastNat
<1>3. \A b \in 0 .. h - 1 : ~AllErased(BlockAt(b))
  BY <1>1, <1>2 DEF DeviceAssumption
<1>4. QED
  BY <1>2, <1>3 DEF FindHead

---------------------------------------------------------------------------
(* Every step keeps the invariant.                                         *)

LEMMA OtherProgramStep ==
  ASSUME DeviceAssumption, DeviceInv, appender = Idle, NEW addr \in Scratch, NEW data \in Writes,
         Program(addr, data), UNCHANGED <<appender, done>>
  PROVE  DeviceInv'
<1>1. addr \in Nat /\ data \in Seq(SUBSET Bits)
  BY DEF DeviceAssumption
<1>2. HalfWritten'
  BY DEF HalfWritten
<1>3. CASE Writing(addr, data)
  <2>1. Kept'
    BY <1>1, <1>3, WritingKeeps
  <2>2. QED
    BY <1>1, <1>2, <1>3, <2>1, WritingDoes DEF DeviceInv, Typed
<1>4. CASE UNCHANGED <<bytes, programmed, expect, sound>>
  BY <1>2, <1>4 DEF DeviceInv, Typed, AsMeant, Fresh, Kept, Stands
<1>5. QED
  BY <1>3, <1>4, ProgramDoes

LEMMA InstallStep ==
  ASSUME DeviceAssumption, DeviceInv, appender = Idle, NEW addr \in Scratch, NEW data \in Writes,
         Install(addr, data)
  PROVE  DeviceInv'
<1>1. addr \in Nat /\ data \in Seq(SUBSET Bits) /\ data # << >>
  BY DEF DeviceAssumption
<1>2. appender' = appender
  BY DEF Install
<1>3. HalfWritten'
  BY <1>2 DEF HalfWritten
<1>4. /\ \A a \in Addresses \ Placed(addr, data) : bytes'[a] = bytes[a]
      /\ \A a \in Addresses : PageOf(a) \in programmed => PageOf(a) \in programmed'
      /\ bytes' \in [Addresses -> SUBSET Bits] /\ expect' \in [Addresses -> SUBSET Bits]
      /\ sound' \subseteq Addresses
      /\ AsMeant' /\ Fresh'
      /\ done' = Forgotten(Placed(addr, data))
  BY <1>1, InstallDoes DEF DeviceInv
<1>5. /\ done' \in [0 .. Blocks - 1 -> {<< >>} \cup Contents]
      /\ \A b \in 0 .. Blocks - 1 :
           done'[b] # << >> =>
             done'[b] = done[b] /\ \A a \in BlockRun(b) \cup SlotRun(b) : a \notin Placed(addr, data)
  BY <1>4, ForgottenDoes DEF DeviceInv
<1>6. Kept'
  BY <1>4, <1>5, KeptStays DEF DeviceInv
<1>7. QED
  BY <1>2, <1>3, <1>4, <1>5, <1>6 DEF DeviceInv, Typed

LEMMA EraseStep ==
  ASSUME DeviceAssumption, DeviceInv, appender = Idle, NEW addr \in Addresses, Erase(addr)
  PROVE  DeviceInv'
<1>1. addr \in Nat /\ appender' = appender
  BY DEF Addresses, Erase
<1>2. HalfWritten'
  BY <1>1 DEF HalfWritten
<1>3. CASE EraseViolation(addr) = "none"
  <2>1. Clearing(addr) /\ done' = Forgotten(SectorRun(addr))
    BY <1>3 DEF Erase, EraseViolation, Clearing
  <2>2. /\ \A a \in Addresses \ SectorRun(addr) :
             /\ bytes'[a] = bytes[a]
             /\ PageOf(a) \in programmed => PageOf(a) \in programmed'
        /\ bytes' \in [Addresses -> SUBSET Bits] /\ expect' \in [Addresses -> SUBSET Bits]
        /\ sound' \subseteq Addresses
        /\ AsMeant' /\ Fresh'
    BY <1>1, <2>1, ClearingDoes DEF DeviceInv
  <2>3. /\ done' \in [0 .. Blocks - 1 -> {<< >>} \cup Contents]
        /\ \A b \in 0 .. Blocks - 1 :
             done'[b] # << >> =>
               done'[b] = done[b] /\ \A a \in BlockRun(b) \cup SlotRun(b) : a \notin SectorRun(addr)
    BY <2>1, ForgottenDoes DEF DeviceInv
  <2>4. Kept'
    BY <2>2, <2>3, KeptStays DEF DeviceInv
  <2>5. QED
    BY <1>1, <1>2, <2>2, <2>3, <2>4 DEF DeviceInv, Typed
<1>4. CASE EraseViolation(addr) # "none"
  <2>1. UNCHANGED <<bytes, programmed, expect, sound, done>>
    BY <1>4 DEF Erase
  <2>2. QED
    BY <1>1, <1>2, <2>1 DEF DeviceInv, Typed, AsMeant, Fresh, Kept, Stands
<1>5. QED
  BY <1>3, <1>4

LEMMA DamageStep ==
  ASSUME DeviceAssumption, DeviceInv, NEW with, Damage(with),
         \A a \in DOMAIN with : with[a] \in SUBSET Bits
  PROVE  DeviceInv'
<1>1. /\ \A a \in Addresses \ DOMAIN with : bytes'[a] = bytes[a]
      /\ bytes' \in [Addresses -> SUBSET Bits]
      /\ sound' \subseteq Addresses
      /\ AsMeant' /\ Fresh'
      /\ done' = Forgotten(DOMAIN with)
      /\ programmed' = programmed /\ appender' = appender /\ expect' = expect
  BY DamageDoes DEF DeviceInv
<1>2. HalfWritten'
  BY <1>1 DEF DeviceInv, HalfWritten, BlockRun, BlockBase
<1>3. /\ done' \in [0 .. Blocks - 1 -> {<< >>} \cup Contents]
      /\ \A b \in 0 .. Blocks - 1 :
           done'[b] # << >> =>
             done'[b] = done[b] /\ \A a \in BlockRun(b) \cup SlotRun(b) : a \notin DOMAIN with
  BY <1>1, ForgottenDoes DEF DeviceInv
<1>4. Kept'
  BY <1>1, <1>3, KeptStays DEF DeviceInv
<1>5. QED
  BY <1>1, <1>2, <1>3, <1>4 DEF DeviceInv, Typed

LEMMA StartStep ==
  ASSUME DeviceAssumption, DeviceInv, NEW data \in Contents, StartAppend(data)
  PROVE  DeviceInv'
<1> DEFINE h == FindHead
<1>1. h \in 0 .. Blocks - 1
  BY HeadIsBlock DEF StartAppend, DeviceAssumption
<1>2. data \in Seq(SUBSET Bits) /\ Len(data) = BlockBytes /\ BlockBase(h) \in Nat
  BY <1>1, BasesNat DEF DeviceAssumption
<1>3. Program(BlockBase(h), data) /\ done' = done
  BY DEF StartAppend
<1> HIDE DEF h
<1>4. CASE Writing(BlockBase(h), data)
  <2>1. appender' = [pc |-> "crc", block |-> h, data |-> data]
    BY <1>4 DEF StartAppend, Writing, h
  <2>2. Kept'
    BY <1>2, <1>3, <1>4, WritingKeeps
  <2>3. /\ BlockRun(h) \subseteq Addresses
        /\ \A a \in BlockRun(h) : PageOf(a) \in programmed'
        /\ \A a \in BlockRun(h) : expect'[a] = data[a - BlockBase(h) + 1]
        /\ bytes' \in [Addresses -> SUBSET Bits] /\ expect' \in [Addresses -> SUBSET Bits]
        /\ sound' \subseteq Addresses
        /\ AsMeant' /\ Fresh'
    BY <1>2, <1>4, WritingDoes DEF DeviceInv, BlockRun
  <2>4. HalfWritten'
    BY <2>1, <2>3 DEF HalfWritten, BlockRun, BlockBase, Addresses
  <2>5. Typed'
    BY <1>1, <1>3, <2>1, <2>3 DEF DeviceInv, Typed
  <2>6. QED
    BY <2>2, <2>3, <2>4, <2>5 DEF DeviceInv
<1>5. CASE /\ ProgramViolation(BlockBase(h), Len(data)) # "none"
           /\ UNCHANGED <<bytes, programmed, expect, sound>>
  <2>1. appender' = Idle
    BY <1>5 DEF StartAppend, h
  <2>2. QED
    BY <1>3, <1>5, <2>1 DEF DeviceInv, Typed, AsMeant, Fresh, HalfWritten, Kept, Stands
<1>6. QED
  BY <1>3, <1>4, <1>5, ProgramDoes

LEMMA FinishStep ==
  ASSUME DeviceAssumption, DeviceInv, FinishAppend
  PROVE  DeviceInv'
<1>0. PICK b \in 0 .. Blocks - 1, data \in Contents :
        appender # Idle /\ appender.block = b /\ appender.data = data
  BY DEF FinishAppend, DeviceInv, Typed
<1> DEFINE crc == CrcOf(data)
<1>1. /\ crc \in Seq(SUBSET Bits) /\ Len(crc) = SlotBytes /\ data # << >>
      /\ SlotBase(b) \in Nat
  BY BasesNat DEF DeviceAssumption
<1>2. Program(SlotBase(b), crc) /\ appender' = Idle
  BY <1>0 DEF FinishAppend
<1>3. HalfWritten'
  BY <1>2 DEF HalfWritten
<1>4. CASE Writing(SlotBase(b), crc)
  <2>1. /\ Run(SlotBase(b), SlotBytes) \subseteq Addresses
        /\ \A a \in Run(SlotBase(b), SlotBytes) :
             PageOf(a) \notin programmed /\ PageOf(a) \in programmed'
        /\ \A a \in Run(SlotBase(b), SlotBytes) : expect'[a] = crc[a - SlotBase(b) + 1]
        /\ \A a \in Addresses \ Run(SlotBase(b), SlotBytes) : expect'[a] = expect[a]
        /\ \A a \in Addresses :
             PageOf(a) \in programmed => PageOf(a) \in programmed' /\ bytes'[a] = bytes[a]
        /\ bytes' \in [Addresses -> SUBSET Bits] /\ expect' \in [Addresses -> SUBSET Bits]
        /\ sound' \subseteq Addresses
        /\ AsMeant' /\ Fresh'
    BY <1>1, <1>4, WritingDoes DEF DeviceInv
  <2>2. sound' = sound
    BY <1>4 DEF Writing
  <2>3. CASE BlockRun(b) \cup SlotRun(b) \subseteq sound
    <3>1. done' = [done EXCEPT ![b] = data]
      BY <1>0, <1>1, <1>4, <2>3 DEF FinishAppend, Writing
    <3>2. done' \in [0 .. Blocks - 1 -> {<< >>} \cup Contents]
      BY <1>1, <3>1 DEF DeviceInv, Typed
    <3>3. done'[b] = data /\ \A c \in 0 .. Blocks - 1 : c # b => done'[c] = done[c]
      BY <1>1, <3>1 DEF DeviceInv, Typed
    <3>4. \A a \in BlockRun(b) :
            /\ a \in Addresses /\ a \in sound /\ PageOf(a) \in programmed
            /\ expect[a] = data[a - BlockBase(b) + 1]
      BY <1>0, <1>1, <2>3 DEF DeviceInv, HalfWritten
    <3>5. \A a \in BlockRun(b) :
            PageOf(a) \in programmed' /\ bytes'[a] = data[a - BlockBase(b) + 1]
      BY <2>1, <3>4 DEF DeviceInv, AsMeant
    <3>6. \A a \in SlotRun(b) :
            /\ a \in Addresses /\ PageOf(a) \in programmed'
            /\ bytes'[a] = crc[a - SlotBase(b) + 1]
      BY <2>1, <2>2, <2>3 DEF SlotRun, AsMeant
    <3>7. Stands(b)'
      BY <3>3, <3>4, <3>5, <3>6 DEF Stands, Addresses, BlockRun, SlotRun, BlockBase, SlotBase
    <3>8. ASSUME NEW c \in 0 .. Blocks - 1, c # b, done'[c] # << >> PROVE Stands(c)'
      <4>1. done'[c] = done[c] /\ Stands(c)
        BY <3>3, <3>8 DEF DeviceInv, Kept
      <4>2. \A a \in BlockRun(c) \cup SlotRun(c) :
              a \in Addresses /\ bytes'[a] = bytes[a] /\ PageOf(a) \in programmed'
        BY <2>1, <4>1 DEF Stands
      <4>3. QED
        BY <4>1, <4>2 DEF Stands, BlockRun, SlotRun, BlockBase, SlotBase, Addresses
    <3>9. Kept'
      BY <3>7, <3>8 DEF Kept
    <3>10. QED
      BY <1>2, <1>3, <2>1, <3>2, <3>9 DEF DeviceInv, Typed
  <2>4. CASE ~(BlockRun(b) \cup SlotRun(b) \subseteq sound)
    <3>1. done' = done
      BY <1>0, <2>4 DEF FinishAppend
    <3>2. Kept'
      BY <1>1, <1>4, <3>1, WritingKeeps
    <3>3. QED
      BY <1>2, <1>3, <2>1, <3>1, <3>2 DEF DeviceInv, Typed
  <2>5. QED
    BY <2>3, <2>4
<1>5. CASE /\ ProgramViolation(SlotBase(b), Len(crc)) # "none"
           /\ UNCHANGED <<bytes, programmed, expect, sound>>
  <2>1. done' = done
    BY <1>0, <1>1, <1>5 DEF FinishAppend
  <2>2. QED
    BY <1>2, <1>3, <1>5, <2>1 DEF DeviceInv, Typed, AsMeant, Fresh, Kept, Stands
<1>6. QED
  BY <1>2, <1>4, <1>5, ProgramDoes

LEMMA LosePowerStep ==
  ASSUME DeviceAssumption, DeviceInv, LosePower
  PROVE  DeviceInv'
<1>1. PICK written \in 0 .. BlockBytes :
        TearWrite(BlockBase(appender.block), BlockBytes, written)
  BY DEF LosePower
<1>2. appender' = Idle
  BY DEF LosePower
<1> DEFINE tail == TailOf(BlockBase(appender.block), BlockBytes, written)
<1>3. /\ \A a \in Addresses \ tail : bytes'[a] = bytes[a]
      /\ bytes' \in [Addresses -> SUBSET Bits] /\ expect' \in [Addresses -> SUBSET Bits]
      /\ sound' \subseteq Addresses
      /\ AsMeant' /\ Fresh'
      /\ done' = Forgotten(tail)
      /\ programmed' = programmed
  BY <1>1, TearDoes DEF DeviceInv
<1> HIDE DEF tail
<1>4. /\ done' \in [0 .. Blocks - 1 -> {<< >>} \cup Contents]
      /\ \A b \in 0 .. Blocks - 1 :
           done'[b] # << >> =>
             done'[b] = done[b] /\ \A a \in BlockRun(b) \cup SlotRun(b) : a \notin tail
  BY <1>3, ForgottenDoes DEF DeviceInv
<1>5. Kept'
  BY <1>3, <1>4, KeptStays DEF DeviceInv
<1>6. QED
  BY <1>2, <1>3, <1>4, <1>5 DEF DeviceInv, Typed, HalfWritten

\* A torn digest is data of the digest's length.
LEMMA TornType ==
  ASSUME NEW data \in Seq(SUBSET Bits), NEW written
  PROVE  Torn(data, written) \in Seq(SUBSET Bits) /\ Len(Torn(data, written)) = Len(data)
<1>1. \A i \in 1 .. Len(data) : (IF i <= written THEN data[i] ELSE Erased) \in SUBSET Bits
  BY DEF Erased
<1>2. QED
  BY <1>1 DEF Torn

LEMMA LoseDigestStep ==
  ASSUME DeviceAssumption, DeviceInv, NEW written \in 0 .. SlotBytes, LosePowerInDigest(written)
  PROVE  DeviceInv'
<1> DEFINE b == appender.block
           torn == Torn(CrcOf(appender.data), written)
<1>1. appender # Idle /\ b \in 0 .. Blocks - 1 /\ appender.data \in Contents
  BY DEF LosePowerInDigest, DeviceInv, Typed
<1>2. SlotBase(b) \in Nat /\ torn \in Seq(SUBSET Bits) /\ Len(torn) = SlotBytes
  BY <1>1, BasesNat, TornType DEF DeviceAssumption
<1>3. Writing(SlotBase(b), torn) /\ appender' = Idle /\ done' = done
  BY <1>2 DEF LosePowerInDigest, Writing
<1>4. Kept'
  BY <1>2, <1>3, WritingKeeps
<1>5. HalfWritten'
  BY <1>3 DEF HalfWritten
<1>6. QED
  BY <1>2, <1>3, <1>4, <1>5, WritingDoes DEF DeviceInv, Typed

\* A damaging fill is of bytes.
LEMMA FillWithin ==
  ASSUME DeviceAssumption, NEW b \in 0 .. Blocks - 1, NEW fill \in Writes,
         NEW a \in Run(BlockBase(b), BlockBytes)
  PROVE  fill[((a - BlockBase(b)) % Len(fill)) + 1] \in SUBSET Bits
<1> DEFINE i == a - BlockBase(b)
           n == Len(fill)
<1>1. fill \in Seq(SUBSET Bits) /\ fill # << >>
  BY DEF DeviceAssumption
<1>2. n \in Nat \ {0} /\ \A k \in 1 .. n : fill[k] \in SUBSET Bits
  BY <1>1
<1>3. i \in Nat
  BY BasesNat DEF Run, DeviceAssumption
<1> HIDE DEF i, n
<1>4. i \div n \in Nat /\ n * (i \div n) <= i /\ i < n * (i \div n) + n /\ i % n = i - n * (i \div n)
  BY <1>2, <1>3, Quotient
<1>5. n * (i \div n) \in Nat
  BY <1>2, <1>4
<1>6. (i % n) + 1 \in 1 .. n
  BY <1>2, <1>3, <1>4, <1>5
<1>7. QED
  BY <1>2, <1>6 DEF i, n

LEMMA InitHolds ==
  ASSUME DeviceAssumption, DeviceInit
  PROVE  DeviceInv
  BY DEF DeviceAssumption, DeviceInit, DeviceInv, Typed, AsMeant, Fresh, HalfWritten, Kept, Erased, Idle

LEMMA InvStep ==
  ASSUME DeviceAssumption, DeviceInv, [DeviceNext]_deviceVars
  PROVE  DeviceInv'
<1>1. CASE OtherWriter
  <2>1. CASE \E addr \in Scratch, data \in Writes :
               Program(addr, data) /\ UNCHANGED <<appender, done>>
    BY <1>1, <2>1, OtherProgramStep DEF OtherWriter
  <2>2. CASE \E addr \in Scratch, data \in Writes : Install(addr, data)
    BY <1>1, <2>2, InstallStep DEF OtherWriter
  <2>3. CASE \E addr \in Addresses : erases[addr \div SectorBytes] <= Endurance /\ Erase(addr)
    BY <1>1, <2>3, EraseStep DEF OtherWriter
  <2>4. QED
    BY <1>1, <2>1, <2>2, <2>3 DEF OtherWriter
<1>2. CASE \E addr \in Addresses, bit \in Bits : FlipBit(addr, bit)
  <2>1. PICK addr \in Addresses, bit \in Bits : FlipBit(addr, bit)
    BY <1>2
  <2>2. bytes[addr] \in SUBSET Bits
    BY DEF DeviceInv, Typed
  <2>3. QED
    BY <2>1, <2>2, DamageStep DEF FlipBit
<1>3. CASE \E b \in 0 .. Blocks - 1, data \in Writes : CorruptBlock(BlockBase(b), BlockBytes, data)
  <2>1. PICK b \in 0 .. Blocks - 1, data \in Writes : CorruptBlock(BlockBase(b), BlockBytes, data)
    BY <1>3
  <2> DEFINE with == [a \in Run(BlockBase(b), BlockBytes) |->
                        data[((a - BlockBase(b)) % Len(data)) + 1]]
  <2>2. Damage(with)
    BY <2>1 DEF CorruptBlock
  <2>3. \A a \in DOMAIN with : with[a] \in SUBSET Bits
    BY FillWithin
  <2> HIDE DEF with
  <2>4. QED
    BY <2>2, <2>3, DamageStep
<1>4. CASE \E sector \in Sectors : KillSector(sector)
  <2>1. PICK sector \in Sectors : KillSector(sector)
    BY <1>4
  <2> DEFINE with == [a \in Run(sector * SectorBytes, SectorBytes) |-> {}]
  <2>2. Damage(with) /\ \A a \in DOMAIN with : with[a] \in SUBSET Bits
    BY <2>1 DEF KillSector
  <2> HIDE DEF with
  <2>3. QED
    BY <2>2, DamageStep
<1>5. CASE \E data \in Contents : StartAppend(data)
  BY <1>5, StartStep
<1>6. CASE FinishAppend
  BY <1>6, FinishStep
<1>7. CASE LosePower
  BY <1>7, LosePowerStep
<1>8. CASE \E written \in 0 .. SlotBytes : LosePowerInDigest(written)
  BY <1>8, LoseDigestStep
<1>9. CASE UNCHANGED deviceVars
  BY <1>9 DEF deviceVars, DeviceInv, Typed, AsMeant, Fresh, HalfWritten, Kept, Stands
<1>10. QED
  BY <1>1, <1>2, <1>3, <1>4, <1>5, <1>6, <1>7, <1>8, <1>9 DEF DeviceNext

---------------------------------------------------------------------------
(* What the invariant says of the blocks.                                  *)

\* A run of bytes read back is data when every byte is.
LEMMA ReadIs ==
  ASSUME NEW at \in Nat, NEW data \in Seq(SUBSET Bits),
         \A a \in Run(at, Len(data)) : bytes[a] = data[a - at + 1]
  PROVE  Read(at, Len(data)) = data
<1>1. \A i \in 1 .. Len(data) : at + i - 1 \in Run(at, Len(data)) /\ at + i - 1 - at + 1 = i
  BY DEF Run
<1>2. \A i \in 1 .. Len(data) : bytes[at + i - 1] = data[i]
  BY <1>1
<1>3. data = [i \in 1 .. Len(data) |-> data[i]]
  OBVIOUS
<1>4. QED
  BY <1>2, <1>3 DEF Read

LEMMA InvReads == DeviceInv => ReadsBack
  BY DEF DeviceInv, AsMeant, ReadsBack, WindowAt

LEMMA InvKeeps ==
  ASSUME DeviceAssumption, DeviceInv
  PROVE  AppendedKept
<1>1. SUFFICES ASSUME NEW b \in 0 .. Blocks - 1, done[b] # << >>
               PROVE  BlockAt(b) = done[b] /\ SlotAt(b) = CrcOf(done[b])
  BY DEF AppendedKept
<1>2. Stands(b) /\ done[b] \in Contents
  BY <1>1 DEF DeviceInv, Kept, Typed
<1>3. /\ done[b] \in Seq(SUBSET Bits) /\ Len(done[b]) = BlockBytes
      /\ CrcOf(done[b]) \in Seq(SUBSET Bits) /\ Len(CrcOf(done[b])) = SlotBytes
      /\ BlockBase(b) \in Nat /\ SlotBase(b) \in Nat
  BY <1>2, BasesNat DEF DeviceAssumption
<1>4. BlockAt(b) = done[b]
  BY <1>2, <1>3, ReadIs DEF Stands, BlockAt, BlockRun
<1>5. SlotAt(b) = CrcOf(done[b])
  BY <1>2, <1>3, ReadIs DEF Stands, SlotAt, SlotRun
<1>6. QED
  BY <1>4, <1>5

---------------------------------------------------------------------------
(* Where the blocks and their digests lie.                                 *)

\* Cells of one width lie apart and inside their array.
LEMMA CellsApart ==
  ASSUME NEW base \in Nat, NEW w \in Nat \ {0}, NEW b \in Nat, NEW c \in Nat, b < c
  PROVE  base + b * w + w <= base + c * w
<1>1. w * (b + 1) <= w * c
  <2>1. b + 1 < c \/ b + 1 = c
    OBVIOUS
  <2>2. b + 1 < c => w * (b + 1) < w * c
    BY InOrder
  <2>3. w * (b + 1) \in Int /\ w * c \in Int
    OBVIOUS
  <2>4. QED
    BY <2>1, <2>2, <2>3
<1>2. w * (b + 1) = b * w + w /\ w * c = c * w
  OBVIOUS
<1>3. b * w \in Nat /\ c * w \in Nat
  OBVIOUS
<1>4. QED
  BY <1>1, <1>2, <1>3

\* A cell of an array that starts on a sector, of a width that divides one, lies in one.
LEMMA CellInSector ==
  ASSUME NEW sector \in Nat \ {0}, NEW base \in Nat, base % sector = 0,
         NEW w \in Nat \ {0}, sector % w = 0, NEW b \in Nat,
         NEW addr \in Nat, addr % sector = 0
  PROVE  \/ Run(base + b * w, w) \subseteq Run(addr, sector)
         \/ Run(base + b * w, w) \cap Run(addr, sector) = {}
<1>1. PICK k \in Nat : sector = w * k
  BY Multiple
<1>2. PICK p \in Nat : base = sector * p
  BY Multiple
<1>3. PICK q \in Nat : addr = sector * q
  BY Multiple
<1> DEFINE m == k * p + b
           n == k * q
<1>4. m \in Nat /\ n \in Nat
  BY <1>1, <1>2, <1>3
<1>5. base + b * w = w * m
  <2>1. base = w * (k * p)
    BY <1>1, <1>2
  <2>2. w * (k * p) + b * w = w * (k * p + b)
    BY <1>1, <1>2
  <2>3. QED
    BY <2>1, <2>2
<1>6. addr = w * n /\ addr + sector = w * (n + k)
  <2>1. addr = w * (k * q)
    BY <1>1, <1>3
  <2>2. w * (k * q) + w * k = w * (k * q + k)
    BY <1>1, <1>3
  <2>3. QED
    BY <1>1, <2>1, <2>2
<1> HIDE DEF m, n
<1>7. w * m + w = w * (m + 1) /\ w * m \in Nat
  BY <1>4
<1>8. CASE m < n
  <2>1. m + 1 < n => w * (m + 1) < w * n
    BY <1>4, InOrder
  <2>2. w * m + w <= addr
    BY <1>4, <1>6, <1>7, <1>8, <2>1
  <2>3. QED
    BY <1>5, <1>7, <2>2 DEF Run
<1>9. CASE ~(m < n + k)
  <2>1. n + k < m => w * (n + k) < w * m
    BY <1>1, <1>4, InOrder
  <2>2. addr + sector <= w * m
    BY <1>1, <1>4, <1>6, <1>7, <1>9, <2>1
  <2>3. QED
    BY <1>5, <1>7, <2>2 DEF Run
<1>10. CASE n <= m /\ m < n + k
  <2>1. n < m => w * n < w * m
    BY <1>4, InOrder
  <2>2. m + 1 < n + k => w * (m + 1) < w * (n + k)
    BY <1>1, <1>4, InOrder
  <2>3. addr <= w * m
    BY <1>4, <1>6, <1>7, <1>10, <2>1
  <2>4. w * m + w <= addr + sector
    BY <1>1, <1>4, <1>6, <1>7, <1>10, <2>2
  <2>5. QED
    BY <1>5, <1>7, <2>3, <2>4 DEF Run
<1>11. QED
  BY <1>1, <1>4, <1>8, <1>9, <1>10

\* No two blocks, no two slots and no block and slot share a byte.
LEMMA RunsApart ==
  ASSUME DeviceAssumption, RegionsApart, NEW b \in 0 .. Blocks - 1, NEW c \in 0 .. Blocks - 1
  PROVE  /\ BlockRun(b) \subseteq Addresses /\ SlotRun(b) \subseteq Addresses
         /\ BlockRun(b) \cap SlotRun(c) = {}
         /\ b # c => BlockRun(b) \cap BlockRun(c) = {} /\ SlotRun(b) \cap SlotRun(c) = {}
<1>1. /\ PayloadBase \in Nat /\ CrcBase \in Nat /\ Blocks \in Nat /\ FlashBytes \in Nat
      /\ BlockBytes \in Nat \ {0} /\ SlotBytes \in Nat \ {0} /\ b \in Nat /\ c \in Nat
      /\ BlockBase(b) \in Nat /\ BlockBase(c) \in Nat /\ SlotBase(b) \in Nat /\ SlotBase(c) \in Nat
  BY BasesNat DEF DeviceAssumption
<1>2. \A x \in 0 .. Blocks - 1 :
        /\ PayloadBase <= BlockBase(x)
        /\ BlockBase(x) + BlockBytes <= PayloadBase + Blocks * BlockBytes
        /\ CrcBase <= SlotBase(x)
        /\ SlotBase(x) + SlotBytes <= CrcBase + Blocks * SlotBytes
  <2>1. TAKE x \in 0 .. Blocks - 1
  <2>2. x \in Nat /\ x < Blocks /\ x * BlockBytes \in Nat /\ x * SlotBytes \in Nat
    BY <1>1
  <2>3. PayloadBase + x * BlockBytes + BlockBytes <= PayloadBase + Blocks * BlockBytes
    BY <1>1, <2>2, CellsApart
  <2>4. CrcBase + x * SlotBytes + SlotBytes <= CrcBase + Blocks * SlotBytes
    BY <1>1, <2>2, CellsApart
  <2>5. QED
    BY <1>1, <2>2, <2>3, <2>4 DEF BlockBase, SlotBase
<1>3. Blocks * BlockBytes \in Nat /\ Blocks * SlotBytes \in Nat
  BY <1>1
<1>4. BlockRun(b) \subseteq Addresses /\ SlotRun(b) \subseteq Addresses
  BY <1>1, <1>2, <1>3 DEF RegionsApart, BlockRun, SlotRun, Run, Addresses
<1>5. BlockRun(b) \cap SlotRun(c) = {}
  BY <1>1, <1>2, <1>3 DEF RegionsApart, BlockRun, SlotRun, Run
<1>6. ASSUME b # c PROVE BlockRun(b) \cap BlockRun(c) = {} /\ SlotRun(b) \cap SlotRun(c) = {}
  <2>1. b < c \/ c < b
    BY <1>1, <1>6
  <2>2. BlockBase(b) + BlockBytes <= BlockBase(c) \/ BlockBase(c) + BlockBytes <= BlockBase(b)
    BY <1>1, <2>1, CellsApart DEF BlockBase
  <2>3. SlotBase(b) + SlotBytes <= SlotBase(c) \/ SlotBase(c) + SlotBytes <= SlotBase(b)
    BY <1>1, <2>1, CellsApart DEF SlotBase
  <2>4. QED
    BY <1>1, <2>2, <2>3 DEF BlockRun, SlotRun, Run
<1>7. QED
  BY <1>4, <1>5, <1>6

---------------------------------------------------------------------------
(* What a block and its slot are meant to hold, under a digest that tells. *)

MeantRun(at, len) == [i \in 1 .. len |-> expect[at + i - 1]]
Shapes(held, slots) ==
  \A b \in 0 .. Blocks - 1 :
    /\ MeantRun(BlockBase(b), BlockBytes) \in held[b]
    /\ MeantRun(SlotBase(b), SlotBytes) \in slots[b]

\* The next meaning of a run, by what a step means its bytes to hold.
NextRun(at, len) == [i \in 1 .. len |-> expect'[at + i - 1]]

LEMMA RunSame ==
  ASSUME NEW at \in Nat, NEW len \in Nat, \A a \in Run(at, len) : expect'[a] = expect[a]
  PROVE  NextRun(at, len) = MeantRun(at, len)
<1>1. \A i \in 1 .. len : at + i - 1 \in Run(at, len)
  BY DEF Run
<1>2. QED
  BY <1>1 DEF NextRun, MeantRun

LEMMA RunBlank ==
  ASSUME NEW at \in Nat, NEW len \in Nat, \A a \in Run(at, len) : expect'[a] = Erased
  PROVE  NextRun(at, len) = BlankRun(len)
<1>1. \A i \in 1 .. len : at + i - 1 \in Run(at, len)
  BY DEF Run
<1>2. QED
  BY <1>1 DEF NextRun, BlankRun

LEMMA RunTorn ==
  ASSUME NEW at \in Nat, NEW data \in Seq(SUBSET Bits), NEW written \in Nat,
         \A a \in Run(at, Len(data)) :
           expect'[a] = IF a < at + written THEN data[a - at + 1] ELSE Erased
  PROVE  NextRun(at, Len(data)) = Torn(data, written)
<1>1. \A i \in 1 .. Len(data) :
        /\ at + i - 1 \in Run(at, Len(data)) /\ at + i - 1 - at + 1 = i
        /\ at + i - 1 < at + written <=> i <= written
  BY DEF Run
<1>2. \A i \in 1 .. Len(data) : expect'[at + i - 1] = IF i <= written THEN data[i] ELSE Erased
  BY <1>1
<1>3. QED
  BY <1>2 DEF NextRun, Torn

LEMMA RunOverlaid ==
  ASSUME NEW at \in Nat, NEW len \in Nat, NEW addr \in Nat, NEW data \in Seq(SUBSET Bits),
         \A a \in Run(at, len) :
           expect'[a] = IF a \in Run(addr, Len(data)) THEN data[a - addr + 1] ELSE expect[a]
  PROVE  NextRun(at, len) = Overlaid(MeantRun(at, len), at, addr, data)
<1>1. \A i \in 1 .. len : at + i - 1 \in Run(at, len) /\ at + i - 1 - addr + 1 = at + i - addr
  BY DEF Run
<1>2. \A i \in 1 .. len :
        expect'[at + i - 1] =
          IF at + i - 1 \in Run(addr, Len(data)) THEN data[at + i - addr] ELSE expect[at + i - 1]
  BY <1>1
<1>3. DOMAIN MeantRun(at, len) = 1 .. len
      /\ \A i \in 1 .. len : MeantRun(at, len)[i] = expect[at + i - 1]
  BY DEF MeantRun
<1>4. QED
  BY <1>2, <1>3 DEF NextRun, Overlaid

LEMMA ShapesNext ==
  ASSUME NEW held, NEW slots,
         \A b \in 0 .. Blocks - 1 :
           /\ NextRun(BlockBase(b), BlockBytes) \in held[b]
           /\ NextRun(SlotBase(b), SlotBytes) \in slots[b]
  PROVE  Shapes(held, slots)'
  BY DEF Shapes, NextRun, MeantRun, BlockBase, SlotBase

\* The facts a step needs of one block.
LEMMA OneBlock ==
  ASSUME DeviceAssumption, NEW held, NEW slots, DigestTells(held, slots), Shapes(held, slots),
         NEW b \in 0 .. Blocks - 1
  PROVE  /\ BlockBase(b) \in Nat /\ SlotBase(b) \in Nat
         /\ BlockBytes \in Nat /\ SlotBytes \in Nat
         /\ (\A a \in BlockRun(b) : expect'[a] = expect[a]) =>
              NextRun(BlockBase(b), BlockBytes) \in held[b]
         /\ (\A a \in SlotRun(b) : expect'[a] = expect[a]) =>
              NextRun(SlotBase(b), SlotBytes) \in slots[b]
<1>1. BlockBase(b) \in Nat /\ SlotBase(b) \in Nat /\ BlockBytes \in Nat /\ SlotBytes \in Nat
  BY BasesNat DEF DeviceAssumption
<1>2. (\A a \in BlockRun(b) : expect'[a] = expect[a]) =>
        NextRun(BlockBase(b), BlockBytes) = MeantRun(BlockBase(b), BlockBytes)
  BY <1>1, RunSame DEF BlockRun
<1>3. (\A a \in SlotRun(b) : expect'[a] = expect[a]) =>
        NextRun(SlotBase(b), SlotBytes) = MeantRun(SlotBase(b), SlotBytes)
  BY <1>1, RunSame DEF SlotRun
<1>4. QED
  BY <1>1, <1>2, <1>3 DEF Shapes

\* What other writers put over a block is among what it may hold.
LEMMA ShapesOverlaid ==
  ASSUME DeviceAssumption, RegionsApart, NEW held, NEW slots, DigestTells(held, slots),
         Shapes(held, slots), NEW addr \in Scratch, NEW data \in Writes,
         \A a \in Addresses :
           expect'[a] = IF a \in Run(addr, Len(data)) THEN data[a - addr + 1] ELSE expect[a]
  PROVE  Shapes(held, slots)'
<1>1. addr \in Nat /\ data \in Seq(SUBSET Bits)
  BY DEF DeviceAssumption
<1>2. ASSUME NEW b \in 0 .. Blocks - 1
      PROVE  /\ NextRun(BlockBase(b), BlockBytes) \in held[b]
             /\ NextRun(SlotBase(b), SlotBytes) \in slots[b]
  <2>1. BlockBase(b) \in Nat /\ SlotBase(b) \in Nat /\ BlockBytes \in Nat /\ SlotBytes \in Nat
    BY OneBlock
  <2>2. Run(BlockBase(b), BlockBytes) \subseteq Addresses
        /\ Run(SlotBase(b), SlotBytes) \subseteq Addresses
    BY RunsApart DEF BlockRun, SlotRun
  <2>3. NextRun(BlockBase(b), BlockBytes)
          = Overlaid(MeantRun(BlockBase(b), BlockBytes), BlockBase(b), addr, data)
    BY <1>1, <2>1, <2>2, RunOverlaid
  <2>4. NextRun(SlotBase(b), SlotBytes)
          = Overlaid(MeantRun(SlotBase(b), SlotBytes), SlotBase(b), addr, data)
    BY <1>1, <2>1, <2>2, RunOverlaid
  <2>5. MeantRun(BlockBase(b), BlockBytes) \in held[b] /\ MeantRun(SlotBase(b), SlotBytes) \in slots[b]
    BY DEF Shapes
  <2>6. QED
    BY <2>3, <2>4, <2>5 DEF DigestTells
<1>3. QED
  BY <1>2, ShapesNext

\* An erase takes a block whole, and a slot, or leaves it alone.
LEMMA ShapesErase ==
  ASSUME DeviceAssumption, RegionsApart, NEW held, NEW slots, DigestTells(held, slots),
         Shapes(held, slots), NEW addr \in Nat, Clearing(addr)
  PROVE  Shapes(held, slots)'
<1>1. \A a \in Addresses : expect'[a] = IF a \in SectorRun(addr) THEN Erased ELSE expect[a]
  BY DEF Clearing
<1>2. /\ addr % SectorBytes = 0 /\ SectorBytes \in Nat \ {0}
      /\ PayloadBase \in Nat /\ PayloadBase % SectorBytes = 0
      /\ CrcBase \in Nat /\ CrcBase % SectorBytes = 0
      /\ BlockBytes \in Nat \ {0} /\ SectorBytes % BlockBytes = 0
      /\ SlotBytes \in Nat \ {0} /\ SectorBytes % SlotBytes = 0
  BY DEF DeviceAssumption, RegionsApart, Clearing
<1>3. ASSUME NEW b \in 0 .. Blocks - 1
      PROVE  /\ NextRun(BlockBase(b), BlockBytes) \in held[b]
             /\ NextRun(SlotBase(b), SlotBytes) \in slots[b]
  <2>1. b \in Nat /\ BlockRun(b) \subseteq Addresses /\ SlotRun(b) \subseteq Addresses
    BY RunsApart DEF DeviceAssumption
  <2>2. BlockRun(b) \subseteq SectorRun(addr) \/ BlockRun(b) \cap SectorRun(addr) = {}
    BY <1>2, <2>1, CellInSector DEF BlockRun, BlockBase, SectorRun
  <2>3. SlotRun(b) \subseteq SectorRun(addr) \/ SlotRun(b) \cap SectorRun(addr) = {}
    BY <1>2, <2>1, CellInSector DEF SlotRun, SlotBase, SectorRun
  <2>4. BlockBase(b) \in Nat /\ SlotBase(b) \in Nat /\ BlockBytes \in Nat /\ SlotBytes \in Nat
    BY OneBlock
  <2>5. BlankRun(BlockBytes) \in held[b] /\ BlankRun(SlotBytes) \in slots[b]
    BY DEF DigestTells
  <2>6. NextRun(BlockBase(b), BlockBytes) \in held[b]
    <3>1. CASE BlockRun(b) \subseteq SectorRun(addr)
      <4>1. \A a \in Run(BlockBase(b), BlockBytes) : expect'[a] = Erased
        BY <1>1, <2>1, <3>1 DEF BlockRun
      <4>2. QED
        BY <2>4, <2>5, <4>1, RunBlank
    <3>2. CASE BlockRun(b) \cap SectorRun(addr) = {}
      <4>1. \A a \in BlockRun(b) : expect'[a] = expect[a]
        BY <1>1, <2>1, <3>2
      <4>2. QED
        BY <4>1, OneBlock
    <3>3. QED
      BY <2>2, <3>1, <3>2
  <2>7. NextRun(SlotBase(b), SlotBytes) \in slots[b]
    <3>1. CASE SlotRun(b) \subseteq SectorRun(addr)
      <4>1. \A a \in Run(SlotBase(b), SlotBytes) : expect'[a] = Erased
        BY <1>1, <2>1, <3>1 DEF SlotRun
      <4>2. QED
        BY <2>4, <2>5, <4>1, RunBlank
    <3>2. CASE SlotRun(b) \cap SectorRun(addr) = {}
      <4>1. \A a \in SlotRun(b) : expect'[a] = expect[a]
        BY <1>1, <2>1, <3>2
      <4>2. QED
        BY <4>1, OneBlock
    <3>3. QED
      BY <2>3, <3>1, <3>2
  <2>8. QED
    BY <2>6, <2>7
<1>4. QED
  BY <1>3, ShapesNext

\* An append, or a loss of power within one, means a block to hold its data or a torn part ...
LEMMA ShapesBlock ==
  ASSUME DeviceAssumption, RegionsApart, NEW held, NEW slots, DigestTells(held, slots),
         Shapes(held, slots), NEW h \in 0 .. Blocks - 1, NEW data \in Contents,
         NEW written \in 0 .. BlockBytes,
         \A a \in BlockRun(h) :
           expect'[a] = IF a < BlockBase(h) + written THEN data[a - BlockBase(h) + 1] ELSE Erased,
         \A a \in Addresses \ BlockRun(h) : expect'[a] = expect[a]
  PROVE  Shapes(held, slots)'
<1>1. data \in Seq(SUBSET Bits) /\ Len(data) = BlockBytes /\ written \in Nat /\ BlockBase(h) \in Nat
  BY OneBlock DEF DeviceAssumption
<1>2. NextRun(BlockBase(h), BlockBytes) = Torn(data, written)
  BY <1>1, RunTorn DEF BlockRun
<1>3. NextRun(BlockBase(h), BlockBytes) \in held[h]
  BY <1>2 DEF DigestTells
<1>4. ASSUME NEW b \in 0 .. Blocks - 1
      PROVE  /\ NextRun(BlockBase(b), BlockBytes) \in held[b]
             /\ NextRun(SlotBase(b), SlotBytes) \in slots[b]
  <2>1. /\ BlockRun(b) \subseteq Addresses /\ SlotRun(b) \subseteq Addresses
        /\ BlockRun(h) \cap SlotRun(b) = {}
        /\ b # h => BlockRun(b) \cap BlockRun(h) = {}
    BY RunsApart
  <2>2. \A a \in SlotRun(b) : expect'[a] = expect[a]
    BY <2>1
  <2>3. b # h => \A a \in BlockRun(b) : expect'[a] = expect[a]
    BY <2>1
  <2>4. QED
    BY <1>3, <2>2, <2>3, OneBlock
<1>5. QED
  BY <1>4, ShapesNext

\* ... and a slot its digest or a torn part.
LEMMA ShapesSlot ==
  ASSUME DeviceAssumption, RegionsApart, NEW held, NEW slots, DigestTells(held, slots),
         Shapes(held, slots), NEW h \in 0 .. Blocks - 1, NEW data \in Contents,
         NEW written \in 0 .. SlotBytes,
         \A a \in SlotRun(h) : expect'[a] = Torn(CrcOf(data), written)[a - SlotBase(h) + 1],
         \A a \in Addresses \ SlotRun(h) : expect'[a] = expect[a]
  PROVE  Shapes(held, slots)'
<1>1. CrcOf(data) \in Seq(SUBSET Bits) /\ Len(CrcOf(data)) = SlotBytes /\ written \in Nat
      /\ SlotBase(h) \in Nat /\ SlotBytes \in Nat
  BY OneBlock DEF DeviceAssumption
<1>2. \A i \in 1 .. SlotBytes :
        Torn(CrcOf(data), written)[i] = IF i <= written THEN CrcOf(data)[i] ELSE Erased
  BY <1>1 DEF Torn
<1>3. \A a \in SlotRun(h) :
        a - SlotBase(h) + 1 \in 1 .. SlotBytes
        /\ (a - SlotBase(h) + 1 <= written <=> a < SlotBase(h) + written)
  BY <1>1 DEF SlotRun, Run
<1>4. \A a \in SlotRun(h) :
        expect'[a] = IF a < SlotBase(h) + written THEN CrcOf(data)[a - SlotBase(h) + 1] ELSE Erased
  BY <1>2, <1>3
<1>5. NextRun(SlotBase(h), SlotBytes) = Torn(CrcOf(data), written)
  BY <1>1, <1>4, RunTorn DEF SlotRun
<1>6. NextRun(SlotBase(h), SlotBytes) \in slots[h]
  BY <1>5 DEF DigestTells
<1>7. ASSUME NEW b \in 0 .. Blocks - 1
      PROVE  /\ NextRun(BlockBase(b), BlockBytes) \in held[b]
             /\ NextRun(SlotBase(b), SlotBytes) \in slots[b]
  <2>1. /\ BlockRun(b) \subseteq Addresses /\ SlotRun(b) \subseteq Addresses
        /\ BlockRun(b) \cap SlotRun(h) = {}
        /\ b # h => SlotRun(b) \cap SlotRun(h) = {}
    BY RunsApart
  <2>2. \A a \in BlockRun(b) : expect'[a] = expect[a]
    BY <2>1
  <2>3. b # h => \A a \in SlotRun(b) : expect'[a] = expect[a]
    BY <2>1
  <2>4. QED
    BY <1>6, <2>2, <2>3, OneBlock
<1>8. QED
  BY <1>7, ShapesNext

\* A step that means nothing new keeps the shapes.
LEMMA ShapesKept ==
  ASSUME NEW held, NEW slots, Shapes(held, slots), expect' = expect
  PROVE  Shapes(held, slots)'
  BY DEF Shapes, MeantRun, BlockBase, SlotBase

LEMMA ShapesOther ==
  ASSUME DeviceAssumption, RegionsApart, NEW held, NEW slots, DigestTells(held, slots),
         DeviceInv, Shapes(held, slots), OtherWriter
  PROVE  Shapes(held, slots)'
<1>1. CASE \E addr \in Scratch, data \in Writes :
             Program(addr, data) /\ UNCHANGED <<appender, done>>
  <2>1. PICK addr \in Scratch, data \in Writes : Program(addr, data)
    BY <1>1
  <2>2. CASE Writing(addr, data)
    <3>1. \A a \in Addresses :
            expect'[a] = IF a \in Run(addr, Len(data)) THEN data[a - addr + 1] ELSE expect[a]
      BY <2>2 DEF Writing, Meant
    <3>2. QED
      BY <3>1, ShapesOverlaid
  <2>3. CASE expect' = expect
    BY <2>3, ShapesKept
  <2>4. QED
    BY <2>1, <2>2, <2>3, ProgramDoes
<1>2. CASE \E addr \in Scratch, data \in Writes : Install(addr, data)
  <2>1. PICK addr \in Scratch, data \in Writes : Install(addr, data)
    BY <1>2
  <2>2. addr \in Nat /\ data \in Seq(SUBSET Bits) /\ data # << >>
    BY DEF DeviceAssumption
  <2>3. /\ \A a \in Placed(addr, data) : expect'[a] = data[a - addr + 1]
        /\ \A a \in Addresses \ Placed(addr, data) : expect'[a] = expect[a]
        /\ expect' \in [Addresses -> SUBSET Bits]
    BY <2>1, <2>2, InstallDoes DEF DeviceInv
  <2>4. CASE InBounds(addr, Len(data))
    <3>1. \A a \in Addresses :
            expect'[a] = IF a \in Run(addr, Len(data)) THEN data[a - addr + 1] ELSE expect[a]
      BY <2>3, <2>4 DEF Placed
    <3>2. QED
      BY <3>1, ShapesOverlaid
  <2>5. CASE ~InBounds(addr, Len(data))
    <3>1. \A a \in Addresses : expect'[a] = expect[a]
      BY <2>3, <2>5 DEF Placed
    <3>2. expect' = expect
      BY <2>3, <3>1 DEF DeviceInv, Typed
    <3>3. QED
      BY <3>2, ShapesKept
  <2>6. QED
    BY <2>4, <2>5
<1>3. CASE \E addr \in Addresses : erases[addr \div SectorBytes] <= Endurance /\ Erase(addr)
  <2>1. PICK addr \in Addresses : Erase(addr)
    BY <1>3
  <2>2. CASE EraseViolation(addr) = "none"
    <3>1. Clearing(addr) /\ addr \in Nat
      BY <2>1, <2>2 DEF Erase, EraseViolation, Clearing, Addresses
    <3>2. QED
      BY <3>1, ShapesErase
  <2>3. CASE EraseViolation(addr) # "none"
    <3>1. expect' = expect
      BY <2>1, <2>3 DEF Erase
    <3>2. QED
      BY <3>1, ShapesKept
  <2>4. QED
    BY <2>2, <2>3
<1>4. QED
  BY <1>1, <1>2, <1>3 DEF OtherWriter

LEMMA ShapesStart ==
  ASSUME DeviceAssumption, RegionsApart, NEW held, NEW slots, DigestTells(held, slots),
         DeviceInv, Shapes(held, slots), NEW data \in Contents, StartAppend(data)
  PROVE  Shapes(held, slots)'
<1>1. PICK h \in 0 .. Blocks - 1 : Program(BlockBase(h), data)
  BY HeadIsBlock DEF StartAppend, DeviceAssumption
<1>2. data \in Seq(SUBSET Bits) /\ Len(data) = BlockBytes /\ BlockBase(h) \in Nat
      /\ BlockBytes \in 0 .. BlockBytes
  BY BasesNat DEF DeviceAssumption
<1>3. CASE Writing(BlockBase(h), data)
  <2>1. /\ \A a \in BlockRun(h) : expect'[a] = data[a - BlockBase(h) + 1]
        /\ \A a \in Addresses \ BlockRun(h) : expect'[a] = expect[a]
    BY <1>2, <1>3, WritingDoes DEF DeviceInv, BlockRun
  <2>2. \A a \in BlockRun(h) : a < BlockBase(h) + BlockBytes
    BY <1>2 DEF BlockRun, Run, DeviceAssumption
  <2>3. \A a \in BlockRun(h) :
          expect'[a] = IF a < BlockBase(h) + BlockBytes THEN data[a - BlockBase(h) + 1] ELSE Erased
    BY <2>1, <2>2
  <2>4. QED
    BY <1>2, <2>1, <2>3, ShapesBlock
<1>4. CASE expect' = expect
  BY <1>4, ShapesKept
<1>5. QED
  BY <1>1, <1>3, <1>4, ProgramDoes

\* A digest written whole is its own torn part.
LEMMA ShapesFinish ==
  ASSUME DeviceAssumption, RegionsApart, NEW held, NEW slots, DigestTells(held, slots),
         DeviceInv, Shapes(held, slots), FinishAppend
  PROVE  Shapes(held, slots)'
<1>1. PICK h \in 0 .. Blocks - 1, data \in Contents :
        Program(SlotBase(h), CrcOf(data))
  BY DEF FinishAppend, DeviceInv, Typed
<1>2. /\ CrcOf(data) \in Seq(SUBSET Bits) /\ Len(CrcOf(data)) = SlotBytes /\ SlotBase(h) \in Nat
      /\ SlotBytes \in 0 .. SlotBytes
  BY BasesNat DEF DeviceAssumption
<1>3. Torn(CrcOf(data), SlotBytes) = CrcOf(data)
  <2>1. CrcOf(data) = [i \in 1 .. SlotBytes |-> CrcOf(data)[i]]
    BY <1>2
  <2>2. QED
    BY <1>2, <2>1 DEF Torn
<1>4. CASE Writing(SlotBase(h), CrcOf(data))
  <2>1. /\ \A a \in SlotRun(h) : expect'[a] = CrcOf(data)[a - SlotBase(h) + 1]
        /\ \A a \in Addresses \ SlotRun(h) : expect'[a] = expect[a]
    BY <1>2, <1>4, WritingDoes DEF DeviceInv, SlotRun
  <2>2. QED
    BY <1>2, <1>3, <2>1, ShapesSlot
<1>5. CASE expect' = expect
  BY <1>5, ShapesKept
<1>6. QED
  BY <1>1, <1>4, <1>5, ProgramDoes

\* Power lost in the payload: what the append meant, and its tail erased.
LEMMA ShapesLose ==
  ASSUME DeviceAssumption, RegionsApart, NEW held, NEW slots, DigestTells(held, slots),
         DeviceInv, Shapes(held, slots), LosePower
  PROVE  Shapes(held, slots)'
<1>1. PICK h \in 0 .. Blocks - 1, data \in Contents :
        appender # Idle /\ appender.block = h /\ appender.data = data
  BY DEF LosePower, DeviceInv, Typed
<1>2. PICK written \in 0 .. BlockBytes : TearWrite(BlockBase(h), BlockBytes, written)
  BY <1>1 DEF LosePower
<1>3. BlockBase(h) \in Nat /\ BlockBytes \in Nat /\ BlockRun(h) \subseteq Addresses
  BY BasesNat, RunsApart DEF DeviceAssumption
<1> DEFINE tail == TailOf(BlockBase(h), BlockBytes, written)
<1>4. /\ \A a \in Addresses \ tail : expect'[a] = expect[a]
      /\ \A a \in Addresses \cap tail : expect'[a] = Erased
  BY <1>2, TearDoes DEF DeviceInv
<1>5. \A a \in BlockRun(h) : a \in tail <=> ~(a < BlockBase(h) + written)
  BY <1>3 DEF TailOf, BlockRun, Run
<1>6. \A a \in Addresses \ BlockRun(h) : a \notin tail
  BY <1>3 DEF TailOf, BlockRun, Run
<1> HIDE DEF tail
<1>7. \A a \in BlockRun(h) : expect[a] = data[a - BlockBase(h) + 1]
  BY <1>1 DEF DeviceInv, HalfWritten
<1>8. \A a \in BlockRun(h) :
        expect'[a] = IF a < BlockBase(h) + written THEN data[a - BlockBase(h) + 1] ELSE Erased
  BY <1>3, <1>4, <1>5, <1>7
<1>9. QED
  BY <1>4, <1>6, <1>8, ShapesBlock

LEMMA ShapesLoseDigest ==
  ASSUME DeviceAssumption, RegionsApart, NEW held, NEW slots, DigestTells(held, slots),
         DeviceInv, Shapes(held, slots), NEW written \in 0 .. SlotBytes, LosePowerInDigest(written)
  PROVE  Shapes(held, slots)'
<1>1. PICK h \in 0 .. Blocks - 1, data \in Contents :
        appender # Idle /\ appender.block = h /\ appender.data = data
  BY DEF LosePowerInDigest, DeviceInv, Typed
<1> DEFINE torn == Torn(CrcOf(data), written)
<1>2. SlotBase(h) \in Nat /\ torn \in Seq(SUBSET Bits) /\ Len(torn) = SlotBytes
  BY BasesNat, TornType DEF DeviceAssumption
<1>3. expect' = Meant(SlotBase(h), torn)
  BY <1>1 DEF LosePowerInDigest
<1> HIDE DEF torn
<1>4. SlotRun(h) \subseteq Addresses
  BY RunsApart
<1>5. \A a \in Addresses :
        expect'[a] = IF a \in SlotRun(h) THEN torn[a - SlotBase(h) + 1] ELSE expect[a]
  BY <1>2, <1>3 DEF Meant, SlotRun
<1>6. /\ \A a \in SlotRun(h) : expect'[a] = Torn(CrcOf(data), written)[a - SlotBase(h) + 1]
      /\ \A a \in Addresses \ SlotRun(h) : expect'[a] = expect[a]
  BY <1>4, <1>5 DEF torn
<1>7. QED
  BY <1>6, ShapesSlot

LEMMA ShapesStep ==
  ASSUME DeviceAssumption, RegionsApart, NEW held, NEW slots, DigestTells(held, slots),
         DeviceInv, Shapes(held, slots), [DeviceNext]_deviceVars
  PROVE  Shapes(held, slots)'
<1>1. CASE OtherWriter
  BY <1>1, ShapesOther
<1>2. CASE \/ \E addr \in Addresses, bit \in Bits : FlipBit(addr, bit)
           \/ \E b \in 0 .. Blocks - 1, data \in Writes :
                CorruptBlock(BlockBase(b), BlockBytes, data)
           \/ \E sector \in Sectors : KillSector(sector)
           \/ UNCHANGED deviceVars
  <2>1. expect' = expect
    BY <1>2 DEF FlipBit, CorruptBlock, KillSector, Damage, deviceVars
  <2>2. QED
    BY <2>1, ShapesKept
<1>3. CASE \E data \in Contents : StartAppend(data)
  BY <1>3, ShapesStart
<1>4. CASE FinishAppend
  BY <1>4, ShapesFinish
<1>5. CASE LosePower
  BY <1>5, ShapesLose
<1>6. CASE \E written \in 0 .. SlotBytes : LosePowerInDigest(written)
  BY <1>6, ShapesLoseDigest
<1>7. QED
  BY <1>1, <1>2, <1>3, <1>4, <1>5, <1>6 DEF DeviceNext

LEMMA ShapesInit ==
  ASSUME DeviceAssumption, RegionsApart, NEW held, NEW slots, DigestTells(held, slots), DeviceInit
  PROVE  Shapes(held, slots)
<1>1. ASSUME NEW at \in Nat, NEW len \in Nat, Run(at, len) \subseteq Addresses
      PROVE  MeantRun(at, len) = BlankRun(len)
  <2>1. \A i \in 1 .. len : at + i - 1 \in Run(at, len)
    BY DEF Run
  <2>2. QED
    BY <1>1, <2>1 DEF DeviceInit, MeantRun, BlankRun
<1>2. ASSUME NEW b \in 0 .. Blocks - 1
      PROVE  /\ MeantRun(BlockBase(b), BlockBytes) \in held[b]
             /\ MeantRun(SlotBase(b), SlotBytes) \in slots[b]
  <2>1. BlockBase(b) \in Nat /\ SlotBase(b) \in Nat /\ BlockBytes \in Nat /\ SlotBytes \in Nat
    BY BasesNat DEF DeviceAssumption
  <2>2. BlockRun(b) \subseteq Addresses /\ SlotRun(b) \subseteq Addresses
    BY RunsApart
  <2>3. QED
    BY <1>1, <2>1, <2>2 DEF DigestTells, BlockRun, SlotRun
<1>3. QED
  BY <1>2 DEF Shapes

\* A digest that stands in a slot, and is that of the block, is that of a block appended.
LEMMA InvWhole ==
  ASSUME DeviceAssumption, NEW held, NEW slots, DigestTells(held, slots), DeviceInv,
         Shapes(held, slots)
  PROVE  AppendsWhole
<1>1. SUFFICES ASSUME NEW b \in 0 .. Blocks - 1,
                      BlockRun(b) \cup SlotRun(b) \subseteq sound, Certified(b)
               PROVE  BlockAt(b) \in Contents
  BY DEF AppendsWhole
<1>2. BlockBase(b) \in Nat /\ SlotBase(b) \in Nat /\ BlockBytes \in Nat /\ SlotBytes \in Nat
  BY BasesNat DEF DeviceAssumption
<1>3. BlockAt(b) = MeantRun(BlockBase(b), BlockBytes)
  <2>1. \A i \in 1 .. BlockBytes : BlockBase(b) + i - 1 \in BlockRun(b)
    BY <1>2 DEF BlockRun, Run
  <2>2. QED
    BY <1>1, <2>1 DEF DeviceInv, AsMeant, BlockAt, Read, MeantRun
<1>4. SlotAt(b) = MeantRun(SlotBase(b), SlotBytes)
  <2>1. \A i \in 1 .. SlotBytes : SlotBase(b) + i - 1 \in SlotRun(b)
    BY <1>2 DEF SlotRun, Run
  <2>2. QED
    BY <1>1, <2>1 DEF DeviceInv, AsMeant, SlotAt, Read, MeantRun
<1>5. BlockAt(b) \in held[b] /\ SlotAt(b) \in slots[b]
  BY <1>3, <1>4 DEF Shapes
<1>6. SlotAt(b) # BlankRun(SlotBytes) /\ SlotAt(b) = CrcOf(BlockAt(b))
  BY <1>1 DEF Certified, AllErased, BlankRun
<1>7. QED
  BY <1>5, <1>6 DEF DigestTells

---------------------------------------------------------------------------
\* Under faults, refused programs, worn sectors and losses of power in any order, a byte no
\* fault has touched is as it was meant and a completed append stays until its sector is
\* erased or damaged, for every geometry, digest, data and bound on faults.
THEOREM ContractKept ==
  ASSUME DeviceAssumption
  PROVE  DeviceSpec => [](ReadsBack /\ AppendedKept)
<1>1. DeviceSpec => []DeviceInv
  BY InitHolds, InvStep, PTL DEF DeviceSpec
<1>2. DeviceInv => ReadsBack /\ AppendedKept
  BY InvReads, InvKeeps
<1>3. QED
  BY <1>1, <1>2, PTL

\* On regions that lie apart, and with a digest that tells what a block may hold from what
\* was appended, a certified block is moreover a whole one.
THEOREM FlashKeepsAppends ==
  ASSUME DeviceAssumption, RegionsApart, NEW held, NEW slots, DigestTells(held, slots)
  PROVE  DeviceSpec => []DeviceFaithful
<1> DEFINE Inv == DeviceInv /\ Shapes(held, slots)
<1>1. DeviceInit => Inv
  BY InitHolds, ShapesInit
<1>2. Inv /\ [DeviceNext]_deviceVars => Inv'
  BY InvStep, ShapesStep
<1>3. Inv => DeviceFaithful
  BY InvReads, InvKeeps, InvWhole DEF DeviceFaithful
<1> HIDE DEF Inv
<1>4. QED
  BY <1>1, <1>2, <1>3, PTL DEF DeviceSpec

---------------------------------------------------------------------------
(* The socket file.                                                        *)

\* No two daemons are inside Server::new.
OneStarts ==
  \A d, e \in Daemons : pc[d] \in Starting /\ pc[e] \in Starting => d = e

\* A daemon past its bind owns the path ...
OwnersNamed ==
  \A d \in Daemons : pc[d] \in {"listen", "tcp", "undo", "serving"} => file = {d}

\* ... and one that is about to remove or to bind has found that nobody serves.
NobodyServed ==
  \A d, e \in Daemons : pc[d] \in {"remove", "bind"} => pc[e] # "serving"

\* Without a crash, the path names a daemon that is still there.
NoOrphan ==
  crashed \/ \A d \in file : pc[d] \in {"listen", "tcp", "undo", "serving"}

Owned == OneStarts /\ OwnersNamed /\ NobodyServed /\ NoOrphan

SocketInv == TypeOK /\ (~overlapped => Owned)

---------------------------------------------------------------------------
LEMMA SocketInit == Init => SocketInv
  BY DEF Init, SocketInv, TypeOK, Owned, OneStarts, OwnersNamed, NobodyServed, NoOrphan, Labels,
     Starting, NoFile

\* Types are kept by every step.
LEMMA SocketTypes == TypeOK /\ [Next]_vars => TypeOK'
<1>1. SUFFICES ASSUME TypeOK, [Next]_vars PROVE TypeOK'
  OBVIOUS
<1>2. CASE UNCHANGED vars
  BY <1>1, <1>2 DEF TypeOK, vars
<1>3. CASE Next
  <2>1. PICK d \in Daemons :
          \/ Start(d) \/ Connect(d) \/ RemoveFile(d) \/ Bind(d) \/ Listen(d)
          \/ BindTcp(d) \/ DropGuard(d) \/ Stop(d) \/ Close(d) \/ Crash(d)
    BY <1>3 DEF Next
  <2>2. file' \in {NoFile} \cup {{e} : e \in Daemons}
    BY <1>1, <2>1 DEF TypeOK, Start, Connect, RemoveFile, Bind, Listen, BindTcp, DropGuard,
       Stop, Close, Crash
  <2>3. pc' \in [Daemons -> Labels]
    BY <1>1, <2>1 DEF TypeOK, Start, Connect, RemoveFile, Bind, Listen, BindTcp, DropGuard,
       Stop, Close, Crash, Goto, Labels, Starting
  <2>4. overlapped' \in BOOLEAN /\ crashed' \in BOOLEAN
    BY <1>1, <2>1 DEF TypeOK, Start, Connect, RemoveFile, Bind, Listen, BindTcp, DropGuard,
       Stop, Close, Crash
  <2>5. QED
    BY <2>2, <2>3, <2>4 DEF TypeOK
<1>4. QED
  BY <1>1, <1>2, <1>3

\* A step that leaves no overlap behind leaves the path owned.
LEMMA OwnedStep ==
  ASSUME TypeOK, Owned, ~overlapped', NEW d \in Daemons,
         \/ Start(d) \/ Connect(d) \/ RemoveFile(d) \/ Bind(d) \/ Listen(d)
         \/ BindTcp(d) \/ DropGuard(d) \/ Stop(d) \/ Close(d) \/ Crash(d)
  PROVE  Owned'
<1> USE DEF TypeOK, Goto, Starting, NoFile
<1>1. CASE Start(d)
  <2>1. \A e \in Daemons : pc[e] \notin Starting
    BY <1>1 DEF Start
  <2>2. OneStarts'
    BY <1>1, <2>1 DEF Start, OneStarts
  <2>3. OwnersNamed'
    BY <1>1, <2>1 DEF Start, Owned, OwnersNamed
  <2>4. NobodyServed'
    <3>1. CASE file = NoFile
      <4>1. \A e \in Daemons : pc[e] # "serving"
        BY <3>1 DEF Owned, OwnersNamed
      <4>2. QED
        BY <1>1, <2>1, <4>1 DEF Start, NobodyServed
    <3>2. CASE file # NoFile
      BY <1>1, <2>1, <3>2 DEF Start, NobodyServed
    <3>3. QED
      BY <3>1, <3>2
  <2>5. NoOrphan'
    BY <1>1 DEF Start, Owned, NoOrphan
  <2>6. QED
    BY <2>2, <2>3, <2>4, <2>5 DEF Owned
<1>2. CASE Connect(d)
  <2>1. OneStarts' /\ OwnersNamed'
    BY <1>2 DEF Connect, Owned, OneStarts, OwnersNamed
  <2>2. NobodyServed'
    <3>1. \A e \in Daemons : pc[e] = "serving" => file = {e} /\ Listening(e)
      BY DEF Owned, OwnersNamed, Listening
    <3>2. QED
      BY <1>2, <3>1 DEF Connect, Owned, NobodyServed
  <2>3. NoOrphan'
    BY <1>2 DEF Connect, Owned, NoOrphan
  <2>4. QED
    BY <2>1, <2>2, <2>3 DEF Owned
<1>3. CASE RemoveFile(d)
  <2>1. \A e \in Daemons : pc[e] \notin {"listen", "tcp", "undo", "serving"}
    BY <1>3 DEF RemoveFile, Owned, OneStarts, NobodyServed
  <2>2. QED
    BY <1>3, <2>1 DEF RemoveFile, Owned, OneStarts, OwnersNamed, NobodyServed, NoOrphan
<1>4. CASE Bind(d)
  <2>1. \A e \in Daemons : pc[e] \notin {"listen", "tcp", "undo", "serving"}
    BY <1>4 DEF Bind, Owned, OneStarts, NobodyServed
  <2>2. \A e \in Daemons : pc[e] \in Starting => e = d
    BY <1>4 DEF Bind, Owned, OneStarts
  <2>3. CASE file # NoFile /\ Goto(d, "off") /\ UNCHANGED file
    BY <1>4, <2>1, <2>2, <2>3 DEF Bind, Owned, OneStarts, OwnersNamed, NobodyServed, NoOrphan
  <2>4. CASE file = NoFile /\ file' = {d} /\ Goto(d, "listen")
    BY <1>4, <2>1, <2>2, <2>4 DEF Bind, Owned, OneStarts, OwnersNamed, NobodyServed, NoOrphan
  <2>5. QED
    BY <1>4, <2>3, <2>4 DEF Bind
<1>5. CASE Listen(d)
  BY <1>5 DEF Listen, Owned, OneStarts, OwnersNamed, NobodyServed, NoOrphan
<1>6. CASE BindTcp(d)
  <2>1. \A e \in Daemons : e # d => pc[e] \notin {"remove", "bind"}
    BY <1>6 DEF BindTcp, Owned, OneStarts
  <2>2. QED
    BY <1>6, <2>1 DEF BindTcp, Owned, OneStarts, OwnersNamed, NobodyServed, NoOrphan
<1>7. CASE DropGuard(d)
  <2>1. \A e \in Daemons : e # d => pc[e] \notin {"listen", "tcp", "undo", "serving"}
    BY <1>7 DEF DropGuard, Owned, OwnersNamed
  <2>2. QED
    BY <1>7, <2>1 DEF DropGuard, Owned, OneStarts, OwnersNamed, NobodyServed, NoOrphan
<1>8. CASE Stop(d)
  <2>1. \A e \in Daemons : e # d => pc[e] \notin {"listen", "tcp", "undo", "serving"}
    BY <1>8 DEF Stop, Owned, OwnersNamed
  <2>2. QED
    BY <1>8, <2>1 DEF Stop, Owned, OneStarts, OwnersNamed, NobodyServed, NoOrphan
<1>9. CASE Close(d)
  BY <1>9 DEF Close, Owned, OneStarts, OwnersNamed, NobodyServed, NoOrphan
<1>10. CASE Crash(d)
  BY <1>10 DEF Crash, Owned, OneStarts, OwnersNamed, NobodyServed, NoOrphan
<1>11. QED
  BY <1>1, <1>2, <1>3, <1>4, <1>5, <1>6, <1>7, <1>8, <1>9, <1>10

\* An overlap is never forgotten.
LEMMA OverlapStays ==
  ASSUME NEW d \in Daemons, TypeOK,
         \/ Start(d) \/ Connect(d) \/ RemoveFile(d) \/ Bind(d) \/ Listen(d)
         \/ BindTcp(d) \/ DropGuard(d) \/ Stop(d) \/ Close(d) \/ Crash(d)
  PROVE  overlapped => overlapped'
  BY DEF Start, Connect, RemoveFile, Bind, Listen, BindTcp, DropGuard, Stop, Close, Crash

LEMMA SocketStep == SocketInv /\ [Next]_vars => SocketInv'
<1>1. SUFFICES ASSUME SocketInv, [Next]_vars PROVE SocketInv'
  OBVIOUS
<1>2. TypeOK'
  BY <1>1, SocketTypes DEF SocketInv
<1>3. CASE UNCHANGED vars
  BY <1>1, <1>2, <1>3
  DEF SocketInv, vars, Owned, OneStarts, OwnersNamed, NobodyServed, NoOrphan
<1>4. CASE Next
  <2>1. PICK d \in Daemons :
          \/ Start(d) \/ Connect(d) \/ RemoveFile(d) \/ Bind(d) \/ Listen(d)
          \/ BindTcp(d) \/ DropGuard(d) \/ Stop(d) \/ Close(d) \/ Crash(d)
    BY <1>4 DEF Next
  <2>2. ~overlapped' => ~overlapped
    BY <1>1, <2>1, OverlapStays DEF SocketInv
  <2>3. ~overlapped' => Owned'
    BY <1>1, <2>1, <2>2, OwnedStep DEF SocketInv
  <2>4. QED
    BY <1>2, <2>3 DEF SocketInv
<1>5. QED
  BY <1>1, <1>3, <1>4

LEMMA SocketInvOwned == SocketInv => SocketOwned
<1>1. SUFFICES ASSUME SocketInv, ~overlapped PROVE
        /\ \A d \in Daemons : pc[d] = "serving" => file = {d}
        /\ (\A d \in Daemons : pc[d] = "off") /\ file # NoFile => crashed
  BY DEF SocketOwned
<1>2. \A d \in Daemons : pc[d] = "serving" => file = {d}
  BY <1>1 DEF SocketInv, Owned, OwnersNamed
<1>3. (\A d \in Daemons : pc[d] = "off") /\ file # NoFile => crashed
  BY <1>1 DEF SocketInv, TypeOK, Owned, NoOrphan, NoFile
<1>4. QED
  BY <1>2, <1>3

\* However many daemons are started, refused, killed and stopped in turn, the one that
\* serves owns the path, and a path that names nobody is left by a kill only.
THEOREM ServingOwnsPath == Spec => []SocketOwned
<1>1. Spec => []SocketInv
  BY SocketInit, SocketStep, PTL DEF Spec
<1>2. QED
  BY <1>1, SocketInvOwned, PTL

---------------------------------------------------------------------------
(* Offline verification: the sweep and its report.                         *)

\* A block is one of those that n records fill when it begins before the n-th.
LEMMA DivCeilBlocks ==
  ASSUME NEW n \in Nat, NEW per \in Nat \ {0}
  PROVE  /\ Verifies!DivCeil(n, per) \in Nat
         /\ \A b \in Nat : b < Verifies!DivCeil(n, per) <=> per * b < n
<1> DEFINE c == (n + per - 1) \div per
<1>1. c \in Nat /\ per * c <= n + per - 1 /\ n + per - 1 < per * c + per
  <2>1. n + per - 1 \in Nat
    OBVIOUS
  <2>2. QED
    BY <2>1, Quotient
<1> HIDE DEF c
<1>2. ASSUME NEW b \in Nat
      PROVE  b < c <=> per * b < n
  <2>1. per * (b + 1) = per * b + per /\ per * (c + 1) = per * c + per /\ per * b \in Int /\ per * c \in Int
    BY <1>1
  <2>2. per * c < per * (b + 1) <=> c < b + 1
    BY <1>1, InOrder
  <2>3. per * b < per * c <=> b < c
    BY <1>1, InOrder
  <2>4. b < c => per * b < n
    BY <1>1, <2>1, <2>2
  <2>5. per * b < n => b < c
    BY <1>1, <2>1, <2>3
  <2>6. QED
    BY <2>4, <2>5
<1>3. Verifies!DivCeil(n, per) = c
  BY DEF c, Verifies!DivCeil
<1>4. QED
  BY <1>1, <1>2, <1>3

\* The blocks of a run of ids are a run of blocks.
LEMMA BlocksOfIds ==
  ASSUME NEW from \in Nat, NEW n \in Nat, NEW per \in Nat \ {0}, from < n
  PROVE  {id \div per : id \in from .. n - 1} = from \div per .. Verifies!DivCeil(n, per) - 1
<1> DEFINE last == Verifies!DivCeil(n, per)
<1>1. last \in Nat /\ \A b \in Nat : b < last <=> per * b < n
  BY DivCeilBlocks
<1> HIDE DEF last
<1>2. ASSUME NEW id \in from .. n - 1
      PROVE  id \div per \in from \div per .. last - 1
  <2>1. id \in Nat /\ from <= id /\ id < n
    OBVIOUS
  <2>2. id \div per \in Nat /\ from \div per \in Nat /\ per * (id \div per) <= id
    BY <2>1, Quotient
  <2>3. from \div per <= id \div per
    BY <2>1, QuotientOrder
  <2>4. per * (id \div per) \in Nat
    BY <2>2
  <2>5. per * (id \div per) < n
    BY <2>1, <2>2, <2>4
  <2>6. id \div per < last
    BY <1>1, <2>2, <2>5
  <2>7. QED
    BY <1>1, <2>2, <2>3, <2>6
<1>3. ASSUME NEW b \in from \div per .. last - 1
      PROVE  \E id \in from .. n - 1 : b = id \div per
  <2>1. from \div per \in Nat /\ from < per * (from \div per) + per
    BY Quotient
  <2>2. b \in Nat /\ from \div per <= b /\ b < last /\ per * b \in Nat
    BY <1>1, <2>1
  <2>3. per * b < n
    BY <1>1, <2>2
  <2>4. CASE from <= per * b
    <3>1. per * b \in from .. n - 1
      BY <2>2, <2>3, <2>4
    <3>2. (per * b) \div per = b
      BY <2>2, QuotientOnly
    <3>3. QED
      BY <3>1, <3>2
  <2>5. CASE per * b < from
    <3>1. per * b < per * (from \div per) + per
      BY <2>1, <2>2, <2>5
    <3>2. per * (from \div per + 1) = per * (from \div per) + per
      BY <2>1
    <3>3. b < from \div per + 1
      BY <2>1, <2>2, <3>1, <3>2, InOrder
    <3>4. b = from \div per
      BY <2>1, <2>2, <3>3
    <3>5. from \in from .. n - 1
      OBVIOUS
    <3>6. QED
      BY <3>4, <3>5
  <2>6. QED
    BY <2>2, <2>4, <2>5
<1>4. QED
  BY <1>2, <1>3 DEF last

\* What is left out of a run is what the run before it has.
LEMMA SpansJoin ==
  ASSUME NEW built \in Nat, NEW start \in Nat, NEW end \in Nat, start <= built, built <= end
  PROVE  0 .. end - 1 = 0 .. built - 1 \cup start .. end - 1
  OBVIOUS

\* A record that fits a block: at least one to a block.
LEMMA RecordsFit ==
  ASSUME Verifies!LayoutAssumption, NEW size \in 1 .. BlockBytes
  PROVE  BlockBytes \div size \in Nat \ {0}
<1>1. BlockBytes \in Nat /\ size \in Nat \ {0} /\ size <= BlockBytes
  BY DEF Verifies!LayoutAssumption
<1>2. BlockBytes \div size \in Nat /\ BlockBytes < size * (BlockBytes \div size) + size
  BY <1>1, Quotient
<1>3. BlockBytes \div size # 0
  BY <1>1, <1>2
<1>4. QED
  BY <1>2, <1>3

LEMMA RecordsPerAtLeastOne ==
  ASSUME Verifies!LayoutAssumption, NEW manifest, NEW kind \in {"payload", "rerank"},
         Verifies!PayloadBytes(manifest) \in 1 .. BlockBytes,
         Verifies!RerankBytes(manifest) \in 1 .. BlockBytes
  PROVE  /\ Verifies!RecordsPer(manifest, kind) \in Nat \ {0}
         /\ Verifies!RecordsPer(manifest, "payload") = BlockBytes \div Verifies!PayloadBytes(manifest)
         /\ Verifies!RecordsPer(manifest, "rerank") = BlockBytes \div Verifies!RerankBytes(manifest)
  BY RecordsFit
  DEF Verifies!RecordsPer, Verifies!VectorsPerBlock, Verifies!RecordsPerBlock

\* The sweep visits the blocks that hold vectors, and no others.
LEMMA SweepExact ==
  ASSUME NEW manifest, NEW kind, Verifies!RecordsPer(manifest, kind) \in Nat \ {0},
         manifest.built_n \in Nat, manifest.appended_from \in Nat, manifest.n \in Nat,
         manifest.built_n <= manifest.appended_from, manifest.appended_from <= manifest.n
  PROVE  Verifies!Swept(manifest, kind) = Verifies!StoredBlocks(manifest, kind)
<1> DEFINE per == Verifies!RecordsPer(manifest, kind)
           built == Verifies!DivCeil(manifest.built_n, per)
           start == manifest.appended_from \div per
           end == Verifies!DivCeil(manifest.n, per)
           First == {id \div per : id \in 0 .. manifest.built_n - 1}
           Second == {id \div per : id \in manifest.appended_from .. manifest.n - 1}
<1>1. Verifies!StoredBlocks(manifest, kind) = First \cup Second
  BY DEF Verifies!StoredBlocks, Verifies!StoredIds
<1>2. built \in Nat /\ start \in Nat /\ end \in Nat
  BY DivCeilBlocks, Quotient
<1>3. built <= end
  <2>1. \A b \in Nat : (b < built <=> per * b < manifest.built_n) /\ (b < end <=> per * b < manifest.n)
    BY DivCeilBlocks
  <2>2. CASE end < built
    <3>1. per * end < manifest.built_n /\ ~(per * end < manifest.n)
      BY <1>2, <2>1, <2>2
    <3>2. per * end \in Nat
      BY <1>2
    <3>3. QED
      BY <3>1, <3>2
  <2>3. QED
    BY <1>2, <2>2
<1>4. First = 0 .. built - 1
  <2>1. CASE manifest.built_n = 0
    <3>1. ~(0 < built)
      BY <1>2, <2>1, DivCeilBlocks
    <3>2. built = 0
      BY <1>2, <3>1
    <3>3. First = {}
      BY <2>1
    <3>4. 0 .. built - 1 = {}
      BY <3>2
    <3>5. QED
      BY <3>3, <3>4
  <2>2. CASE 0 < manifest.built_n
    <3>1. First = 0 \div per .. built - 1
      BY <2>2, BlocksOfIds
    <3>2. 0 \div per = 0
      BY QuotientOnly
    <3>3. QED
      BY <3>1, <3>2
  <2>3. QED
    BY <2>1, <2>2
<1>5. manifest.appended_from < manifest.n => Second = start .. end - 1
  BY BlocksOfIds
<1>6. ~(manifest.appended_from < manifest.n) => Second = {}
  OBVIOUS
<1>7. Verifies!AtLeastOne(per) = per
  BY DEF Verifies!AtLeastOne
<1>8. Verifies!WrittenRuns(manifest, per) =
        IF manifest.n = manifest.appended_from THEN {<<0, built>>}
        ELSE IF start <= built THEN {<<0, end>>}
        ELSE {<<0, built>>, <<start, end>>}
  BY <1>7 DEF Verifies!WrittenRuns
<1>9. Verifies!Swept(manifest, kind) =
        UNION {run[1] .. run[2] - 1 : run \in Verifies!WrittenRuns(manifest, per)}
  BY DEF Verifies!Swept
<1> HIDE DEF per, built, start, end, First, Second
<1>10. CASE manifest.n = manifest.appended_from
  <2>1. UNION {run[1] .. run[2] - 1 : run \in {<<0, built>>}} = 0 .. built - 1
    OBVIOUS
  <2>2. QED
    BY <1>1, <1>4, <1>6, <1>8, <1>9, <1>10, <2>1
<1>11. CASE manifest.n # manifest.appended_from /\ start <= built
  <2>1. UNION {run[1] .. run[2] - 1 : run \in {<<0, end>>}} = 0 .. end - 1
    OBVIOUS
  <2>2. 0 .. end - 1 = 0 .. built - 1 \cup start .. end - 1
    BY <1>2, <1>3, <1>11, SpansJoin
  <2>3. manifest.appended_from < manifest.n
    BY <1>11
  <2>4. QED
    BY <1>1, <1>4, <1>5, <1>8, <1>9, <1>11, <2>1, <2>2, <2>3
<1>12. CASE manifest.n # manifest.appended_from /\ ~(start <= built)
  <2>1. UNION {run[1] .. run[2] - 1 : run \in {<<0, built>>, <<start, end>>}}
          = 0 .. built - 1 \cup start .. end - 1
    OBVIOUS
  <2>2. manifest.appended_from < manifest.n
    BY <1>12
  <2>3. QED
    BY <1>1, <1>4, <1>5, <1>8, <1>9, <1>12, <2>1, <2>2
<1>13. QED
  BY <1>10, <1>11, <1>12

---------------------------------------------------------------------------
(* What the estimates cover.                                               *)

\* The module counts as these proofs do.
LEMMA SameCount ==
  ASSUME NEW S
  PROVE  Verifies!Cardinality(S) = Cardinality(S)
  BY DEF Verifies!Cardinality, Cardinality

\* Records lost with their blocks are no more than the blocks have room for.
LEMMA LostWithBlocks ==
  ASSUME NEW ids, ids \subseteq Nat, NEW per \in Nat \ {0}, NEW bad, IsFiniteSet(bad),
         \A id \in ids : id \div per \in bad
  PROVE  Cardinality(ids) <= Cardinality(bad) * per
<1> DEFINE places == bad \X (0 .. per - 1)
           put == [id \in ids |-> <<id \div per, id % per>>]
<1>1. IsFiniteSet(0 .. per - 1) /\ Cardinality(0 .. per - 1) = per
  <2>1. 0 \in Int /\ per - 1 \in Int
    OBVIOUS
  <2>2. /\ IsFiniteSet(0 .. per - 1)
        /\ Cardinality(0 .. per - 1) = IF 0 > per - 1 THEN 0 ELSE (per - 1) - 0 + 1
    BY <2>1, FS_Interval
  <2>3. QED
    BY <2>2
<1>2. IsFiniteSet(places) /\ Cardinality(places) = Cardinality(bad) * per
  BY <1>1, FS_Product
<1>3. ASSUME NEW id \in ids
      PROVE  id \in Nat /\ put[id] = <<id \div per, id % per>> /\ put[id] \in places
  <2>1. id \in Nat
    OBVIOUS
  <2>2. id \div per \in Nat /\ per * (id \div per) <= id /\ id < per * (id \div per) + per
        /\ id % per = id - per * (id \div per)
    BY <2>1, Quotient
  <2>3. id % per \in 0 .. per - 1
    BY <2>1, <2>2
  <2>4. QED
    BY <2>1, <2>3
<1>4. ASSUME NEW a \in ids, NEW b \in ids, put[a] = put[b]
      PROVE  a = b
  <2>1. a \div per = b \div per /\ a % per = b % per
    BY <1>3, <1>4
  <2>2. a % per = a - per * (a \div per) /\ b % per = b - per * (b \div per)
    BY <1>3, Quotient
  <2>3. a \in Nat /\ b \in Nat /\ per * (a \div per) \in Int
    BY <1>3, Quotient
  <2>4. QED
    BY <2>1, <2>2, <2>3
<1>5. put \in Injection(ids, places)
  <2>1. put \in [ids -> places]
    BY <1>3
  <2>2. \A a, b \in ids : put[a] = put[b] => a = b
    BY <1>4
  <2> HIDE DEF put, places
  <2>3. QED
    BY <2>1, <2>2 DEF Injection, IsInjective
<1> HIDE DEF put, places
<1>6. QED
  BY <1>2, <1>5, FS_Injection

\* A volume that its manifest describes: the sweep finds the damage, and each estimate is
\* at least the vectors that the damaged blocks hold.
LEMMA DamageCovered ==
  ASSUME Verifies!LayoutAssumption, NEW volume, NEW manifest, Verifies!Describes(manifest, volume),
         NEW kind \in {"payload", "rerank"}, NEW bad,
         bad = volume[kind] \cap Verifies!StoredBlocks(manifest, kind)
  PROVE  /\ IsFiniteSet(bad)
         /\ Cardinality(Verifies!Affected(volume, manifest, kind))
              <= Cardinality(bad) * Verifies!RecordsPer(manifest, kind)
         /\ Cardinality(Verifies!Affected(volume, manifest, kind)) <= manifest.n
<1> DEFINE per == Verifies!RecordsPer(manifest, kind)
           ids == Verifies!Affected(volume, manifest, kind)
<1>1. per \in Nat \ {0}
  BY RecordsPerAtLeastOne DEF Verifies!Describes
<1>2. /\ manifest.built_n \in Nat /\ manifest.appended_from \in Nat /\ manifest.n \in Nat
      /\ manifest.built_n <= manifest.appended_from /\ manifest.appended_from <= manifest.n
  BY DEF Verifies!Describes
<1>3. Verifies!StoredIds(manifest) \subseteq 0 .. manifest.n - 1
  BY <1>2 DEF Verifies!StoredIds
<1>4. ids \subseteq 0 .. manifest.n - 1
  BY <1>3 DEF Verifies!Affected
<1>5. \A id \in ids : id \div per \in bad
  BY DEF Verifies!Affected, Verifies!StoredBlocks
<1>6. bad \subseteq 0 .. manifest.n - 1
  <2>1. ASSUME NEW b \in bad
        PROVE  b \in 0 .. manifest.n - 1
    <3>1. PICK id \in Verifies!StoredIds(manifest) : b = id \div per
      BY DEF Verifies!StoredBlocks
    <3>2. id \in Nat /\ id < manifest.n
      BY <1>2, <1>3, <3>1
    <3>3. b \in Nat /\ per * b <= id
      BY <1>1, <3>1, <3>2, Quotient
    <3>4. b <= per * b
      BY <1>1, <3>3
    <3>5. per * b \in Nat
      BY <1>1, <3>3
    <3>6. QED
      BY <1>2, <3>2, <3>3, <3>4, <3>5
  <2>2. QED
    BY <2>1
<1>7. IsFiniteSet(0 .. manifest.n - 1) /\ Cardinality(0 .. manifest.n - 1) = manifest.n
  <2>1. 0 \in Int /\ manifest.n - 1 \in Int
    BY <1>2
  <2>2. /\ IsFiniteSet(0 .. manifest.n - 1)
        /\ Cardinality(0 .. manifest.n - 1)
             = IF 0 > manifest.n - 1 THEN 0 ELSE (manifest.n - 1) - 0 + 1
    BY <2>1, FS_Interval
  <2>3. QED
    BY <1>2, <2>2
<1> HIDE DEF per, ids
<1>8. IsFiniteSet(bad)
  BY <1>6, <1>7, FS_Subset
<1>9. Cardinality(ids) <= manifest.n
  BY <1>4, <1>7, FS_Subset
<1>10. ids \subseteq Nat
  BY <1>2, <1>4
<1>11. Cardinality(ids) <= Cardinality(bad) * per
  BY <1>1, <1>5, <1>8, <1>10, LostWithBlocks
<1>12. QED
  BY <1>8, <1>9, <1>11 DEF per, ids

\* A region of a kind the table has is an entry of the table, of that kind.
LEMMA RegionFound ==
  ASSUME NEW table \in Verifies!Regions, NEW kind, Verifies!HasRegion(table, kind)
  PROVE  \E i \in DOMAIN table :
           /\ Verifies!Region(table, kind) = table[i] /\ table[i].kind = kind
           /\ table[i].base \in Nat /\ table[i].block_bytes = BlockBytes /\ table[i].blocks \in Nat
<1> DEFINE Found == {i \in 1 .. Len(table) : table[i].kind = kind}
           first == CHOOSE x \in Found : \A y \in Found : x <= y
<1>1. table \in Seq([kind : STRING, protection : STRING, base : Nat,
                     block_bytes : {BlockBytes}, blocks : Nat])
  BY DEF Verifies!Regions
<1>2. DOMAIN table = 1 .. Len(table) /\ Len(table) \in Nat
  BY <1>1
<1>3. Found # {}
  BY <1>2 DEF Verifies!HasRegion
<1>4. \E x \in Found : \A y \in Found : x <= y
  <2>1. Found \subseteq Nat
    BY <1>2
  <2> HIDE DEF Found
  <2>2. QED
    BY <1>3, <2>1, LeastNat
<1>5. first \in Found
  BY <1>4
<1>6. Verifies!Region(table, kind) = table[first]
  <2>1. Verifies!Region(table, kind) = table[Verifies!SelectInSeq(table, LAMBDA r : r.kind = kind)]
    BY DEF Verifies!Region
  <2>2. Verifies!SelectInSeq(table, LAMBDA r : r.kind = kind) = first
    BY <1>3 DEF Verifies!SelectInSeq, Verifies!Min
  <2>3. QED
    BY <2>1, <2>2
<1>7. first \in DOMAIN table /\ table[first].kind = kind
  BY <1>2, <1>5
<1> HIDE DEF first
<1> DEFINE Entry == [kind : STRING, protection : STRING, base : Nat,
                     block_bytes : {BlockBytes}, blocks : Nat]
<1>8. table[first] \in Entry
  <2>1. table \in Seq(Entry)
    BY <1>1
  <2> HIDE DEF Entry
  <2>2. QED
    BY <1>7, <2>1
<1>9. QED
  BY <1>6, <1>7, <1>8

---------------------------------------------------------------------------
(* The report, and the reads it rests on.                                  *)

\* The kinds a table lists.
LEMMA KindsHad ==
  ASSUME NEW volume, NEW manifest, Verifies!Describes(manifest, volume),
         NEW kind \in {"codebook", "replica", "payload", "payloadCrc", "rerank", "rerankCrc"}
  PROVE  Verifies!HasRegion(manifest.table, kind)
<1>1. \A i \in 1 .. 6 : Verifies!HasRegion(manifest.table, Verifies!RegionKinds[i])
  BY DEF Verifies!Describes, Verifies!RegionKinds
<1>2. /\ Verifies!RegionKinds[1] = "codebook" /\ Verifies!RegionKinds[2] = "replica"
      /\ Verifies!RegionKinds[3] = "payload" /\ Verifies!RegionKinds[4] = "payloadCrc"
      /\ Verifies!RegionKinds[5] = "rerank" /\ Verifies!RegionKinds[6] = "rerankCrc"
  BY DEF Verifies!RegionKinds
<1>3. 1 \in 1 .. 6 /\ 2 \in 1 .. 6 /\ 3 \in 1 .. 6 /\ 4 \in 1 .. 6 /\ 5 \in 1 .. 6 /\ 6 \in 1 .. 6
  OBVIOUS
<1>4. QED
  BY <1>1, <1>2, <1>3

\* Where a region is, and how long.
LEMMA RegionIs ==
  ASSUME Verifies!LayoutAssumption, NEW volume, NEW manifest, Verifies!Describes(manifest, volume),
         NEW kind \in {"codebook", "replica", "payload", "payloadCrc", "rerank", "rerankCrc"},
         NEW region, region = Verifies!Region(manifest.table, kind)
  PROVE  /\ region.base \in Nat /\ region.blocks \in Nat /\ region.block_bytes = BlockBytes
         /\ region.base % SectorBytes = 0
         /\ Verifies!ByteLen(region) \in Nat /\ Verifies!ByteLen(region) = region.blocks * BlockBytes
         /\ Verifies!End(region) = region.base + Verifies!ByteLen(region)
         /\ \E i \in DOMAIN manifest.table : region = manifest.table[i] /\ manifest.table[i].kind = kind
<1>1. manifest.table \in Verifies!Regions /\ Verifies!TableValid(manifest.table)
  BY DEF Verifies!Describes
<1>2. PICK i \in DOMAIN manifest.table :
        /\ region = manifest.table[i] /\ manifest.table[i].kind = kind
        /\ manifest.table[i].base \in Nat /\ manifest.table[i].block_bytes = BlockBytes
        /\ manifest.table[i].blocks \in Nat
  BY <1>1, KindsHad, RegionFound
<1>3. region.base % SectorBytes = 0
  BY <1>1, <1>2 DEF Verifies!TableValid, Verifies!RegionValid
<1>4. BlockBytes \in Nat
  BY DEF Verifies!LayoutAssumption
<1>5. Verifies!ByteLen(region) = region.blocks * BlockBytes
  BY <1>2 DEF Verifies!ByteLen
<1>6. region.blocks * BlockBytes \in Nat
  BY <1>2, <1>4
<1>7. QED
  BY <1>2, <1>3, <1>5, <1>6 DEF Verifies!End

\* The blocks of the codebook that are compared are all of them.
LEMMA ComparedAll ==
  ASSUME Verifies!LayoutAssumption, NEW volume, NEW manifest, Verifies!Describes(manifest, volume)
  PROVE  /\ Verifies!Compared(manifest) = Verifies!CodebookBlocks(volume.image)
         /\ \A kind \in {"codebook", "replica"}, b \in Verifies!Compared(manifest) :
              b \in Nat /\ b < Verifies!Region(manifest.table, kind).blocks
<1> DEFINE size == Verifies!CodebookBytes(volume.image)
           data == Verifies!DivCeil(size, BlockBytes)
           one == Verifies!Region(manifest.table, "codebook").blocks
           two == Verifies!Region(manifest.table, "replica").blocks
<1>1. size = Verifies!Pow2(manifest.b) * Verifies!RerankBytes(manifest) /\ size \in Nat
  <2>1. /\ size = Verifies!Pow2(manifest.b) * Verifies!RerankBytes(manifest)
        /\ Verifies!Pow2(manifest.b) \in Nat /\ Verifies!RerankBytes(manifest) \in 1 .. BlockBytes
    BY DEF Verifies!Describes
  <2>2. QED
    BY <2>1
<1>2. BlockBytes \in Nat \ {0}
  BY DEF Verifies!LayoutAssumption
<1>3. data \in Nat /\ \A b \in Nat : b < data <=> BlockBytes * b < size
  BY <1>1, <1>2, DivCeilBlocks
<1>4. /\ one \in Nat /\ two \in Nat /\ size <= one * BlockBytes /\ size <= two * BlockBytes
  <2>1. \A kind \in {"codebook", "replica"} :
          size <= Verifies!ByteLen(Verifies!Region(manifest.table, kind))
    BY DEF Verifies!Describes
  <2>2. \A kind \in {"codebook", "replica"} :
          /\ Verifies!Region(manifest.table, kind).blocks \in Nat
          /\ Verifies!ByteLen(Verifies!Region(manifest.table, kind))
               = Verifies!Region(manifest.table, kind).blocks * BlockBytes
    BY RegionIs
  <2>3. QED
    BY <2>1, <2>2
<1>5. Verifies!Compared(manifest) =
        0 .. (CHOOSE least \in {data, one, two} : \A b \in {data, one, two} : least <= b) - 1
  BY <1>1 DEF Verifies!Compared
<1>6. Verifies!CodebookBlocks(volume.image) = 0 .. data - 1
  BY DEF Verifies!CodebookBlocks
<1> HIDE DEF size, data, one, two
<1>7. data <= one /\ data <= two
  <2>1. ASSUME NEW x \in {one, two} PROVE ~(x < data)
    <3>1. x \in Nat /\ size <= BlockBytes * x /\ BlockBytes * x \in Nat
      BY <1>2, <1>4
    <3>2. QED
      BY <1>1, <1>3, <3>1
  <2>2. QED
    BY <1>3, <1>4, <2>1
<1>8. (CHOOSE least \in {data, one, two} : \A b \in {data, one, two} : least <= b) = data
  <2>1. \A least \in {data, one, two} :
          (\A b \in {data, one, two} : least <= b) => least = data
    BY <1>3, <1>4, <1>7
  <2>2. data \in {data, one, two} /\ \A b \in {data, one, two} : data <= b
    BY <1>3, <1>7
  <2>3. QED
    BY <2>1, <2>2
<1>9. Verifies!Compared(manifest) = 0 .. data - 1
  BY <1>5, <1>8
<1>10. \A b \in 0 .. data - 1 : b \in Nat /\ b < one /\ b < two
  BY <1>3, <1>4, <1>7
<1>11. \A b \in Verifies!Compared(manifest) : b \in Nat /\ b < one /\ b < two
  BY <1>9, <1>10
<1>12. QED
  BY <1>6, <1>9, <1>11 DEF one, two

\* A block of a region ends before the region does.
LEMMA BlockEnds ==
  ASSUME NEW per \in Nat, NEW blocks \in Nat, NEW b \in Nat, b < blocks
  PROVE  b * per \in Nat /\ b * per + per <= blocks * per /\ blocks * per \in Nat
<1>1. b + 1 <= blocks
  OBVIOUS
<1>2. blocks * per = (b + 1) * per + (blocks - (b + 1)) * per
  OBVIOUS
<1>3. (b + 1) * per = b * per + per /\ (blocks - (b + 1)) * per >= 0
  BY <1>1
<1>4. b * per \in Nat /\ blocks * per \in Nat /\ (blocks - (b + 1)) * per \in Int
  OBVIOUS
<1>5. QED
  BY <1>2, <1>3, <1>4

\* The sweep of a described volume: what it visits, and what it calls bad.
LEMMA SweepFinds ==
  ASSUME Verifies!LayoutAssumption, NEW volume, NEW manifest, Verifies!Describes(manifest, volume),
         NEW kind \in {"payload", "rerank"}
  PROVE  /\ Verifies!Swept(manifest, kind) = Verifies!StoredBlocks(manifest, kind)
         /\ Verifies!SweepRegion(volume, manifest, kind).checked
         /\ Verifies!SweepRegion(volume, manifest, kind).bad
              = volume[kind] \cap Verifies!StoredBlocks(manifest, kind)
<1>1. Verifies!RecordsPer(manifest, kind) \in Nat \ {0}
  BY RecordsPerAtLeastOne DEF Verifies!Describes
<1>2. Verifies!Swept(manifest, kind) = Verifies!StoredBlocks(manifest, kind)
  BY <1>1, SweepExact DEF Verifies!Describes
<1>3. Verifies!HasRegion(manifest.table, Verifies!CrcKind(kind))
  BY KindsHad DEF Verifies!CrcKind
<1>4. QED
  BY <1>2, <1>3 DEF Verifies!SweepRegion, Verifies!Checks

\* The report on a described volume is the damage, and no estimate is below what is lost.
LEMMA DamageIsReported ==
  ASSUME Verifies!LayoutAssumption, NEW volume, NEW manifest, Verifies!Describes(manifest, volume),
         NEW report \in Verifies!VerifyVolume(volume, manifest)
  PROVE  Verifies!DamageReported(volume, manifest, report)
<1>1. report = [payload |-> Verifies!SweepRegion(volume, manifest, "payload"),
                rerank |-> Verifies!SweepRegion(volume, manifest, "rerank"),
                codebook |-> Verifies!CodebookReport(volume, manifest),
                status |-> IF Verifies!Differing(volume, manifest) = {} THEN "agree" ELSE "disagree"]
  BY DEF Verifies!VerifyVolume
<1>2. \A kind \in {"payload", "rerank"} :
        report[kind] = Verifies!SweepRegion(volume, manifest, kind)
  BY <1>1
<1>3. \A kind \in {"payload", "rerank"} :
        /\ report[kind].checked
        /\ Verifies!Swept(manifest, kind) = Verifies!StoredBlocks(manifest, kind)
        /\ report[kind].bad = volume[kind] \cap Verifies!StoredBlocks(manifest, kind)
  BY <1>2, SweepFinds
<1>4. /\ Verifies!PayloadBytes(manifest) \in 1 .. BlockBytes
      /\ Verifies!RerankBytes(manifest) \in 1 .. BlockBytes
      /\ manifest.n \in Nat /\ Verifies!Pow2(manifest.b) \in Nat \ {0}
  BY DEF Verifies!Describes
<1>5. Verifies!VectorsWithBadCodes(manifest, report)
        >= Cardinality(Verifies!Affected(volume, manifest, "payload"))
  <2> DEFINE lost == Cardinality(Verifies!Affected(volume, manifest, "payload"))
             most == Cardinality(report.payload.bad) * (BlockBytes \div Verifies!PayloadBytes(manifest))
  <2>1. report["payload"].bad = volume["payload"] \cap Verifies!StoredBlocks(manifest, "payload")
    BY <1>3
  <2>2. lost <= most /\ lost <= manifest.n
    BY <1>4, <2>1, DamageCovered, RecordsPerAtLeastOne
  <2>3. Verifies!VectorsWithBadCodes(manifest, report) = IF most < manifest.n THEN most ELSE manifest.n
    BY SameCount DEF Verifies!VectorsWithBadCodes, Verifies!Least
  <2> HIDE DEF lost, most
  <2>4. Verifies!VectorsWithBadCodes(manifest, report) \in {most, manifest.n}
    BY <2>3
  <2>5. QED
    BY <2>2, <2>4 DEF lost
<1>6. Verifies!CandidatesThatWillDrop(manifest, report)
        >= Cardinality(Verifies!Affected(volume, manifest, "rerank"))
  <2> DEFINE lost == Cardinality(Verifies!Affected(volume, manifest, "rerank"))
             per == BlockBytes \div Verifies!RerankBytes(manifest)
             most == Cardinality(report.rerank.bad) * per
  <2>1. report["rerank"].bad = volume["rerank"] \cap Verifies!StoredBlocks(manifest, "rerank")
    BY <1>3
  <2>2. lost <= most /\ lost <= manifest.n
    BY <1>4, <2>1, DamageCovered, RecordsPerAtLeastOne
  <2>3. Verifies!AtLeastOne(per) = per
    BY <1>4, RecordsFit DEF Verifies!AtLeastOne
  <2>4. Verifies!CandidatesThatWillDrop(manifest, report) = IF most < manifest.n THEN most ELSE manifest.n
    BY <2>3, SameCount DEF Verifies!CandidatesThatWillDrop, Verifies!Least
  <2> HIDE DEF lost, most, per
  <2>5. Verifies!CandidatesThatWillDrop(manifest, report) \in {most, manifest.n}
    BY <2>4
  <2>6. QED
    BY <2>2, <2>5 DEF lost
<1>7. report.codebook.bad = Verifies!Differing(volume, manifest)
      /\ report.codebook.blocks = Cardinality(Verifies!Compared(manifest))
  BY <1>1, SameCount DEF Verifies!CodebookReport
<1>8. IsFiniteSet(Verifies!Compared(manifest)) /\ Cardinality(Verifies!Compared(manifest)) \in Nat
      /\ IsFiniteSet(Verifies!Differing(volume, manifest))
  <2>1. Verifies!Compared(manifest) = Verifies!CodebookBlocks(volume.image)
    BY ComparedAll
  <2>2. Verifies!Differing(volume, manifest) \in SUBSET Verifies!Compared(manifest)
    BY DEF Verifies!Differing
  <2>3. IsFiniteSet(Verifies!Compared(manifest))
    <3>1. Verifies!CodebookBytes(volume.image) \in Nat /\ BlockBytes \in Nat \ {0}
      <4>1. /\ Verifies!CodebookBytes(volume.image)
                 = Verifies!Pow2(manifest.b) * Verifies!RerankBytes(manifest)
        BY DEF Verifies!Describes
      <4>2. QED
        BY <1>4, <4>1 DEF Verifies!LayoutAssumption
    <3>2. Verifies!DivCeil(Verifies!CodebookBytes(volume.image), BlockBytes) - 1 \in Int
      BY <3>1, DivCeilBlocks
    <3>3. QED
      BY <2>1, <3>2, FS_Interval DEF Verifies!CodebookBlocks
  <2>4. QED
    BY <2>2, <2>3, FS_Subset, FS_CardinalityType
<1>9. ASSUME report.codebook.bad # {}, manifest.n >= Verifies!Pow2(manifest.b)
      PROVE  Verifies!VectorsWithBadReconstruction(manifest, report) > 0
  <2> DEFINE bad == Cardinality(report.codebook.bad)
             centroids == Verifies!Pow2(manifest.b)
             blocks == Verifies!AtLeastOne(report.codebook.blocks)
             perBlock == Verifies!DivCeil(centroids, blocks)
             share == (bad * perBlock * manifest.n) \div centroids
  <2>1. bad \in Nat \ {0}
    BY <1>7, <1>8, <1>9, FS_EmptySet, FS_CardinalityType
  <2>2. blocks \in Nat \ {0}
    BY <1>7, <1>8 DEF Verifies!AtLeastOne
  <2>3. perBlock \in Nat \ {0}
    <3>1. perBlock \in Nat /\ (0 < perBlock <=> blocks * 0 < centroids)
      BY <1>4, <2>2, DivCeilBlocks
    <3>2. QED
      BY <1>4, <2>2, <3>1
  <2>4. Verifies!VectorsWithBadReconstruction(manifest, report)
          = IF bad = 0 THEN 0 ELSE IF share < manifest.n THEN share ELSE manifest.n
    BY SameCount DEF Verifies!VectorsWithBadReconstruction, Verifies!Least
  <2>5. centroids \in Nat \ {0} /\ manifest.n >= centroids
    BY <1>4, <1>9
  <2> HIDE DEF bad, centroids, blocks, perBlock
  <2>6. share \in Nat /\ share # 0
    <3> DEFINE product == bad * perBlock * manifest.n
    <3>1. bad * perBlock \in Nat \ {0}
      BY <2>1, <2>3
    <3> DEFINE factor == bad * perBlock
    <3> HIDE DEF factor
    <3>2. factor \in Nat \ {0} /\ product = factor * manifest.n
      BY <3>1 DEF factor
    <3>3. factor * manifest.n >= manifest.n /\ factor * manifest.n \in Nat
      BY <1>4, <3>2
    <3> HIDE DEF product
    <3>4. product \in Nat /\ product >= centroids
      BY <1>4, <2>5, <3>2, <3>3
    <3>5. product \div centroids \in Nat /\ product < centroids * (product \div centroids) + centroids
      BY <2>5, <3>4, Quotient
    <3>6. product \div centroids # 0
      BY <2>5, <3>4, <3>5
    <3>7. QED
      BY <3>5, <3>6 DEF product
  <2> HIDE DEF share
  <2>7. QED
    BY <1>4, <2>1, <2>4, <2>5, <2>6
<1>10. (report.status = "agree") <=>
         \A b \in Verifies!CodebookBlocks(volume.image) : volume.codebook[1][b] = volume.codebook[2][b]
  <2>1. (report.status = "agree") <=> Verifies!Differing(volume, manifest) = {}
    BY <1>1
  <2>2. Verifies!Differing(volume, manifest) = {} <=>
          \A b \in Verifies!Compared(manifest) : volume.codebook[1][b] = volume.codebook[2][b]
    BY DEF Verifies!Differing
  <2>3. QED
    BY <2>1, <2>2, ComparedAll
<1>11. QED
  BY <1>3, <1>5, <1>6, <1>9, <1>10, SameCount DEF Verifies!DamageReported

\* A read that ends where its region does, or before, ends inside a file that has the region.
LEMMA ReadsInside ==
  ASSUME NEW volume, NEW length \in Nat, volume.length = length, NEW at, NEW len, NEW end \in Nat,
         at + len \in Nat, at + len <= end, end <= length
  PROVE  Verifies!Reads(volume, at, len)
  BY DEF Verifies!Reads

\* A volume whose file holds every region is verified: no read of the sweep is refused.
LEMMA InspectedIsVerified ==
  ASSUME Verifies!LayoutAssumption, NEW volume, NEW manifest, Verifies!Describes(manifest, volume),
         Verifies!InspectAccepts(volume, manifest.table)
  PROVE  Verifies!VerifyVolume(volume, manifest) # {}
<1>1. /\ volume.length \in Nat /\ BlockBytes \in Nat \ {0}
      /\ \A i \in DOMAIN manifest.table : Verifies!End(manifest.table[i]) <= volume.length
      /\ Verifies!Opens(volume)
  BY DEF Verifies!Describes, Verifies!LayoutAssumption, Verifies!InspectAccepts
<1> DEFINE Kinds == {"codebook", "replica", "payload", "payloadCrc", "rerank", "rerankCrc"}
           At(kind) == Verifies!Region(manifest.table, kind)
<1>2. ASSUME NEW kind \in Kinds
      PROVE  /\ At(kind).base \in Nat /\ At(kind).blocks \in Nat
             /\ At(kind).block_bytes = BlockBytes
             /\ Verifies!ByteLen(At(kind)) \in Nat
             /\ Verifies!ByteLen(At(kind)) = At(kind).blocks * BlockBytes
             /\ At(kind).base + Verifies!ByteLen(At(kind)) <= volume.length
  BY <1>1, RegionIs
<1> HIDE DEF At
<1>3. ASSUME NEW kind \in Kinds, NEW b \in Nat, b < At(kind).blocks
      PROVE  Verifies!Reads(volume, Verifies!BlockOffset(At(kind), b), BlockBytes)
  <2>1. /\ b * BlockBytes \in Nat /\ b * BlockBytes + BlockBytes <= At(kind).blocks * BlockBytes
        /\ At(kind).blocks * BlockBytes \in Nat
    BY <1>1, <1>2, <1>3, BlockEnds
  <2>2. At(kind).base + b * BlockBytes + BlockBytes <= volume.length
    BY <1>1, <1>2, <2>1
  <2>3. QED
    BY <1>2, <2>2 DEF Verifies!Reads, Verifies!BlockOffset
<1>4. Verifies!MountsFile(volume, manifest)
  <2>1. /\ Verifies!CodebookBytes(volume.image)
             = Verifies!Pow2(manifest.b) * Verifies!RerankBytes(manifest)
        /\ Verifies!CodebookBytes(volume.image) <= Verifies!ByteLen(At("codebook"))
        /\ Verifies!Pow2(manifest.b) \in Nat /\ Verifies!RerankBytes(manifest) \in 1 .. BlockBytes
    BY DEF Verifies!Describes, At
  <2>2. Verifies!Pow2(manifest.b) * Verifies!RerankBytes(manifest) \in Nat
    BY <1>1, <2>1
  <2>3. At("codebook").base + Verifies!Pow2(manifest.b) * Verifies!RerankBytes(manifest)
          <= volume.length
    BY <1>1, <1>2, <2>1, <2>2
  <2>4. QED
    BY <1>1, <2>3 DEF Verifies!MountsFile, Verifies!Reads, At
<1>5. Verifies!CompareReads(volume, manifest)
  <2>1. ASSUME NEW b \in Verifies!Compared(manifest), NEW kind \in {"codebook", "replica"}
        PROVE  Verifies!Reads(volume, Verifies!BlockOffset(At(kind), b), BlockBytes)
    <3>1. b \in Nat /\ b < At(kind).blocks
      BY ComparedAll DEF At
    <3>2. QED
      BY <1>3, <3>1
  <2>2. QED
    BY <2>1 DEF Verifies!CompareReads, At
<1>6. ASSUME NEW kind \in {"payload", "rerank"}
      PROVE  Verifies!SweepReads(volume, manifest, kind)
  <2> DEFINE per == Verifies!RecordsPer(manifest, kind)
             blocks == Verifies!DivCeil(manifest.n, per)
             crc == Verifies!CrcKind(kind)
  <2>1. per \in Nat \ {0}
    BY RecordsPerAtLeastOne DEF Verifies!Describes
  <2>2. manifest.n \in Nat /\ manifest.built_n \in Nat /\ manifest.appended_from \in Nat
        /\ manifest.built_n <= manifest.appended_from /\ manifest.appended_from <= manifest.n
    BY DEF Verifies!Describes
  <2>3. blocks \in Nat /\ \A b \in Nat : b < blocks <=> per * b < manifest.n
    BY <2>1, <2>2, DivCeilBlocks
  <2>4. blocks <= At(kind).blocks /\ blocks * Verifies!CrcBytes <= Verifies!ByteLen(At(crc))
    BY DEF Verifies!Describes, Verifies!HoldsRecords, At
  <2>5. crc \in Kinds
    BY DEF Verifies!CrcKind
  <2>6. ASSUME NEW b \in Verifies!Swept(manifest, kind)
        PROVE  b \in Nat /\ b < blocks
    <3>1. Verifies!Swept(manifest, kind) = Verifies!StoredBlocks(manifest, kind)
      BY SweepFinds
    <3>2. PICK id \in Verifies!StoredIds(manifest) : b = id \div per
      BY <3>1 DEF Verifies!StoredBlocks
    <3>3. id \in Nat /\ id < manifest.n
      BY <2>2, <3>2 DEF Verifies!StoredIds
    <3>4. b \in Nat /\ per * b <= id
      BY <2>1, <3>2, <3>3, Quotient
    <3>5. per * b \in Nat
      BY <2>1, <3>4
    <3>6. per * b < manifest.n
      BY <2>2, <3>3, <3>4, <3>5
    <3>7. QED
      BY <2>3, <3>4, <3>6
  <2> HIDE DEF per, blocks, crc
  <2>7. ASSUME NEW b \in Verifies!Swept(manifest, kind)
        PROVE  Verifies!Reads(volume, Verifies!BlockOffset(At(kind), b), BlockBytes)
    <3>1. b < At(kind).blocks
      BY <1>2, <2>3, <2>4, <2>6
    <3>2. QED
      BY <1>3, <2>6, <3>1
  <2>8. ASSUME NEW b \in Verifies!Swept(manifest, kind)
        PROVE  Verifies!Reads(volume, At(crc).base + b * Verifies!CrcBytes, Verifies!CrcBytes)
    <3>1. Verifies!CrcBytes \in Nat
      BY DEF Verifies!CrcBytes
    <3>2. /\ b * Verifies!CrcBytes \in Nat
          /\ b * Verifies!CrcBytes + Verifies!CrcBytes <= blocks * Verifies!CrcBytes
          /\ blocks * Verifies!CrcBytes \in Nat
      BY <2>3, <2>6, <3>1, BlockEnds
    <3>3. At(crc).base \in Nat /\ Verifies!ByteLen(At(crc)) \in Nat
          /\ At(crc).base + Verifies!ByteLen(At(crc)) <= volume.length
      BY <1>2, <2>5
    <3>4. At(crc).base + b * Verifies!CrcBytes + Verifies!CrcBytes <= volume.length
      BY <1>1, <2>4, <3>1, <3>2, <3>3
    <3>5. QED
      BY <3>4 DEF Verifies!Reads
  <2>9. QED
    BY <2>7, <2>8 DEF Verifies!SweepReads, At, crc
<1>7. QED
  BY <1>4, <1>5, <1>6 DEF Verifies!VerifyVolume

\* No kind of region is damaged when none is counted.
LEMMA NoneDamaged ==
  ASSUME NEW report
  PROVE  Verifies!DamagedRegions(report) = 0 <=> Verifies!ReportIsClean(report)
<1> DEFINE Kinds == {"payload", "rerank", "codebook"}
           Damaged == {kind \in Kinds : ~Verifies!RegionIsClean(report[kind])}
<1>1. IsFiniteSet(Kinds)
  <2>1. IsFiniteSet({})
    BY FS_EmptySet
  <2>2. IsFiniteSet({} \cup {"payload"})
    BY <2>1, FS_AddElement
  <2>3. IsFiniteSet(({} \cup {"payload"}) \cup {"rerank"})
    BY <2>2, FS_AddElement
  <2>4. IsFiniteSet((({} \cup {"payload"}) \cup {"rerank"}) \cup {"codebook"})
    BY <2>3, FS_AddElement
  <2>5. Kinds = (({} \cup {"payload"}) \cup {"rerank"}) \cup {"codebook"}
    OBVIOUS
  <2>6. QED
    BY <2>4, <2>5
<1>2. IsFiniteSet(Damaged)
  BY <1>1, FS_Subset
<1>3. Verifies!DamagedRegions(report) = Cardinality(Damaged)
  BY SameCount DEF Verifies!DamagedRegions
<1>4. Cardinality(Damaged) = 0 <=> Damaged = {}
  BY <1>2, FS_EmptySet
<1>5. Damaged = {} <=> Verifies!ReportIsClean(report)
  BY DEF Verifies!ReportIsClean
<1>6. QED
  BY <1>3, <1>4, <1>5

\* What a cut file is taken for.
LEMMA CutIsNotClean ==
  ASSUME Verifies!LayoutAssumption, NEW volume, NEW manifest, Verifies!Describes(manifest, volume)
  PROVE  Verifies!CutNotClean(volume, manifest, Verifies!VerifyVolume(volume, manifest))
<1> DEFINE reports == Verifies!VerifyVolume(volume, manifest)
<1>1. \A report \in reports :
        report = [payload |-> Verifies!SweepRegion(volume, manifest, "payload"),
                  rerank |-> Verifies!SweepRegion(volume, manifest, "rerank"),
                  codebook |-> Verifies!CodebookReport(volume, manifest),
                  status |-> IF Verifies!Differing(volume, manifest) = {} THEN "agree" ELSE "disagree"]
  BY DEF Verifies!VerifyVolume
<1>2. reports # {} => \A kind \in {"payload", "rerank"} : Verifies!SweepReads(volume, manifest, kind)
  BY DEF Verifies!VerifyVolume
<1>3. Verifies!VerifyExit(reports) =
        IF reports = {} THEN 2
        ELSE IF \A report \in reports : Verifies!DamagedRegions(report) = 0 THEN 0 ELSE 1
  BY DEF Verifies!VerifyExit
<1>4. Verifies!InspectAccepts(volume, manifest.table) => reports # {}
  BY InspectedIsVerified
<1> HIDE DEF reports
<1>5. ASSUME Verifies!VerifyExit(reports) = 0, NEW kind \in {"payload", "rerank"},
             NEW b \in Verifies!StoredBlocks(manifest, kind)
      PROVE  /\ Verifies!Reads(volume, Verifies!BlockOffset(Verifies!Region(manifest.table, kind), b),
                               BlockBytes)
             /\ b \notin volume[kind]
  <2>1. PICK report \in reports : Verifies!DamagedRegions(report) = 0
    BY <1>3, <1>5
  <2>2. report[kind] = Verifies!SweepRegion(volume, manifest, kind)
    BY <1>1
  <2>3. report[kind].bad = {}
    BY <2>1, NoneDamaged DEF Verifies!ReportIsClean, Verifies!RegionIsClean
  <2>4. b \notin volume[kind]
    BY <2>2, <2>3, SweepFinds
  <2>5. b \in Verifies!Swept(manifest, kind)
    BY SweepFinds
  <2>6. Verifies!SweepReads(volume, manifest, kind)
    BY <1>2, <2>1
  <2>7. QED
    BY <2>4, <2>5, <2>6 DEF Verifies!SweepReads
<1>6. ASSUME Verifies!InspectAccepts(volume, manifest.table)
      PROVE  /\ Verifies!VerifyExit(reports) # 2
             /\ volume.length >= Verifies!End(manifest.table[Len(manifest.table)])
  <2>1. Verifies!VerifyExit(reports) # 2
    BY <1>3, <1>4, <1>6
  <2>2. Verifies!HasRegion(manifest.table, "codebook") /\ manifest.table \in Verifies!Regions
    BY KindsHad DEF Verifies!Describes
  <2>3. Len(manifest.table) \in DOMAIN manifest.table
    BY <2>2 DEF Verifies!HasRegion, Verifies!Regions
  <2>4. Verifies!End(manifest.table[Len(manifest.table)]) <= volume.length
    BY <1>6, <2>3 DEF Verifies!InspectAccepts
  <2>5. volume.length \in Nat /\ Verifies!End(manifest.table[Len(manifest.table)]) \in Nat
    <3> DEFINE Entry == [kind : STRING, protection : STRING, base : Nat,
                         block_bytes : {BlockBytes}, blocks : Nat]
               last == manifest.table[Len(manifest.table)]
    <3>1. last \in Entry
      <4>1. manifest.table \in Seq(Entry)
        BY <2>2 DEF Verifies!Regions
      <4> HIDE DEF Entry
      <4>2. QED
        BY <2>3, <4>1
    <3>2. last.base \in Nat /\ last.blocks \in Nat /\ last.block_bytes \in Nat
      BY <3>1 DEF Verifies!LayoutAssumption
    <3>3. last.blocks * last.block_bytes \in Nat
      BY <3>2
    <3>4. volume.length \in Nat
      BY DEF Verifies!Describes
    <3> HIDE DEF last
    <3>5. QED
      BY <3>2, <3>3, <3>4 DEF Verifies!End, Verifies!ByteLen, last
  <2>6. QED
    BY <2>1, <2>4, <2>5
<1>7. Verifies!VerifyExit(reports) = 1 <=> reports # {} /\ Verifies!RepairRefuses(reports)
  <2>1. Verifies!VerifyExit(reports) = 1 <=>
          reports # {} /\ ~\A report \in reports : Verifies!DamagedRegions(report) = 0
    BY <1>3
  <2>2. \A one, other \in reports : one = other
    BY <1>1
  <2>3. QED
    BY <2>1, <2>2, NoneDamaged DEF Verifies!RepairRefuses
<1>8. QED
  BY <1>5, <1>6, <1>7 DEF Verifies!CutNotClean, reports

\* What leaves no remainder is its quotient's multiple.
LEMMA WholeMultiple ==
  ASSUME NEW a \in Nat, NEW k \in Nat \ {0}, a % k = 0
  PROVE  a = k * (a \div k)
<1> DEFINE q == a \div k
<1>1. q \in Nat /\ a % k = a - k * q
  BY Quotient
<1> HIDE DEF q
<1>2. k * q \in Nat
  BY <1>1
<1>3. a = k * q
  BY <1>1, <1>2
<1>4. QED
  BY <1>3 DEF q

\* The copies of the codebook begin in erase sectors of their own.
LEMMA ReplicaIsApart ==
  ASSUME Verifies!LayoutAssumption, NEW volume, NEW manifest, Verifies!Describes(manifest, volume)
  PROVE  Verifies!ReplicaApart(manifest.table)
<1> DEFINE one == Verifies!Region(manifest.table, "codebook")
           two == Verifies!Region(manifest.table, "replica")
<1>1. SectorBytes \in Nat \ {0}
  BY DEF Verifies!LayoutAssumption
<1>2. PICK i \in DOMAIN manifest.table :
        one = manifest.table[i] /\ manifest.table[i].kind = "codebook"
  BY RegionIs
<1>3. PICK j \in DOMAIN manifest.table :
        two = manifest.table[j] /\ manifest.table[j].kind = "replica"
  BY RegionIs
<1>4. /\ one.base \in Nat /\ one.base % SectorBytes = 0
      /\ Verifies!ByteLen(one) \in Nat /\ Verifies!End(one) = one.base + Verifies!ByteLen(one)
  BY RegionIs
<1>5. /\ two.base \in Nat /\ two.base % SectorBytes = 0
      /\ Verifies!ByteLen(two) \in Nat /\ Verifies!End(two) = two.base + Verifies!ByteLen(two)
  BY RegionIs
<1>6. Verifies!ByteLen(one) > 0 /\ Verifies!ByteLen(two) > 0
  <2>1. /\ Verifies!CodebookBytes(volume.image)
             = Verifies!Pow2(manifest.b) * Verifies!RerankBytes(manifest)
        /\ Verifies!Pow2(manifest.b) \in Nat \ {0}
        /\ Verifies!RerankBytes(manifest) \in 1 .. BlockBytes /\ BlockBytes \in Nat
        /\ Verifies!CodebookBytes(volume.image) <= Verifies!ByteLen(one)
        /\ Verifies!CodebookBytes(volume.image) <= Verifies!ByteLen(two)
    BY DEF Verifies!Describes, Verifies!LayoutAssumption
  <2>2. Verifies!Pow2(manifest.b) * Verifies!RerankBytes(manifest) \in Nat \ {0}
    BY <2>1
  <2>3. QED
    BY <1>4, <1>5, <2>1, <2>2
<1>7. i # j
  BY <1>2, <1>3
<1>8. ~Verifies!Overlap(one, two) /\ ~Verifies!Overlap(two, one)
  <2>1. manifest.table \in Verifies!Regions /\ Verifies!TableValid(manifest.table)
    BY DEF Verifies!Describes
  <2>2. i \in Nat /\ j \in Nat
    BY <2>1 DEF Verifies!Regions
  <2>3. i < j \/ j < i
    BY <1>7, <2>2
  <2>4. ~Verifies!Overlap(one, two) \/ ~Verifies!Overlap(two, one)
    BY <1>2, <1>3, <2>1, <2>3 DEF Verifies!TableValid
  <2>5. QED
    BY <2>4 DEF Verifies!Overlap
<1> HIDE DEF one, two
<1>9. one.base # two.base
  BY <1>4, <1>5, <1>6, <1>8 DEF Verifies!Overlap
<1>10. /\ one.base = SectorBytes * (one.base \div SectorBytes)
       /\ two.base = SectorBytes * (two.base \div SectorBytes)
  BY <1>1, <1>4, <1>5, WholeMultiple
<1>11. one.base \div SectorBytes # two.base \div SectorBytes
  BY <1>9, <1>10
<1>12. QED
  BY <1>11 DEF Verifies!ReplicaApart, one, two

\* For every volume that its manifest describes, whatever the sizes: the sweep reports the
\* damage that is there and no other, its estimates are never below what is lost, and a file
\* that lost the end of what it holds is not found clean (verify.rs, verify_cmd.rs).
THEOREM ReportIsTrue ==
  ASSUME Verifies!LayoutAssumption, NEW volume, NEW manifest, Verifies!Describes(manifest, volume)
  PROVE  Verifies!VerifySoundUnder(volume, manifest, Verifies!VerifyVolume(volume, manifest))
  BY DamageIsReported, CutIsNotClean, ReplicaIsApart DEF Verifies!VerifySoundUnder

\* The volume of an image with whole appends, under the manifest that build and append leave:
\* what the run on small volumes checks.
THEOREM VerificationSound ==
  ASSUME Verifies!LayoutAssumption, NEW volume,
         Verifies!Emits(volume.image) => Verifies!Describes(Verifies!ManifestOf(volume), volume)
  PROVE  Verifies!VerifySound(volume)
  BY ReportIsTrue DEF Verifies!VerifySound
=============================================================================

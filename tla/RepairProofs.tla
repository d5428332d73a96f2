---------------------------- MODULE RepairProofs ----------------------------
(***************************************************************************)
(* Theorems about Repair, for any number of copies, blocks and faults.     *)
(***************************************************************************)
EXTENDS Repair, TLAPS

---------------------------------------------------------------------------
(***************************************************************************)
(* Type correctness.                                                       *)
(***************************************************************************)
LEMMA Geometry ==
  /\ Copies \in Nat /\ 0 < Copies /\ Blocks \in Nat /\ 0 < Blocks
  /\ 0 \in Copy /\ 0 \in Block /\ Copy \subseteq Nat /\ Block \subseteq Nat
BY GeometryAssumption DEF Copy, Block

LEMMA NewPassType ==
  ASSUME NEW d \in SUBSET Block
  PROVE  NewPass(d) \in PassRecord
<1>1. <<>> \in Seq(Block)
  OBVIOUS
<1> DEFINE S == Seq(Block)
<1>2. <<>> \in S
  BY <1>1
<1>3. PassRecord = [damaged : SUBSET Block, verified : S,
                    reported : SUBSET Block, unreported : SUBSET Block]
  BY DEF PassRecord
<1> HIDE DEF S
<1>4. QED
  BY <1>2, <1>3 DEF NewPass

LEMMA Empties ==
  /\ <<>> \in Seq(Block) /\ <<>> \in Seq(Copy \X Block)
  /\ NoStats \in ScrubStats /\ NoTarget \in TargetRecord
<1>1. <<>> \in Seq(Block) /\ <<>> \in Seq(Copy \X Block)
  OBVIOUS
<1>2. NoStats \in ScrubStats
  BY DEF NoStats, ScrubStats
<1>3. NoTarget \in TargetRecord
  BY Geometry DEF NoTarget, TargetRecord
<1>4. QED
  BY <1>1, <1>2, <1>3

LEMMA DamagedType == ASSUME NEW c PROVE Damaged(c) \in SUBSET Block
BY DEF Damaged

LEMMA ReportedType == ASSUME TypeOK PROVE ToSet(failed) \subseteq Block
<1>1. failed \in Seq(Block)
  BY DEF TypeOK
<1>2. QED
  BY <1>1 DEF ToSet

LEMMA RepairTypeInit == Init => TypeOK
<1> SUFFICES ASSUME Init PROVE TypeOK
  OBVIOUS
<1>1. pass \in PassRecord
  BY NewPassType DEF Init
<1>2. flash \in [Copy -> [Block -> BlockState]]
  BY DEF Init, BlockState
<1>3. Len(failed) <= FailedOut /\ failed \in Seq(Block) /\ queue \in Seq(Copy \X Block)
  BY Empties, GeometryAssumption DEF Init
<1>4. QED
  BY <1>1, <1>2, <1>3, Empties, Geometry DEF TypeOK, Init

LEMMA ScrubTypes ==
  ASSUME TypeOK, ScrubBlock \/ EndScrub \/ \E n \in Budgets : StartScrub(n)
  PROVE  TypeOK'
<1> USE DEF scrubVars, repairVars
<1>1. CASE \E n \in Budgets : StartScrub(n)
  <2>1. PICK n \in Budgets : StartScrub(n)
    BY <1>1
  <2>2. n \in Nat
    BY GeometryAssumption
  <2>3. pass' \in PassRecord
    BY <2>1, DamagedType, NewPassType DEF TypeOK, StartScrub
  <2>4. failed' \in Seq(Block) /\ Len(failed') <= FailedOut
    BY <2>1, Empties, GeometryAssumption DEF StartScrub
  <2>5. QED
    BY <2>1, <2>2, <2>3, <2>4, Empties DEF TypeOK, StartScrub
<1>2. CASE ScrubBlock
  <2>1. cursor \in Block /\ cursor + 1 \in 0 .. Blocks /\ budget - 1 \in Nat
    BY <1>2, Geometry DEF TypeOK, ScrubBlock, Block
  <2>2. Append(failed, cursor) \in Seq(Block)
        /\ Len(Append(failed, cursor)) = Len(failed) + 1
    BY <2>1 DEF TypeOK
  <2>3. /\ failed' = failed \/ (failed' = Append(failed, cursor) /\ Len(failed) < FailedOut)
    BY <1>2 DEF ScrubBlock, Found
  <2>4. failed' \in Seq(Block) /\ Len(failed') <= FailedOut
    <3>1. Len(failed) \in Nat /\ FailedOut \in Nat
      BY GeometryAssumption DEF TypeOK
    <3>2. QED
      BY <2>2, <2>3, <3>1 DEF TypeOK
  <2>5. stats' \in ScrubStats
    <3>1. /\ stats \in ScrubStats
          /\ stats.failed + 1 \in Nat /\ stats.verified + 1 \in Nat
      BY DEF TypeOK, ScrubStats
    <3>2. /\ [stats EXCEPT !.verified = @ + 1] \in ScrubStats
          /\ [stats EXCEPT !.failed = @ + 1] \in ScrubStats
          /\ [[stats EXCEPT !.failed = @ + 1] EXCEPT !.verified = @ + 1] \in ScrubStats
      BY <3>1 DEF ScrubStats
    <3>3. QED
      BY <1>2, <3>2 DEF ScrubBlock, Found
  <2>6. pass' \in PassRecord
    <3> DEFINE S == Seq(Block)
    <3>1. PassRecord = [damaged : SUBSET Block, verified : S,
                        reported : SUBSET Block, unreported : SUBSET Block]
      BY DEF PassRecord
    <3>2. pass \in PassRecord
      BY DEF TypeOK
    <3>3. pass.verified \in S
      BY <3>1, <3>2
    <3>4. Append(pass.verified, cursor) \in S
      BY <2>1, <3>3
    <3>5. PICK u \in SUBSET Block :
            pass' = [pass EXCEPT !.verified = Append(@, cursor), !.unreported = u]
      BY <1>2, <2>1, <3>1, <3>2 DEF ScrubBlock
    <3> HIDE DEF S
    <3>6. QED
      BY <3>1, <3>2, <3>4, <3>5
  <2>7. QED
    BY <1>2, <2>1, <2>4, <2>5, <2>6 DEF TypeOK, ScrubBlock
<1>3. CASE EndScrub
  <2>1. stats' \in ScrubStats
    <3>1. stats \in ScrubStats
      BY DEF TypeOK
    <3>2. AtEnd \in BOOLEAN
      BY DEF AtEnd
    <3>3. [stats EXCEPT !.completed = AtEnd] \in ScrubStats
      <4> DEFINE e == AtEnd
      <4>1. e \in BOOLEAN
        BY <3>2
      <4> HIDE DEF e
      <4>2. [stats EXCEPT !.completed = e] \in ScrubStats
        BY <3>1, <4>1 DEF ScrubStats
      <4>3. QED
        BY <4>2 DEF e
    <3>4. QED
      BY <1>3, <3>3 DEF EndScrub
  <2>2. cursor' \in 0 .. Blocks
    BY <1>3, Geometry DEF TypeOK, EndScrub
  <2>3. region' \in Copy
    <3>1. region + 1 \in Nat
      BY Geometry DEF TypeOK
    <3>2. (region + 1) % Copies \in Copy
      BY <3>1, Geometry DEF Copy
    <3>3. QED
      BY <1>3, <3>2 DEF TypeOK, EndScrub
  <2>4. queue' \in Seq(Copy \X Block)
    <3>1. Len(failed) \in Nat /\ \A i \in 1 .. Len(failed) : failed[i] \in Block
      BY DEF TypeOK
    <3>2. [i \in 1 .. Len(failed) |-> <<region, failed[i]>>] \in Seq(Copy \X Block)
      BY <3>1 DEF TypeOK
    <3>3. QED
      BY <1>3, <3>2 DEF EndScrub
  <2>5. pass' \in PassRecord
    <3>1. pass \in PassRecord /\ pass.reported \cup ToSet(failed) \in SUBSET Block
      BY ReportedType DEF TypeOK, PassRecord
    <3> DEFINE S == Seq(Block)
    <3>2. PassRecord = [damaged : SUBSET Block, verified : S,
                        reported : SUBSET Block, unreported : SUBSET Block]
      BY DEF PassRecord
    <3> HIDE DEF S
    <3>3. QED
      BY <1>3, <3>1, <3>2 DEF EndScrub
  <2>6. QED
    BY <1>3, <2>1, <2>2, <2>3, <2>4, <2>5 DEF TypeOK, EndScrub
<1>4. QED
  BY <1>1, <1>2, <1>3

LEMMA RepairTypes ==
  ASSUME TypeOK, StartRepair \/ ReadPrimary \/ ReadReplica \/ Erase \/ Program
  PROVE  TypeOK'
<1> USE DEF scrubVars, repairVars
<1>1. target.copy \in Copy /\ target.block \in Block /\ target.from + 1 \in Nat
  BY DEF TypeOK, TargetRecord
<1>2. CASE StartRepair
  <2>1. queue # <<>> /\ queue \in Seq(Copy \X Block)
    BY <1>2 DEF TypeOK, StartRepair
  <2>2. Head(queue) \in Copy \X Block /\ Tail(queue) \in Seq(Copy \X Block)
    BY <2>1
  <2>3. target' \in TargetRecord
    BY <1>2, <2>2 DEF StartRepair, TargetRecord
  <2>4. QED
    BY <1>2, <2>2, <2>3 DEF TypeOK, StartRepair
<1>3. CASE ReadPrimary
  <2>1. [target EXCEPT !.from = 1] \in TargetRecord
    BY DEF TypeOK, TargetRecord
  <2>2. QED
    BY <1>3, <2>1 DEF TypeOK, ReadPrimary, Return
<1>4. CASE ReadReplica
  <2>1. [target EXCEPT !.from = @ + 1] \in TargetRecord
    BY <1>1 DEF TypeOK, TargetRecord
  <2>2. QED
    BY <1>4, <2>1 DEF TypeOK, ReadReplica, Return
<1>5. CASE Erase
  <2>1. flash' \in [Copy -> [Block -> BlockState]]
    <3>1. /\ flash \in [Copy -> [Block -> BlockState]]
          /\ "erased" \in BlockState
      BY DEF TypeOK, BlockState
    <3>2. QED
      BY <1>1, <1>5, <3>1 DEF Erase, EraseCopy
  <2>2. QED
    BY <1>5, <2>1 DEF TypeOK, Erase
<1>6. CASE Program
  <2>1. flash' \in [Copy -> [Block -> BlockState]]
    <3>1. /\ flash \in [Copy -> [Block -> BlockState]]
          /\ "good" \in BlockState
      BY DEF TypeOK, BlockState
    <3>2. QED
      BY <1>1, <1>6, <3>1 DEF Program
  <2>2. QED
    BY <1>6, <2>1 DEF TypeOK, Program, Return
<1>7. QED
  BY <1>2, <1>3, <1>4, <1>5, <1>6

LEMMA DeviceTypes ==
  ASSUME TypeOK, AccessFails \/ PowerLoss \/ \E c \in Copy, b \in Block : Rot(c, b)
  PROVE  TypeOK'
<1> USE DEF scrubVars, repairVars
<1>1. CASE \E c \in Copy, b \in Block : Rot(c, b)
  <2>1. PICK c \in Copy, b \in Block : Rot(c, b)
    BY <1>1
  <2>2. flash \in [Copy -> [Block -> BlockState]] /\ "bad" \in BlockState
    BY DEF TypeOK, BlockState
  <2>3. flash' \in [Copy -> [Block -> BlockState]]
    BY <2>1, <2>2 DEF Rot
  <2>4. QED
    BY <2>1, <2>3 DEF TypeOK, Rot
<1>2. CASE AccessFails
  <2>1. pass' \in PassRecord
    <3>1. pass \in PassRecord /\ pass.unreported \cup ToSet(failed) \in SUBSET Block
      BY ReportedType DEF TypeOK, PassRecord
    <3> DEFINE S == Seq(Block)
    <3>2. PassRecord = [damaged : SUBSET Block, verified : S,
                        reported : SUBSET Block, unreported : SUBSET Block]
      BY DEF PassRecord
    <3> HIDE DEF S
    <3>3. QED
      BY <1>2, <3>1, <3>2 DEF AccessFails
  <2>2. QED
    BY <1>2, <2>1 DEF TypeOK, AccessFails
<1>3. CASE PowerLoss
  <2>1. pass' \in PassRecord
    BY <1>3, NewPassType DEF PowerLoss
  <2>2. Len(failed') <= FailedOut
    BY <1>3, GeometryAssumption DEF PowerLoss
  <2>3. QED
    BY <1>3, <2>1, <2>2, Empties, Geometry DEF TypeOK, PowerLoss
<1>4. QED
  BY <1>1, <1>2, <1>3

LEMMA RepairTypeStep == TypeOK /\ [Next]_vars => TypeOK'
<1> SUFFICES ASSUME TypeOK, [Next]_vars PROVE TypeOK'
  OBVIOUS
<1>1. CASE Next
  BY <1>1, ScrubTypes, RepairTypes, DeviceTypes DEF Next
<1>2. CASE UNCHANGED vars
  BY <1>2 DEF TypeOK, vars, scrubVars, repairVars
<1>3. QED
  BY <1>1, <1>2

\* Every variable keeps its type, whatever rots or fails: the cursor stays in
\* the region, and the report never outgrows its buffer (scrub.rs).
THEOREM RepairTypeCorrect == Spec => []TypeOK
BY RepairTypeInit, RepairTypeStep, PTL DEF Spec

---------------------------------------------------------------------------
(***************************************************************************)
(* What a repair puts at risk.  The block under repair was read as damaged *)
(* and can only be made good by the repair itself, so from then on no good *)
(* copy of it lies where the repair erases.                                *)
(***************************************************************************)
RiskInv ==
  pc \in {"replica", "erase", "program"} =>
    /\ ~Verifies(target.copy, target.block)
    /\ protection = "replicate"

IInv == TypeOK /\ RiskInv

LEMMA TargetInRange ==
  ASSUME TypeOK
  PROVE  /\ target.copy \in Copy /\ target.block \in Block
         /\ flash \in [Copy -> [Block -> BlockState]]
         /\ flash[target.copy] \in [Block -> BlockState]
BY DEF TypeOK, TargetRecord

\* An erase leaves every other sector, and the other copies, as they were.
LEMMA EraseChanges ==
  ASSUME TypeOK, Erase
  PROVE  /\ flash'[target.copy][target.block] = "erased"
         /\ \A c \in Copy, b \in Block :
              c # target.copy \/ SectorOf(b) # SectorOf(target.block) =>
                flash'[c][b] = flash[c][b]
<1>1. flash' = [flash EXCEPT ![target.copy] =
                  [b \in Block |->
                     IF SectorOf(b) = SectorOf(target.block)
                     THEN "erased" ELSE flash[target.copy][b]]]
  BY DEF Erase, EraseCopy
<1>2. QED
  BY <1>1, TargetInRange

LEMMA ProgramChanges ==
  ASSUME TypeOK, Program
  PROVE  /\ flash'[target.copy][target.block] = "good"
         /\ \A c \in Copy, b \in Block :
              c # target.copy \/ SectorOf(b) # SectorOf(target.block) =>
                flash'[c][b] = flash[c][b]
BY TargetInRange DEF Program

\* What rots was good, and is not any more.
LEMMA RotChanges ==
  ASSUME TypeOK, NEW c \in Copy, NEW b \in Block, Rot(c, b)
  PROVE  /\ rots' # rots
         /\ \A d \in Copy, a \in Block : flash[d][a] # "good" => flash'[d][a] # "good"
BY DEF TypeOK, Rot, Verifies

LEMMA RiskInit == Init => RiskInv
BY DEF Init, RiskInv

LEMMA RiskStep == IInv /\ [Next]_vars => RiskInv'
<1> SUFFICES ASSUME IInv, [Next]_vars PROVE RiskInv'
  OBVIOUS
<1> USE DEF IInv, RiskInv, Verifies, scrubVars, repairVars
<1>1. CASE \E n \in Budgets : StartScrub(n)
  BY <1>1 DEF StartScrub
<1>2. CASE ScrubBlock
  BY <1>2 DEF ScrubBlock
<1>3. CASE EndScrub
  BY <1>3 DEF EndScrub
<1>4. CASE StartRepair
  BY <1>4 DEF StartRepair
<1>5. CASE ReadPrimary
  <2>1. CASE pc' = "replica"
    <3>1. /\ flash' = flash /\ protection' = protection
          /\ target' = [target EXCEPT !.from = 1]
          /\ ~Verifies(target.copy, target.block) /\ protection = "replicate"
      BY <1>5, <2>1 DEF ReadPrimary, Return
    <3>2. target'.copy = target.copy /\ target'.block = target.block
      BY <3>1 DEF TypeOK, TargetRecord
    <3>3. QED
      BY <3>1, <3>2
  <2>2. QED
    BY <1>5, <2>1 DEF ReadPrimary, Return
<1>6. CASE ReadReplica
  <2>1. /\ flash' = flash /\ protection' = protection
        /\ target' = target \/ target' = [target EXCEPT !.from = @ + 1]
        /\ pc = "replica"
    BY <1>6 DEF ReadReplica, Return
  <2>2. target'.copy = target.copy /\ target'.block = target.block
    BY <2>1 DEF TypeOK, TargetRecord
  <2>3. QED
    BY <2>1, <2>2
<1>7. CASE Erase
  BY <1>7, EraseChanges DEF Erase
<1>8. CASE Program
  BY <1>8 DEF Program, Return
<1>9. CASE \E c \in Copy, b \in Block : Rot(c, b)
  <2>1. PICK c \in Copy, b \in Block : Rot(c, b)
    BY <1>9
  <2>2. target' = target /\ pc' = pc /\ protection' = protection
    BY <2>1 DEF Rot
  <2>3. QED
    BY <2>1, <2>2, RotChanges, TargetInRange
<1>10. CASE AccessFails
  BY <1>10 DEF AccessFails
<1>11. CASE PowerLoss
  BY <1>11 DEF PowerLoss
<1>12. CASE UNCHANGED vars
  BY <1>12 DEF vars
<1>13. QED
  BY <1>1, <1>2, <1>3, <1>4, <1>5, <1>6, <1>7, <1>8, <1>9, <1>10, <1>11, <1>12
     DEF Next

LEMMA RiskInvariant == Spec => []IInv
<1>1. Init => IInv
  BY RepairTypeInit, RiskInit DEF IInv
<1>2. IInv /\ [Next]_vars => IInv'
  BY RepairTypeStep, RiskStep DEF IInv
<1>3. QED
  BY <1>1, <1>2, PTL DEF Spec

\* Only an erase, a program or rot changes the flash.
LEMMA WhoWrites ==
  ASSUME [Next]_vars
  PROVE  \/ Erase \/ Program \/ flash' = flash
         \/ \E c \in Copy, b \in Block : Rot(c, b)
BY DEF Next, vars, scrubVars, repairVars, StartScrub, ScrubBlock, EndScrub, StartRepair,
       ReadPrimary, ReadReplica, AccessFails, PowerLoss

LEMMA SectorStep ==
  ASSUME IInv, [Next]_vars, rots' = rots
  PROVE  /\ \A c \in Copy, b \in Block :
              c # target.copy \/ SectorOf(b) # SectorOf(target.block) =>
                flash'[c][b] = flash[c][b]
         /\ \A b \in Block :
              b = target.block /\ Recoverable(b) => Recoverable(b)'
<1> USE DEF IInv, Recoverable, Verifies
<1>1. CASE Erase
  <2>1. flash[target.copy][target.block] # "good"
    BY <1>1 DEF RiskInv, Erase
  <2>2. \A c \in Copy : flash[c][target.block] = "good" =>
                          flash'[c][target.block] = "good"
    BY <1>1, <2>1, EraseChanges, TargetInRange
  <2>3. QED
    BY <1>1, <2>2, EraseChanges
<1>2. CASE Program
  BY <1>2, ProgramChanges, TargetInRange
<1>3. CASE flash' = flash
  BY <1>3
<1>4. CASE \E c \in Copy, b \in Block : Rot(c, b)
  BY <1>4, RotChanges
<1>5. QED
  BY <1>1, <1>2, <1>3, <1>4, WhoWrites

\* A repair puts at risk only the sector it erases: whatever fails or loses
\* power, the other blocks of every copy hold what they held, and a good copy
\* of the block under repair outlasts the erase (repair.rs).
THEOREM RepairRisksOneSector == Spec => OnlySectorAtRisk
<1>1. IInv /\ [Next]_vars =>
        [rots' = rots =>
           /\ \A c \in Copy, b \in Block :
                c # target.copy \/ SectorOf(b) # SectorOf(target.block) =>
                  flash'[c][b] = flash[c][b]
           /\ \A b \in Block :
                b = target.block /\ Recoverable(b) => Recoverable(b)']_vars
  BY SectorStep
<1>2. QED
  BY <1>1, RiskInvariant, PTL DEF Spec, OnlySectorAtRisk

\* An erase cycle is spent only on a block read as damaged, in a replicated
\* region (repair.rs).
THEOREM ErasesAreJustified == Spec => ErasesJustified
<1>1. IInv /\ [Next]_vars =>
        [pc = "erase" /\ pc' = "program" =>
           /\ ~Verifies(target.copy, target.block)
           /\ protection = "replicate"]_vars
  BY DEF IInv, RiskInv
<1>2. QED
  BY <1>1, RiskInvariant, PTL DEF Spec, ErasesJustified


---------------------------------------------------------------------------
(***************************************************************************)
(* What a pass finds.  Damage the pass is there to find, ahead of the      *)
(* cursor, is still there when the cursor comes to it: what is repaired    *)
(* between calls was reported, and lies behind the cursor.                 *)
(***************************************************************************)

\* A pass has begun and is not at its end.
Walking == pc = "scrub" \/ cursor > 0

Repairing == pc \in {"primary", "replica", "erase", "program"}

\* What has been said of damage, were the call to return now.
Told == pass.reported \cup pass.unreported
          \cup (IF pc = "scrub" THEN ToSet(failed) ELSE {})

\* The first n blocks were verified, in order.
InOrder(n) ==
  Len(pass.verified) = n /\ \A i \in 1 .. n : pass.verified[i] = i - 1

BehindInv ==
  /\ pc = "scrub" => queue = <<>> /\ ~stats.completed
  /\ cursor > 0 =>
       /\ \A i \in 1 .. Len(queue) : queue[i][2] < cursor
       /\ Repairing => target.block < cursor
  /\ pc = "scrub" => \A i \in 1 .. Len(failed) : failed[i] < cursor

WalkInv ==
  Walking =>
    /\ InOrder(cursor)
    /\ \A b \in pass.damaged :
         /\ b >= cursor => ~Verifies(region, b)
         /\ b < cursor => b \in Told

FoundInv ==
  pc # "scrub" /\ stats.completed /\ cursor = 0 =>
    InOrder(Blocks) /\ pass.damaged \subseteq Told

PassInv == BehindInv /\ WalkInv /\ FoundInv

LEMMA PassFields ==
  ASSUME TypeOK
  PROVE  /\ pass \in PassRecord
         /\ pass.damaged \subseteq Block /\ pass.verified \in Seq(Block)
         /\ pass.reported \subseteq Block /\ pass.unreported \subseteq Block
         /\ stats \in ScrubStats /\ stats.completed \in BOOLEAN
         /\ cursor \in Nat /\ Blocks \in Nat /\ cursor <= Blocks
         /\ failed \in Seq(Block) /\ queue \in Seq(Copy \X Block)
<1> DEFINE S == Seq(Block)
<1>1. pass \in PassRecord /\ stats \in ScrubStats /\ failed \in Seq(Block)
      /\ queue \in Seq(Copy \X Block) /\ cursor \in 0 .. Blocks
  BY DEF TypeOK
<1>2. PassRecord = [damaged : SUBSET Block, verified : S,
                    reported : SUBSET Block, unreported : SUBSET Block]
  BY DEF PassRecord
<1> HIDE DEF S
<1>3. /\ pass.damaged \subseteq Block /\ pass.verified \in S
      /\ pass.reported \subseteq Block /\ pass.unreported \subseteq Block
  BY <1>1, <1>2
<1>4. stats.completed \in BOOLEAN
  BY <1>1 DEF ScrubStats
<1>5. QED
  BY <1>1, <1>3, <1>4, Geometry DEF S

LEMMA PassInit == Init => PassInv
BY DEF Init, PassInv, BehindInv, WalkInv, FoundInv, Walking, Repairing, NoStats

\* A call starts.
LEMMA PassStarts ==
  ASSUME TypeOK, PassInv, NEW n \in Budgets, StartScrub(n)
  PROVE  PassInv'
<1> USE DEF PassInv, repairVars
<1>1. /\ pc = "idle" /\ pc' = "scrub" /\ queue = <<>> /\ queue' = <<>>
      /\ failed' = <<>> /\ stats' = NoStats /\ cursor' = cursor
      /\ region' = region /\ flash' = flash
  BY DEF StartScrub
<1>2. BehindInv'
  BY <1>1 DEF BehindInv, NoStats, Repairing
<1>3. FoundInv'
  BY <1>1 DEF FoundInv
<1>4. cursor \in Nat
  BY PassFields
<1>5. CASE cursor = 0
  <2>1. pass' = NewPass(Damaged(region))
    BY <1>5 DEF StartScrub
  <2>2. pass'.damaged = Damaged(region) /\ pass'.verified = <<>>
    BY <2>1 DEF NewPass
  <2>3. InOrder(cursor)'
    BY <1>1, <1>5, <2>2 DEF InOrder
  <2>4. \A b \in pass'.damaged : ~Verifies(region, b)' /\ b \in Nat
    <3>1. \A b \in Damaged(region) : b \in Block /\ ~Verifies(region, b)
      BY DEF Damaged
    <3>2. \A b : Verifies(region, b)' <=> Verifies(region, b)
      BY <1>1 DEF Verifies
    <3>3. QED
      BY <2>2, <3>1, <3>2, Geometry
  <2>5. QED
    BY <1>1, <1>2, <1>3, <1>5, <2>3, <2>4, Geometry, DamagedType, <2>2
       DEF WalkInv, Block
<1>6. CASE cursor # 0
  <2>1. pass' = pass
    BY <1>6 DEF StartScrub
  <2>2. Told \subseteq Told'
    BY <1>1, <2>1 DEF Told
  <2>3. WalkInv'
    BY <1>1, <1>4, <1>6, <2>1, <2>2 DEF WalkInv, Walking, InOrder, Verifies
  <2>4. QED
    BY <1>2, <1>3, <2>3
<1>7. QED
  BY <1>5, <1>6

LEMMA PassVerifies ==
  ASSUME TypeOK, PassInv, ScrubBlock
  PROVE  PassInv'
<1> USE DEF PassInv, repairVars
<1>1. /\ pc = "scrub" /\ pc' = "scrub" /\ queue' = queue /\ cursor' = cursor + 1
      /\ region' = region /\ flash' = flash /\ cursor < Blocks
  BY DEF ScrubBlock
<1>2. /\ cursor \in Nat /\ cursor \in Block /\ failed \in Seq(Block)
      /\ pass.verified \in Seq(Block) /\ pass \in PassRecord /\ stats \in ScrubStats
      /\ Len(failed) <= FailedOut /\ Len(failed) \in Nat /\ FailedOut \in Nat
  BY <1>1, PassFields, GeometryAssumption DEF TypeOK, Block
<1>3. PICK u :
        /\ pass' = [pass EXCEPT !.verified = Append(@, cursor), !.unreported = u]
        /\ u = IF ~Verifies(region, cursor) /\ Len(failed) = FailedOut
               THEN pass.unreported \cup {cursor} ELSE pass.unreported
  BY DEF ScrubBlock
<1>4. /\ pass'.verified = Append(pass.verified, cursor)
      /\ pass'.unreported = u
      /\ pass'.damaged = pass.damaged /\ pass'.reported = pass.reported
  BY <1>2, <1>3 DEF PassRecord
<1>5. /\ failed' = failed \/ failed' = Append(failed, cursor)
      /\ ~Verifies(region, cursor) /\ Len(failed) < FailedOut =>
           failed' = Append(failed, cursor)
  BY DEF ScrubBlock, Found
<1>6. ~stats'.completed
  <2>1. ~stats.completed
    BY <1>1 DEF BehindInv
  <2>2. \/ stats' = [stats EXCEPT !.verified = @ + 1]
        \/ stats' = [[stats EXCEPT !.failed = @ + 1] EXCEPT !.verified = @ + 1]
    BY DEF ScrubBlock, Found
  <2>3. QED
    BY <1>2, <2>1, <2>2 DEF ScrubStats
<1>7. BehindInv'
  <2>1. \A i \in 1 .. Len(failed') : failed'[i] < cursor + 1
    <3>1. \A i \in 1 .. Len(failed) : failed[i] \in Nat /\ failed[i] < cursor
      <4>1. \A i \in 1 .. Len(failed) : failed[i] \in Block
        BY <1>2
      <4>2. \A i \in 1 .. Len(failed) : failed[i] < cursor
        BY <1>1 DEF BehindInv
      <4>3. QED
        BY <4>1, <4>2, Geometry
    <3>2. CASE failed' = failed
      BY <1>2, <3>1, <3>2
    <3>3. CASE failed' = Append(failed, cursor)
      <4>1. \A i \in 1 .. Len(failed') :
              failed'[i] = IF i <= Len(failed) THEN failed[i] ELSE cursor
        BY <1>2, <3>3
      <4>2. QED
        BY <1>2, <3>1, <3>3, <4>1
    <3>4. QED
      BY <1>5, <3>2, <3>3
  <2>2. QED
    BY <1>1, <1>6, <2>1 DEF BehindInv, Repairing
<1>8. FoundInv'
  BY <1>1 DEF FoundInv
<1>9. InOrder(cursor)'
  <2>1. InOrder(cursor)
    BY <1>1 DEF WalkInv, Walking
  <2>2. QED
    BY <1>1, <1>2, <1>4, <2>1 DEF InOrder
<1>10. ToSet(failed) \subseteq ToSet(failed')
       /\ (failed' = Append(failed, cursor) => cursor \in ToSet(failed'))
  <2>1. CASE failed' = failed
    BY <1>2, <2>1 DEF ToSet
  <2>2. CASE failed' = Append(failed, cursor)
    <3>1. /\ Len(failed') = Len(failed) + 1 /\ failed'[Len(failed) + 1] = cursor
          /\ \A i \in 1 .. Len(failed) : failed'[i] = failed[i]
      BY <1>2, <2>2
    <3>2. QED
      BY <1>2, <3>1 DEF ToSet
  <2>3. QED
    BY <1>5, <2>1, <2>2
<1>11. Told \subseteq Told' /\ (~Verifies(region, cursor) => cursor \in Told')
  BY <1>1, <1>2, <1>3, <1>4, <1>5, <1>10 DEF Told
<1>12. ASSUME NEW b \in pass'.damaged
       PROVE  /\ b >= cursor' => ~Verifies(region, b)'
              /\ b < cursor' => b \in Told'
  <2>1. b \in Nat /\ b \in pass.damaged
    BY <1>4, PassFields, Geometry
  <2>2. /\ b >= cursor => ~Verifies(region, b)
        /\ b < cursor => b \in Told
    BY <1>1, <2>1 DEF WalkInv, Walking
  <2>3. QED
    BY <1>1, <1>2, <1>11, <2>1, <2>2 DEF Verifies
<1>13. QED
  BY <1>7, <1>8, <1>9, <1>12 DEF WalkInv

LEMMA PassReturns ==
  ASSUME TypeOK, PassInv, EndScrub
  PROVE  PassInv'
<1> USE DEF PassInv, repairVars
<1>1. /\ pc = "scrub" /\ pc' = "idle" /\ flash' = flash
      /\ stats' = [stats EXCEPT !.completed = AtEnd]
      /\ cursor' = (IF AtEnd THEN 0 ELSE cursor)
      /\ region' = (IF AtEnd THEN (region + 1) % Copies ELSE region)
      /\ queue' = [i \in 1 .. Len(failed) |-> <<region, failed[i]>>]
      /\ pass' = [pass EXCEPT !.reported = @ \cup ToSet(failed)]
  BY DEF EndScrub
<1>2. /\ cursor \in Nat /\ Blocks \in Nat /\ cursor <= Blocks /\ failed \in Seq(Block)
      /\ pass \in PassRecord /\ stats \in ScrubStats
      /\ pass.damaged \subseteq Block
  BY PassFields
<1>3. /\ pass'.verified = pass.verified /\ pass'.unreported = pass.unreported
      /\ pass'.damaged = pass.damaged
      /\ pass'.reported = pass.reported \cup ToSet(failed)
  BY <1>1, <1>2 DEF PassRecord
<1>4. Told' = Told
  BY <1>1, <1>3 DEF Told
<1>5. /\ InOrder(cursor)
      /\ \A b \in pass.damaged : (b >= cursor => ~Verifies(region, b))
                                   /\ (b < cursor => b \in Told)
  BY <1>1 DEF WalkInv, Walking
<1>6. BehindInv'
  <2>1. /\ Len(queue') = Len(failed)
        /\ \A i \in 1 .. Len(queue') : queue'[i][2] = failed[i]
    BY <1>1, <1>2
  <2>2. QED
    BY <1>1, <2>1 DEF BehindInv, Repairing
<1>7. CASE AtEnd
  <2>1. cursor = Blocks
    BY <1>2, <1>7 DEF AtEnd
  <2>2. \A b \in pass.damaged : b \in Told
    BY <1>2, <1>5, <2>1, Geometry DEF Block
  <2>3. FoundInv'
    BY <1>3, <1>4, <1>5, <2>1, <2>2 DEF FoundInv, InOrder
  <2>4. WalkInv'
    BY <1>1, <1>7 DEF WalkInv, Walking
  <2>5. QED
    BY <1>6, <2>3, <2>4
<1>8. CASE ~AtEnd
  <2>1. cursor' = cursor /\ region' = region /\ ~stats'.completed
    BY <1>1, <1>2, <1>8 DEF ScrubStats
  <2>2. WalkInv'
    BY <1>1, <1>3, <1>4, <1>5, <2>1 DEF WalkInv, InOrder, Verifies
  <2>3. QED
    BY <1>6, <2>1, <2>2 DEF FoundInv
<1>9. QED
  BY <1>7, <1>8

\* Steps that leave the walk alone, make nothing good ahead of the cursor, and
\* put no new block under repair.
LEMMA PassStays ==
  ASSUME TypeOK, PassInv,
         pc # "scrub", pc' # "scrub",
         region' = region, cursor' = cursor, stats' = stats, pass' = pass,
         \A b \in pass.damaged :
           cursor > 0 /\ b >= cursor /\ ~Verifies(region, b) => ~Verifies(region, b)',
         cursor > 0 =>
           /\ \A i \in 1 .. Len(queue') : queue'[i][2] < cursor
           /\ Repairing' => target'.block < cursor
  PROVE  PassInv'
<1>1. Told' = Told
  BY DEF Told
<1>2. BehindInv'
  BY DEF BehindInv, PassInv
<1>3. WalkInv'
  <2>1. CASE cursor > 0
    <3>1. Walking /\ InOrder(cursor)'
      BY <2>1 DEF Walking, PassInv, WalkInv, InOrder
    <3>2. QED
      BY <1>1, <2>1, <3>1 DEF PassInv, WalkInv
  <2>2. CASE ~(cursor > 0)
    BY <2>2 DEF WalkInv, Walking
  <2>3. QED
    BY <2>1, <2>2
<1>4. FoundInv'
  BY <1>1 DEF PassInv, FoundInv, InOrder
<1>5. QED
  BY <1>2, <1>3, <1>4 DEF PassInv

LEMMA PassRepairs ==
  ASSUME TypeOK, PassInv, StartRepair \/ ReadPrimary \/ ReadReplica \/ Erase \/ Program
  PROVE  PassInv'
<1> USE DEF scrubVars
<1>0. /\ target \in TargetRecord
      /\ cursor > 0 => \A i \in 1 .. Len(queue) : queue[i][2] < cursor
      /\ cursor > 0 /\ Repairing => target.block < cursor
  BY DEF PassInv, BehindInv, TypeOK
<1>1. CASE StartRepair
  <2>1. queue # <<>> /\ queue \in Seq(Copy \X Block) /\ queue' = Tail(queue)
        /\ target'.block = Head(queue)[2]
    BY <1>1 DEF StartRepair, TypeOK
  <2>2. /\ 1 \in 1 .. Len(queue) /\ Head(queue) = queue[1]
        /\ \A i \in 1 .. Len(queue') :
             i + 1 \in 1 .. Len(queue) /\ queue'[i] = queue[i + 1]
    BY <2>1
  <2>3. cursor > 0 =>
           /\ \A i \in 1 .. Len(queue') : queue'[i][2] < cursor
           /\ Repairing' => target'.block < cursor
    BY <1>0, <2>1, <2>2
  <2>4. QED
    BY <1>1, <2>3, PassStays DEF StartRepair, Verifies
<1>2. CASE ReadPrimary \/ ReadReplica
  <2>1. /\ pc # "scrub" /\ pc' # "scrub" /\ Repairing /\ queue' = queue /\ flash' = flash
        /\ region' = region /\ cursor' = cursor /\ stats' = stats /\ pass' = pass
    BY <1>2 DEF ReadPrimary, ReadReplica, Return, Repairing
  <2>2. target'.block = target.block
    BY <1>0, <1>2 DEF ReadPrimary, ReadReplica, TargetRecord
  <2>3. QED
    BY <1>0, <2>1, <2>2, PassStays DEF Verifies
<1>3. CASE Erase
  <2>1. /\ pc # "scrub" /\ pc' # "scrub" /\ Repairing /\ queue' = queue /\ target' = target
        /\ region' = region /\ cursor' = cursor /\ stats' = stats /\ pass' = pass
    BY <1>3 DEF Erase, Repairing
  <2>2. \A b \in Block : ~Verifies(region, b) => ~Verifies(region, b)'
    <3>1. flash' = [flash EXCEPT ![target.copy] =
                      [b \in Block |->
                         IF SectorOf(b) = SectorOf(target.block)
                         THEN "erased" ELSE flash[target.copy][b]]]
      BY <1>3 DEF Erase, EraseCopy
    <3>2. region \in Copy
      BY DEF TypeOK
    <3>3. QED
      BY <2>1, <3>1, <3>2, TargetInRange DEF Verifies
  <2>3. QED
    BY <1>0, <2>1, <2>2, PassFields, PassStays
<1>4. CASE Program
  <2>1. /\ pc # "scrub" /\ pc' # "scrub" /\ Repairing /\ ~Repairing' /\ queue' = queue
        /\ region' = region /\ cursor' = cursor /\ stats' = stats /\ pass' = pass
    BY <1>4 DEF Program, Return, Repairing
  <2>2. \A b \in Block : b # target.block /\ ~Verifies(region, b) => ~Verifies(region, b)'
    <3>1. flash' = [flash EXCEPT ![target.copy][target.block] = "good"]
      BY <1>4 DEF Program
    <3>2. region \in Copy
      BY DEF TypeOK
    <3>3. QED
      BY <2>1, <3>1, <3>2, TargetInRange DEF Verifies
  <2>3. ASSUME NEW b \in pass.damaged, cursor > 0, b >= cursor
        PROVE  b # target.block
    <3>1. target.block \in Nat /\ cursor \in Nat /\ target.block < cursor
      BY <1>0, <2>1, <2>3, TargetInRange, PassFields, Geometry
    <3>2. QED
      BY <2>3, <3>1
  <2>4. QED
    BY <1>0, <2>1, <2>2, <2>3, PassFields, PassStays
<1>5. QED
  BY <1>1, <1>2, <1>3, <1>4

LEMMA PassDevice ==
  ASSUME TypeOK, PassInv,
         AccessFails \/ PowerLoss \/ \E c \in Copy, b \in Block : Rot(c, b)
  PROVE  PassInv'
<1> USE DEF scrubVars, repairVars
<1>1. CASE \E c \in Copy, b \in Block : Rot(c, b)
  <2>1. PICK c \in Copy, b \in Block : Rot(c, b)
    BY <1>1
  <2>2. /\ pc' = pc /\ region' = region /\ cursor' = cursor /\ stats' = stats
        /\ pass' = pass /\ queue' = queue /\ target' = target /\ failed' = failed
    BY <2>1 DEF Rot
  <2>3. region \in Copy /\ pass.damaged \subseteq Block
    BY PassFields DEF TypeOK
  <2>4. \A a \in pass.damaged : ~Verifies(region, a) => ~Verifies(region, a)'
    BY <2>1, <2>2, <2>3, RotChanges DEF Verifies
  <2>5. Told' = Told
    BY <2>2 DEF Told
  <2>6. BehindInv' /\ FoundInv'
    BY <2>2, <2>5 DEF PassInv, BehindInv, FoundInv, Repairing, InOrder
  <2>7. WalkInv'
    BY <2>2, <2>4, <2>5 DEF PassInv, WalkInv, Walking, InOrder
  <2>8. QED
    BY <2>6, <2>7 DEF PassInv
<1>2. CASE AccessFails /\ pc # "scrub"
  <2>1. /\ pc' = "idle" /\ region' = region /\ cursor' = cursor /\ stats' = stats
        /\ pass' = pass /\ queue' = queue /\ flash' = flash
    BY <1>2 DEF AccessFails
  <2>2. cursor > 0 => \A i \in 1 .. Len(queue) : queue[i][2] < cursor
    BY DEF PassInv, BehindInv
  <2>3. QED
    BY <1>2, <2>1, <2>2, PassStays DEF Repairing, Verifies
<1>3. CASE AccessFails /\ pc = "scrub"
  <2>1. /\ pc' = "idle" /\ region' = region /\ cursor' = cursor /\ stats' = stats
        /\ queue' = queue /\ flash' = flash
        /\ pass' = [pass EXCEPT !.unreported = @ \cup ToSet(failed)]
    BY <1>3 DEF AccessFails
  <2>2. /\ pass'.verified = pass.verified /\ pass'.damaged = pass.damaged
        /\ pass'.reported = pass.reported
        /\ pass'.unreported = pass.unreported \cup ToSet(failed)
    BY <2>1, PassFields DEF PassRecord
  <2>3. Told' = Told
    BY <1>3, <2>1, <2>2 DEF Told
  <2>4. queue = <<>> /\ ~stats.completed
    BY <1>3 DEF PassInv, BehindInv
  <2>5. BehindInv' /\ FoundInv'
    BY <2>1, <2>4 DEF BehindInv, FoundInv, Repairing
  <2>6. WalkInv'
    BY <1>3, <2>1, <2>2, <2>3 DEF PassInv, WalkInv, Walking, InOrder, Verifies
  <2>7. QED
    BY <2>5, <2>6 DEF PassInv
<1>4. CASE PowerLoss
  BY <1>4 DEF PowerLoss, PassInv, BehindInv, WalkInv, FoundInv, Walking, Repairing, NoStats
<1>5. QED
  BY <1>1, <1>2, <1>3, <1>4

LEMMA PassStep == TypeOK /\ PassInv /\ [Next]_vars => PassInv'
<1> SUFFICES ASSUME TypeOK, PassInv, [Next]_vars PROVE PassInv'
  OBVIOUS
<1>1. CASE Next
  BY <1>1, PassStarts, PassVerifies, PassReturns, PassRepairs, PassDevice DEF Next
<1>2. CASE UNCHANGED vars
  BY <1>2 DEF vars, scrubVars, repairVars, PassInv, BehindInv, WalkInv, FoundInv,
     Walking, Repairing, Told, InOrder, Verifies
<1>3. QED
  BY <1>1, <1>2

\* A pass walked to its end verified each block once, and reported what was
\* damaged when it began, save what it had no room for or an error kept from
\* being returned, whatever rots, is repaired or fails meanwhile (scrub.rs,
\* "so an interrupted scrub resumes rather than restarting").
THEOREM PassFindsAllDamage == Spec => []PassFindsDamage
<1>1. TypeOK /\ PassInv => PassFindsDamage
  <2> SUFFICES ASSUME TypeOK, PassInv, pc = "idle", stats.completed, cursor = 0
               PROVE  /\ Len(pass.verified) = Blocks
                      /\ ToSet(pass.verified) = Block
                      /\ pass.damaged \subseteq pass.reported \cup pass.unreported
    BY DEF PassFindsDamage
  <2>1. InOrder(Blocks) /\ pass.damaged \subseteq Told
    BY DEF PassInv, FoundInv
  <2>2. pass.verified \in Seq(Block) /\ Blocks \in Nat
    BY PassFields
  <2>3. ToSet(pass.verified) \subseteq Block
    BY <2>2 DEF ToSet
  <2>4. ASSUME NEW b \in Block PROVE b \in ToSet(pass.verified)
    <3>1. b + 1 \in 1 .. Blocks /\ pass.verified[b + 1] = b
      BY <2>1, <2>2 DEF InOrder, Block
    <3>2. QED
      BY <2>1, <3>1 DEF ToSet, InOrder
  <2>5. QED
    BY <2>1, <2>3, <2>4 DEF InOrder, Told
<1>2. QED
  BY <1>1, RepairTypeInit, RepairTypeStep, PassInit, PassStep, PTL DEF Spec
=============================================================================

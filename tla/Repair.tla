------------------------------- MODULE Repair -------------------------------
(***************************************************************************)
(* Scrub and repair of a replicated region (sector-core/src/scrub.rs and   *)
(* repair.rs, sector-codec/src/replicate.rs).  A scrub call verifies some  *)
(* blocks from a cursor and reports those that fail; a repair finds a copy *)
(* that verifies, erases the sector of the damaged block and programs that *)
(* one block.  Every access to the flash is a step, between which blocks   *)
(* rot, an access fails, or the power goes.                                *)
(*                                                                         *)
(* Copies lie in sectors of their own, aligned alike, as sector-format     *)
(* places them.  Nothing under src/ calls these functions but their tests: *)
(* the owner that walks the copies and repairs what a call reported is     *)
(* modelled from what the functions take and return.                       *)
(***************************************************************************)
EXTENDS Integers, Sequences, SequencesExt

CONSTANTS
  Copies,       \* copies of the region, the primary included
  Blocks,       \* blocks of a copy
  PerSector,    \* blocks in an erase sector
  Budgets,      \* blocks a scrub call may verify
  FailedOut,    \* length of the buffer failed blocks are reported in
  Protections,  \* policies the region may have
  MaxRots,      \* bound: blocks that rot
  MaxFaults     \* bound: accesses that fail and power losses

ASSUME GeometryAssumption ==
  /\ Copies \in Nat \ {0} /\ Blocks \in Nat \ {0} /\ PerSector \in Nat \ {0}
  /\ FailedOut \in Nat /\ Budgets \subseteq Nat
  /\ MaxRots \in Nat /\ MaxFaults \in Nat
ASSUME ProtectionAssumption == Protections \subseteq {"replicate", "detect"}

Copy == 0 .. Copies - 1
Block == 0 .. Blocks - 1

VARIABLES
  protection,  \* the region's policy
  flash,       \* what each block of each copy holds
  pc,          \* idle, or the step the call in progress is at
  region,      \* the copy being walked
  cursor,      \* the next block to verify
  budget,      \* what the scrub call may still verify
  failed,      \* failed_out of the call
  stats,       \* ScrubStats of the call
  queue,       \* reported blocks the owner has yet to repair
  target,      \* the block being repaired and the copy being read
  outcome,     \* of the last repair
  rots,        \* blocks that have rotted
  faults,      \* accesses that failed and power losses
  pass         \* history: the damage this pass was there to find, what it found

scrubVars == <<region, cursor, budget, failed, stats, pass>>
repairVars == <<target, outcome>>
vars == <<protection, flash, pc, scrubVars, queue, repairVars, rots, faults>>

---------------------------------------------------------------------------
Verifies(c, b) == flash[c][b] = "good"

Damaged(c) == {b \in Block : ~Verifies(c, b)}

SectorOf(b) == b \div PerSector

NoStats == [verified |-> 0, failed |-> 0, completed |-> FALSE]
NoTarget == [copy |-> 0, block |-> 0, from |-> 0]

NewPass(damage) == [damaged |-> damage, verified |-> <<>>, reported |-> {},
                    unreported |-> {}]

Init ==
  /\ protection \in Protections
  /\ flash = [c \in Copy |-> [b \in Block |-> "good"]]
  /\ pc = "idle"
  /\ region = 0 /\ cursor = 0 /\ budget = 0
  /\ failed = <<>> /\ stats = NoStats /\ queue = <<>>
  /\ target = NoTarget /\ outcome = "none"
  /\ rots = 0 /\ faults = 0
  /\ pass = NewPass({})

---------------------------------------------------------------------------
(***************************************************************************)
(* Scrub.                                                                  *)
(***************************************************************************)

\* The owner asks for up to n blocks of the copy it is walking.
StartScrub(n) ==
  /\ pc = "idle" /\ queue = <<>>
  /\ pc' = "scrub"
  /\ budget' = n
  /\ failed' = <<>>
  /\ stats' = NoStats
  /\ pass' = IF cursor = 0 THEN NewPass(Damaged(region)) ELSE pass
  /\ UNCHANGED <<protection, flash, region, cursor, queue, repairVars, rots, faults>>

\* Fault: the length of the buffer is not looked at.
FoundAlways(b) ==
  [failed |-> Append(failed, b), stats |-> [stats EXCEPT !.failed = @ + 1]]

\* The block at the cursor fails: it is counted, and reported if there is room.
Found(b) ==
  IF Len(failed) < FailedOut
  THEN [failed |-> Append(failed, b), stats |-> [stats EXCEPT !.failed = @ + 1]]
  ELSE [failed |-> failed, stats |-> [stats EXCEPT !.failed = @ + 1]]

ScrubBlock ==
  /\ pc = "scrub" /\ budget > 0 /\ cursor < Blocks
  /\ LET b == cursor
         bad == ~Verifies(region, b)
         found == IF bad THEN Found(b) ELSE [failed |-> failed, stats |-> stats]
     IN
       /\ failed' = found.failed
       /\ stats' = [found.stats EXCEPT !.verified = @ + 1]
       /\ pass' = [pass EXCEPT
                     !.verified = Append(@, b),
                     !.unreported = IF bad /\ Len(failed) = FailedOut
                                    THEN @ \cup {b} ELSE @]
       /\ cursor' = cursor + 1
  /\ budget' = budget - 1
  /\ UNCHANGED <<protection, flash, pc, region, queue, repairVars, rots, faults>>

\* Fault: the last block is taken for the end.
AtEndEarly == cursor + 1 >= Blocks

AtEnd == cursor >= Blocks

\* The call returns.  The owner queues what was reported, and goes on to the
\* next copy once one was walked to its end.
EndScrub ==
  /\ pc = "scrub" /\ (budget = 0 \/ AtEnd)
  /\ pc' = "idle"
  /\ stats' = [stats EXCEPT !.completed = AtEnd]
  /\ cursor' = IF AtEnd THEN 0 ELSE cursor
  /\ region' = IF AtEnd THEN (region + 1) % Copies ELSE region
  /\ queue' = [i \in 1 .. Len(failed) |-> <<region, failed[i]>>]
  /\ pass' = [pass EXCEPT !.reported = @ \cup ToSet(failed)]
  /\ UNCHANGED <<protection, flash, budget, failed, repairVars, rots, faults>>

---------------------------------------------------------------------------
(***************************************************************************)
(* Repair.                                                                 *)
(***************************************************************************)
Return(result) ==
  /\ pc' = "idle"
  /\ outcome' = result

StartRepair ==
  /\ pc = "idle" /\ queue # <<>>
  /\ target' = [copy |-> Head(queue)[1], block |-> Head(queue)[2], from |-> 0]
  /\ queue' = Tail(queue)
  /\ pc' = "primary"
  /\ UNCHANGED <<protection, flash, scrubVars, outcome, rots, faults>>

\* The replicas are tried in order, the copy under repair left out.
Replicas == SelectSeq([c \in 1 .. Copies |-> c - 1], LAMBDA c : c # target.copy)

\* Fault: the block was reported damaged, and is not read again.
ReadPrimaryTrusting ==
  /\ pc = "primary"
  /\ pc' = "replica"
  /\ target' = [target EXCEPT !.from = 1]
  /\ UNCHANGED <<protection, flash, scrubVars, queue, outcome, rots, faults>>

ReadPrimary ==
  /\ pc = "primary"
  /\ \/ /\ Verifies(target.copy, target.block)
        /\ Return("clean")
        /\ UNCHANGED target
     \/ /\ ~Verifies(target.copy, target.block)
        /\ protection = "detect"
        /\ Return("dropped")
        /\ UNCHANGED target
     \/ /\ ~Verifies(target.copy, target.block)
        /\ protection = "replicate"
        /\ pc' = "replica"
        /\ target' = [target EXCEPT !.from = 1]
        /\ UNCHANGED outcome
  /\ UNCHANGED <<protection, flash, scrubVars, queue, rots, faults>>

ReadReplica ==
  /\ pc = "replica"
  /\ \/ /\ target.from > Len(Replicas)
        /\ Return("unrepairable")
        /\ UNCHANGED target
     \/ /\ target.from <= Len(Replicas)
        /\ ~Verifies(Replicas[target.from], target.block)
        /\ target' = [target EXCEPT !.from = @ + 1]
        /\ UNCHANGED <<pc, outcome>>
     \/ /\ target.from <= Len(Replicas)
        /\ Verifies(Replicas[target.from], target.block)
        /\ pc' = "erase"
        /\ UNCHANGED <<target, outcome>>
  /\ UNCHANGED <<protection, flash, scrubVars, queue, rots, faults>>

\* Fault: the sector erased is the replica's.
EraseCopyReplica == Replicas[target.from]

EraseCopy == target.copy

\* The whole sector that holds the block is erased.
Erase ==
  /\ pc = "erase"
  /\ pc' = "program"
  /\ flash' = [flash EXCEPT ![EraseCopy] =
                 [b \in Block |->
                    IF SectorOf(b) = SectorOf(target.block) THEN "erased" ELSE @[b]]]
  /\ UNCHANGED <<protection, scrubVars, queue, target, outcome, rots, faults>>

\* The one block is programmed, from the copy that verified.
Program ==
  /\ pc = "program"
  /\ flash' = [flash EXCEPT ![target.copy][target.block] = "good"]
  /\ Return("repaired")
  /\ UNCHANGED <<protection, scrubVars, queue, target, rots, faults>>

---------------------------------------------------------------------------
(***************************************************************************)
(* The device.                                                             *)
(***************************************************************************)
Rot(c, b) ==
  /\ rots < MaxRots
  /\ Verifies(c, b)
  /\ flash' = [flash EXCEPT ![c][b] = "bad"]
  /\ rots' = rots + 1
  /\ UNCHANGED <<protection, pc, scrubVars, queue, repairVars, faults>>

\* A read, erase or program returns an error, and the call with it: what a
\* scrub call had found is not returned, though its cursor has moved on.
AccessFails ==
  /\ faults < MaxFaults
  /\ pc # "idle"
  /\ pc = "scrub" => budget > 0 /\ cursor < Blocks
  /\ pc = "replica" => target.from <= Len(Replicas)
  /\ faults' = faults + 1
  /\ pc' = "idle"
  /\ outcome' = IF pc = "scrub" THEN outcome ELSE "error"
  /\ pass' = IF pc = "scrub"
             THEN [pass EXCEPT !.unreported = @ \cup ToSet(failed)] ELSE pass
  /\ UNCHANGED <<protection, flash, region, cursor, budget, failed, stats, queue,
                 target, rots>>

\* The cursor and all that is in memory are gone.
PowerLoss ==
  /\ faults < MaxFaults
  /\ faults' = faults + 1
  /\ pc' = "idle"
  /\ region' = 0 /\ cursor' = 0 /\ budget' = 0
  /\ failed' = <<>> /\ stats' = NoStats /\ queue' = <<>>
  /\ target' = NoTarget /\ outcome' = "none"
  /\ pass' = NewPass({})
  /\ UNCHANGED <<protection, flash, rots>>

Next ==
  \/ \E n \in Budgets : StartScrub(n)
  \/ ScrubBlock \/ EndScrub
  \/ StartRepair \/ ReadPrimary \/ ReadReplica \/ Erase \/ Program
  \/ \E c \in Copy, b \in Block : Rot(c, b)
  \/ AccessFails
  \/ PowerLoss

Spec == Init /\ [][Next]_vars

---------------------------------------------------------------------------
(***************************************************************************)
(* Properties.                                                             *)
(***************************************************************************)

BlockState == {"good", "bad", "erased"}
ScrubStats == [verified : Nat, failed : Nat, completed : BOOLEAN]
TargetRecord == [copy : Copy, block : Block, from : Nat]
PassRecord == [damaged : SUBSET Block, verified : Seq(Block),
               reported : SUBSET Block, unreported : SUBSET Block]

\* The variables keep their types, and no more blocks are reported than fit.
TypeOK ==
  /\ protection \in Protections
  /\ flash \in [Copy -> [Block -> BlockState]]
  /\ pc \in {"idle", "scrub", "primary", "replica", "erase", "program"}
  /\ region \in Copy /\ cursor \in 0 .. Blocks /\ budget \in Nat
  /\ failed \in Seq(Block) /\ Len(failed) <= FailedOut
  /\ queue \in Seq(Copy \X Block)
  /\ target \in TargetRecord
  /\ outcome \in {"none", "clean", "dropped", "repaired", "unrepairable", "error"}
  /\ stats \in ScrubStats
  /\ pass \in PassRecord
  /\ rots \in Nat /\ faults \in Nat

Recoverable(b) == \E c \in Copy : Verifies(c, b)

\* While nothing rots, what is recoverable stays recoverable: a pattern that
\* leaves one good copy of each block is repaired, not made worse, though no
\* copy is wholly intact (replicate.rs, "Copy selection is per block").
RecoverableKept ==
  [][rots' = rots => \A b \in Block : Recoverable(b) => Recoverable(b)']_vars

\* A repair puts at risk only the sector it erases: whatever fails or loses
\* power, the other blocks of every copy hold what they held, and the block
\* under repair stays recoverable until it is rewritten.
OnlySectorAtRisk ==
  [][rots' = rots =>
       /\ \A c \in Copy, b \in Block :
            c # target.copy \/ SectorOf(b) # SectorOf(target.block) =>
              flash'[c][b] = flash[c][b]
       /\ \A b \in Block :
            b = target.block /\ Recoverable(b) => Recoverable(b)']_vars

\* An erase cycle is spent only on a block that does not verify, of a region
\* that is replicated (repair.rs, Outcome::Clean and Outcome::Dropped).
ErasesJustified ==
  [][pc = "erase" /\ pc' = "program" =>
       /\ ~Verifies(target.copy, target.block)
       /\ protection = "replicate"]_vars

\* A pass that was walked to its end, in calls of any budget and past failed
\* accesses, verified each block once, and what was damaged when it began was
\* reported, save what a full buffer or a failed call left unreported
\* (scrub.rs, "so an interrupted scrub resumes rather than restarting").
PassFindsDamage ==
  pc = "idle" /\ stats.completed /\ cursor = 0 =>
    /\ Len(pass.verified) = Blocks
    /\ ToSet(pass.verified) = Block
    /\ pass.damaged \subseteq pass.reported \cup pass.unreported

=============================================================================

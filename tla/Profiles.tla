------------------------------ MODULE Profiles ------------------------------
(***************************************************************************)
(* Tier profiles (sector-format profile.rs) and the workspace they size    *)
(* (sector-core workspace.rs): the bytes a profile says the engine holds,  *)
(* against the bytes of the buffers the engine refuses to run without.     *)
(***************************************************************************)
EXTENDS Integers, Sequences

CONSTANT BlockBytes   \* BLOCK_BYTES, the bounce buffer

KiB == 1024
MiB == 1024 * 1024
Power(b) == 2 ^ b

T0 == [d |-> 128, m |-> 16, b |-> 8, cb_bytes |-> 1, rerank_bytes |-> 1, adc_bytes |-> 2,
       r |-> 500, k |-> 10, ram_budget |-> 192 * KiB, stack_reserve |-> 8 * KiB]
T1 == [T0 EXCEPT !.m = 32, !.adc_bytes = 4, !.ram_budget = 6 * MiB, !.stack_reserve = 32 * KiB]
T0Wide == [T0 EXCEPT !.d = 768, !.m = 32, !.b = 4]
T2 == [T0 EXCEPT !.r = 100, !.ram_budget = 32 * MiB, !.stack_reserve = 2 * MiB]
T3 == [T1 EXCEPT !.ram_budget = 64 * MiB, !.stack_reserve = 8 * MiB]
Tiers == {T0, T1, T0Wide, T2, T3}

---------------------------------------------------------------------------
(* What a profile derives.                                                 *)

Centroids(p) == Power(p.b)
Subspace(p) == p.d \div p.m
ProfilePayloadBytes(p) == (p.m * p.b) \div 8
ProfileCodebookBytes(p) == Centroids(p) * p.d * p.cb_bytes
AdcTableBytes(p) == p.m * Centroids(p) * p.adc_bytes
TableMacs(p) == Centroids(p) * p.d

\* The scores of the heap without its ids.
HeapScoreBytes(p) == p.r * 4
HeapBytes(p) == p.r * 8
RerankBytesPerVec(p) == p.d * p.rerank_bytes
FixedBytes(p) == ProfileCodebookBytes(p) + AdcTableBytes(p) + HeapBytes(p) + p.stack_reserve
CodeBudget(p) == p.ram_budget - FixedBytes(p)
ResidentVectors(p) == CodeBudget(p) \div ProfilePayloadBytes(p)
RerankCapacity(p, flash) == (flash - 2 * ProfileCodebookBytes(p)) \div RerankBytesPerVec(p)

\* What the build refuses to compile without.
Feasible ==
  /\ \A p \in Tiers : p.d % p.m = 0
  /\ T0.b \in {4, 8} /\ ResidentVectors(T0) > 8000
  /\ \A p \in Tiers \ {T0Wide} : FixedBytes(p) < p.ram_budget
  /\ AdcTableBytes(T2) * 2 <= 16 * KiB
  /\ AdcTableBytes([T2 EXCEPT !.adc_bytes = 4]) = 16 * KiB
  /\ AdcTableBytes(T3) <= 64 * KiB
  /\ T2.m # T3.m /\ T2.adc_bytes # T3.adc_bytes /\ T2.r # T3.r
  /\ ProfileCodebookBytes([T0Wide EXCEPT !.b = 8]) = T0.ram_budget
  /\ ProfileCodebookBytes([T0Wide EXCEPT !.b = 8, !.cb_bytes = 4]) = 4 * T0.ram_budget

---------------------------------------------------------------------------
(* The workspace.                                                          *)

SizesOf(p) ==
  [codebook |-> ProfileCodebookBytes(p), adc_table |-> AdcTableBytes(p), heap |-> HeapBytes(p),
   rotation |-> p.d * 4, bounce |-> BlockBytes, stack_reserve |-> p.stack_reserve]
FixedTotal(sizes) ==
  sizes.codebook + sizes.adc_table + sizes.heap + sizes.rotation + sizes.bounce
  + sizes.stack_reserve
WorkspaceCodeBudget(sizes, budget) ==
  IF budget < FixedTotal(sizes) THEN 0 ELSE budget - FixedTotal(sizes)
Fits(sizes, budget) == WorkspaceCodeBudget(sizes, budget) > 0

\* The first buffer of Workspace::new that is too short, by name, or none.
Buffers == <<"adc_table", "heap_scores", "heap_ids", "rotation", "bounce">>
Needed(p) == [adc_table |-> p.m * Centroids(p), heap_scores |-> p.r, heap_ids |-> p.r,
              rotation |-> p.d, bounce |-> 1]
TooSmall(p, buffers) ==
  {i \in DOMAIN Buffers :
     /\ buffers[Buffers[i]] < Needed(p)[Buffers[i]]
     /\ \A j \in 1 .. i - 1 : buffers[Buffers[j]] >= Needed(p)[Buffers[j]]}

\* Bytes of the buffers a query borrows: their entries are i32, u32 and u8.
EntryBytes(buffer) == IF buffer = "bounce" THEN 1 ELSE 4
Borrowed(buffers) ==
  LET sum[i \in 0 .. Len(Buffers)] ==
        IF i = 0 THEN 0 ELSE sum[i - 1] + buffers[Buffers[i]] * EntryBytes(Buffers[i])
  IN  sum[Len(Buffers)]

---------------------------------------------------------------------------
(* What the sizes owe the device.                                          *)

\* The table a profile accounts for ("8 KiB ADC table", workspace.rs:9; "an i16 table",
\* profile.rs:192) holds the entries the engine asks for.  The engine's are i32 in every tier,
\* so this does not hold where the profile says i16 (run documented_claims).
TableCovered(p) == Needed(p).adc_table * EntryBytes("adc_table") <= SizesOf(p).adc_table

\* The smallest buffers the engine runs with, and its codebook, take no more than the
\* workspace is said to hold, where the profile's table is the engine's; every tier has the
\* memory for them, the i16 ones included; and a buffer that is one entry short is refused
\* by its own name.
SizesCoverEngine(p) ==
  LET sizes == SizesOf(p)
      used  == Borrowed(Needed(p)) + ProfileCodebookBytes(p) + p.stack_reserve
  IN  /\ TableCovered(p) => used <= FixedTotal(sizes)
      /\ p \in Tiers \ {T0Wide} => used < p.ram_budget /\ Fits(sizes, p.ram_budget)
      /\ TableCovered(p) /\ Fits(sizes, p.ram_budget) =>
           (WorkspaceCodeBudget(sizes, p.ram_budget) \div ProfilePayloadBytes(p))
             * ProfilePayloadBytes(p) + used <= p.ram_budget
      /\ TooSmall(p, Needed(p)) = {}
      /\ \A i \in DOMAIN Buffers :
           TooSmall(p, [Needed(p) EXCEPT ![Buffers[i]] = @ - 1]) = {i}
      /\ Feasible
=============================================================================

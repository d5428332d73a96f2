----------------------------- MODULE Allocation -----------------------------
(***************************************************************************)
(* Protection groups and the parity they are given (sector-format group.rs,*)
(* sector-build allocate.rs and the exposures of criticality.rs).          *)
(* Centroids are bucketed by rank into groups, groups are weighed by the   *)
(* exposures of their centroids, and a budget of parity bytes is spent by  *)
(* walking each group's convex envelope of rates, best ratio first.        *)
(***************************************************************************)
EXTENDS Integers, Sequences, SequencesExt, FiniteSets

CONSTANTS
  SectorBytes,    \* extent of an erase
  MinGroups,      \* groups a volume has at least
  MaxGroups,      \* and at most
  ParityUnit      \* data bytes a rate's parity is per: 256

\* What the parameters have to be.
AllocationAssumption ==
  /\ SectorBytes \in Nat \ {0} /\ ParityUnit \in Nat \ {0}
  /\ MinGroups \in Nat \ {0} /\ MaxGroups \in Nat

SumSeq(s) == FoldLeft(LAMBDA a, b : a + b, 0, s)
AtMost(a, b) == IF a < b THEN a ELSE b

---------------------------------------------------------------------------
(* Groups.                                                                 *)

GroupCountAllowed(count) == MinGroups <= count /\ count <= MaxGroups

Sectors(bytes) == (bytes + SectorBytes - 1) \div SectorBytes

\* Sizes that drop the remainder leave centroids without a group.
GroupSizeEven(total, count, i) == total \div count

\* The remainder goes to the leading groups, one centroid each.
GroupSize(total, count, i) == total \div count + (IF i <= total % count THEN 1 ELSE 0)

Bucketed(total, count) == GroupCountAllowed(count) /\ total >= count

BucketByQuantile(total, count, centroidBytes) ==
  [i \in 1 .. count |->
    [first |-> SumSeq([g \in 1 .. i - 1 |-> GroupSize(total, count, g)]),
     centroids |-> GroupSize(total, count, i),
     parity |-> 0,
     sectors |-> Sectors(GroupSize(total, count, i) * centroidBytes)]]

\* GroupTable::validate.
GroupTableValid(groups, total, centroidBytes) ==
  /\ GroupCountAllowed(Len(groups))
  /\ \A i \in DOMAIN groups :
       /\ groups[i].centroids # 0
       /\ groups[i].first = SumSeq([g \in 1 .. i - 1 |-> groups[g].centroids])
       /\ Sectors(groups[i].centroids * centroidBytes) = groups[i].sectors
  /\ SumSeq([g \in DOMAIN groups |-> groups[g].centroids]) = total

Covers(group, centroid) ==
  group.first <= centroid /\ centroid < group.first + group.centroids
GroupOf(groups, centroid) ==
  CHOOSE i \in DOMAIN groups :
    Covers(groups[i], centroid) /\ \A j \in 1 .. i - 1 : ~Covers(groups[j], centroid)
TotalSectors(groups) == SumSeq([i \in DOMAIN groups |-> groups[i].sectors])

---------------------------------------------------------------------------
(* Weights.                                                                *)

\* Exposure::weight, the worse of the two signs.
Weight(exposure) == IF exposure.inflate > exposure.deflate THEN exposure.inflate
                    ELSE exposure.deflate

\* Weights::ranked, heaviest first, ties by index.
Ranked(weights) ==
  SetToSortSeq(DOMAIN weights,
               LAMBDA a, b : weights[a] > weights[b] \/ (weights[a] = weights[b] /\ a < b))

GroupWeights(weights, groups) ==
  IF groups = 0 \/ Len(weights) = 0 THEN <<>>
  ELSE [g \in 1 .. groups |->
         LET at == SumSeq([h \in 1 .. g - 1 |-> GroupSize(Len(weights), groups, h)])
         IN  SumSeq(SubSeq(weights, at + 1, at + GroupSize(Len(weights), groups, g)))]

---------------------------------------------------------------------------
(* Rates.                                                                  *)

Cost(rate, bytes) == (bytes * rate.parity) \div ParityUnit

\* Cheapest first and the least protecting first among equals; one rate is kept of
\* those that cost the same, the first.
SortedRates(rates, bytes) ==
  LET Cheaper(a, b) == \/ Cost(a, bytes) < Cost(b, bytes)
                       \/ Cost(a, bytes) = Cost(b, bytes) /\ a.residual > b.residual
      kept == {a \in rates : \A b \in rates :
                 Cost(a, bytes) = Cost(b, bytes) => a.residual >= b.residual}
      one  == {CHOOSE a \in kept : Cost(a, bytes) = c : c \in {Cost(a, bytes) : a \in kept}}
  IN  SetToSortSeq(one, Cheaper)

\* b lies on or above the line from a to c.
Interior(a, b, c, bytes) ==
  (a.residual - b.residual) * (Cost(c, bytes) - Cost(b, bytes))
    <= (b.residual - c.residual) * (Cost(b, bytes) - Cost(a, bytes))

PushRate(hull, rate, bytes) ==
  LET kept[n \in 0 .. Len(hull)] ==
        IF n >= 2 /\ Interior(hull[n - 1], hull[n], rate, bytes) THEN kept[n - 1] ELSE n
  IN  IF hull # <<>> /\ rate.residual >= Last(hull).residual THEN hull
      ELSE Append(SubSeq(hull, 1, kept[Len(hull)]), rate)

Envelope(rates, bytes) ==
  FoldLeft(LAMBDA hull, rate : PushRate(hull, rate, bytes), <<>>, SortedRates(rates, bytes))

---------------------------------------------------------------------------
(* The allocation.  A problem gives each group a weight and a size, the    *)
(* rates there are, and the budget.                                        *)

Groups(problem) == DOMAIN problem.weights
Hulls(problem) == [g \in Groups(problem) |-> Envelope(problem.rates, problem.bytes[g])]

StepCost(problem, hulls, g, at) ==
  Cost(hulls[g][at + 1], problem.bytes[g]) - Cost(hulls[g][at], problem.bytes[g])
StepGain(problem, hulls, g, at) ==
  problem.weights[g] * (hulls[g][at].residual - hulls[g][at + 1].residual)

\* The groups that can move one rate up within the budget.
Affordable(problem, hulls, level, spent) ==
  {g \in Groups(problem) :
     /\ level[g] + 1 \in DOMAIN hulls[g]
     /\ StepCost(problem, hulls, g, level[g]) # 0
     /\ spent + StepCost(problem, hulls, g, level[g]) <= problem.budget}

\* Best gain per byte, rounded down; then best gain; then the lowest index.
BestStep(problem, hulls, level, candidates) ==
  LET gain(g)  == StepGain(problem, hulls, g, level[g])
      ratio(g) == gain(g) \div StepCost(problem, hulls, g, level[g])
      Beats(g, h) == \/ ratio(g) > ratio(h)
                     \/ ratio(g) = ratio(h) /\ gain(g) > gain(h)
                     \/ ratio(g) = ratio(h) /\ gain(g) = gain(h) /\ g <= h
  IN  CHOOSE g \in candidates : \A h \in candidates : Beats(g, h)

AllocateStep(problem, hulls, state) ==
  LET candidates == Affordable(problem, hulls, state.level, state.spent)
      g          == BestStep(problem, hulls, state.level, candidates)
  IN  IF candidates = {} THEN state
      ELSE [level |-> [state.level EXCEPT ![g] = @ + 1],
            spent |-> state.spent + StepCost(problem, hulls, g, state.level[g])]

Allocate(problem) ==
  LET hulls == Hulls(problem)
      start == [level |-> [g \in Groups(problem) |-> 1],
                spent |-> SumSeq([g \in Groups(problem) |->
                            Cost(hulls[g][1], problem.bytes[g])])]
      steps == SumSeq([g \in Groups(problem) |-> Len(hulls[g])])
      final == FoldLeft(LAMBDA s, i : AllocateStep(problem, hulls, s), start,
                        [i \in 1 .. steps |-> i])
      rate  == [g \in Groups(problem) |-> hulls[g][final.level[g]]]
  IN  [rate |-> rate, spent |-> final.spent,
       objective |-> SumSeq([g \in Groups(problem) |->
                       problem.weights[g] * rate[g].residual])]

\* exhaustive: the least objective of the assignments within the budget.
Spending(problem, choice) ==
  SumSeq([g \in Groups(problem) |-> Cost(choice[g], problem.bytes[g])])
Objective(problem, choice) ==
  SumSeq([g \in Groups(problem) |-> problem.weights[g] * choice[g].residual])
WithinBudget(problem) ==
  {choice \in [Groups(problem) -> problem.rates] : Spending(problem, choice) <= problem.budget}
Exhaustive(problem) ==
  LET best == CHOOSE c \in WithinBudget(problem) :
                \A o \in WithinBudget(problem) : Objective(problem, c) <= Objective(problem, o)
  IN  Objective(problem, best)

\* sweep.rs, allocation: enumeration beats the walk.
BeatenBySearch(problem) == Allocate(problem).objective > Exhaustive(problem)

---------------------------------------------------------------------------
(* What protection owes the builder.                                       *)

\* A table that is built is a partition validate accepts, every centroid has a group,
\* sizes differ by at most one, and no group shares a sector.
GroupsPartition(total, count, centroidBytes) ==
  Bucketed(total, count) =>
    LET groups == BucketByQuantile(total, count, centroidBytes)
    IN  /\ GroupTableValid(groups, total, centroidBytes)
        /\ \A c \in 0 .. total - 1 :
             Cardinality({i \in DOMAIN groups : Covers(groups[i], c)}) = 1
        /\ \A i, j \in DOMAIN groups :
             i < j => groups[i].centroids - groups[j].centroids \in {0, 1}
        /\ TotalSectors(groups) * SectorBytes >= total * centroidBytes
        /\ TotalSectors(groups) < Sectors(total * centroidBytes) + count

\* The weights handed to the allocator are those of the centroids in the groups of the
\* table, and none is lost.
WeightsFollowGroups(weights, count) ==
  LET total == Len(weights)
      groups == BucketByQuantile(total, count, 1)
  IN  Bucketed(total, count) =>
        /\ SumSeq(GroupWeights(weights, count)) = SumSeq(weights)
        /\ \A g \in 1 .. count :
             GroupWeights(weights, count)[g]
               = SumSeq([i \in 1 .. groups[g].centroids |-> weights[groups[g].first + i]])

\* "Reduce `rates` to its lower convex envelope" (allocate.rs:93): no rate costs what a rate of
\* the envelope costs and protects better.  Of rates whose costs round to one number the code
\* keeps the worst, so this does not hold (run documented_claims).
EnvelopeIsLower(rates, bytes) ==
  LET hull == Envelope(rates, bytes)
  IN  \A i \in DOMAIN hull, r \in rates :
        Cost(r, bytes) = Cost(hull[i], bytes) => r.residual >= hull[i].residual

\* Where every rate has a cost of its own the envelope is the lower one.
DistinctCosts(problem) ==
  \A g \in Groups(problem), a, b \in problem.rates :
    a # b => Cost(a, problem.bytes[g]) # Cost(b, problem.bytes[g])

LargestGain(problem) ==
  LET hulls == Hulls(problem)
      gains == {StepGain(problem, hulls, s[1], s[2]) :
                  s \in {s \in Groups(problem) \X (1 .. Cardinality(problem.rates)) :
                           s[2] + 1 \in DOMAIN hulls[s[1]]}}
  IN  IF gains = {} THEN 0 ELSE CHOOSE x \in gains : \A y \in gains : x >= y

\* The walk spends what it says, never more than the budget when the cheapest rates
\* fit it, and misses the best assignment by less than one step's gain (and the bytes
\* of the budget, by which the rounded ratios may misorder).
NearOptimal(problem, found) ==
  /\ found.spent = Spending(problem, found.rate)
  /\ WithinBudget(problem) # {} => found.spent <= problem.budget
  /\ WithinBudget(problem) # {} /\ DistinctCosts(problem) =>
       /\ Exhaustive(problem) <= found.objective
       /\ found.objective - Exhaustive(problem)
            <= LargestGain(problem) + problem.budget
AllocationNearOptimal(problem) == NearOptimal(problem, Allocate(problem))
=============================================================================

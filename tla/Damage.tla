------------------------------- MODULE Damage -------------------------------
(***************************************************************************)
(* How much recall a corrupted centroid costs (sector-sim recall.rs,       *)
(* corrupt.rs, sweep.rs; sector-build criticality.rs).  Corruption shifts  *)
(* the score of every vector that uses the centroid, up or down, by the    *)
(* same amount; the candidate list is the best R by score.                 *)
(*                                                                         *)
(* An instance gives the centroid each vector uses and, for each query,    *)
(* the vectors' scores and the true neighbours, best first.  Scores are    *)
(* integers and recall is counted in neighbours, k times the code's        *)
(* fraction.                                                               *)
(***************************************************************************)
EXTENDS Integers, Sequences, SequencesExt, FiniteSets

CONSTANTS
  R,          \* candidate depth
  K,          \* neighbours counted
  Centroids,  \* centroids of the subspace, 0 .. Centroids - 1
  Magnitude   \* displacement of a construction

\* What the parameters have to be.
DamageAssumption ==
  R \in Nat \ {0} /\ K \in Nat \ {0} /\ Centroids \in Nat \ {0} /\ Magnitude \in Nat

Signs == {"inflate", "deflate"}
Multiplier(sign) == IF sign = "inflate" THEN 1 ELSE -1

FirstOf(s, n) == SubSeq(s, 1, IF n < Len(s) THEN n ELSE Len(s))
Sum(s) == FoldLeft(LAMBDA a, b : a + b, 0, s)
SaturatingSub(a, b) == IF a < b THEN 0 ELSE a - b

---------------------------------------------------------------------------
(* recall.rs: candidates and recall.                                       *)

\* Descending score, ties by id.
TopIds(scores, r) ==
  FirstOf(SetToSortSeq(DOMAIN scores,
            LAMBDA a, b : scores[a] > scores[b] \/ (scores[a] = scores[b] /\ a < b)), r)

Users(inst, centroid) == {v \in DOMAIN inst.codes : inst.codes[v] = centroid}

Shifted(inst, scores, centroid, shift) ==
  [v \in DOMAIN scores |-> IF v \in Users(inst, centroid) THEN scores[v] + shift
                           ELSE scores[v]]

TopIdsShifted(inst, scores, r, centroid, shift) ==
  TopIds(Shifted(inst, scores, centroid, shift), r)

Hits(candidates, truth) ==
  {i \in DOMAIN FirstOf(truth, K) : Contains(candidates, truth[i])}
Recall(candidates, truth) == Cardinality(Hits(candidates, truth))

---------------------------------------------------------------------------
(* corrupt.rs: constructions, the damage they do and the bound on it.      *)

Population(inst, centroid) == Cardinality(Users(inst, centroid))

\* The first of the most populated among the centroids allowed, 0 if none is used.
MostPopulated(inst, allowed) ==
  LET best == {c \in allowed : /\ Population(inst, c) > 0
                               /\ \A o \in allowed : Population(inst, c) >= Population(inst, o)}
  IN  IF best = {} THEN 0 ELSE CHOOSE c \in best : \A o \in best : c <= o

UsedByNeighbours(inst, q) == {inst.codes[inst.truths[q][i]] : i \in DOMAIN inst.truths[q]}

Resolve(inst, aim, q) ==
  CASE aim = "highestPopulation" -> MostPopulated(inst, 0 .. Centroids - 1)
    [] aim = "queryNeighbour" -> inst.codes[inst.truths[q][1]]
    [] aim = "populatedNonNeighbour" ->
         MostPopulated(inst, (0 .. Centroids - 1) \ UsedByNeighbours(inst, q))

WorstCaseFor(sign) == IF sign = "inflate" THEN "populatedNonNeighbour" ELSE "queryNeighbour"

Apply(inst, q, sign, centroid) ==
  LET clean     == TopIds(inst.scores[q], R)
      corrupted == TopIdsShifted(inst, inst.scores[q], R, centroid,
                                 Multiplier(sign) * Magnitude)
      intruders == {v \in Users(inst, centroid) :
                     Contains(corrupted, v) /\ ~Contains(clean, v)}
  IN  [clean |-> clean, corrupted |-> corrupted,
       cleanRecall |-> Recall(clean, inst.truths[q]),
       corruptedRecall |-> Recall(corrupted, inst.truths[q]),
       intruders |-> Cardinality(intruders)]

Loss(damage) == damage.cleanRecall - damage.corruptedRecall

\* Positions from 0, as Iterator::position counts them; R for a neighbour not there.
DepthsOf(clean, truth) ==
  [i \in DOMAIN FirstOf(truth, K) |->
     IF Contains(clean, truth[i]) THEN SelectInSeq(clean, LAMBDA v : v = truth[i]) - 1
     ELSE R]

AffectedOf(inst, truth, centroid) ==
  [i \in DOMAIN FirstOf(truth, K) |-> truth[i] \in Users(inst, centroid)]

Bound(depths, affected, intruders) ==
  Cardinality({i \in DOMAIN depths :
    \/ affected[i]
    \/ intruders > 0 /\ depths[i] > SaturatingSub(R, intruders)})

---------------------------------------------------------------------------
(* criticality.rs: the exposure of each centroid, summed over the queries. *)

LostTo(inst, q, centroid, sign) ==
  LET damage == Apply(inst, q, sign, centroid)
  IN  SaturatingSub(damage.cleanRecall, damage.corruptedRecall)

Queries(inst) == DOMAIN inst.scores

Exposed(inst, centroid, sign) ==
  IF Population(inst, centroid) = 0 THEN 0
  ELSE Sum([q \in Queries(inst) |-> LostTo(inst, q, centroid, sign)])

Measure(inst) ==
  [c \in 0 .. Centroids - 1 |->
    [population |-> Population(inst, c),
     inflate |-> Exposed(inst, c, "inflate"), deflate |-> Exposed(inst, c, "deflate")]]

---------------------------------------------------------------------------
(* sweep.rs: what each claim's sweep concludes.                            *)

TotalLoss(inst, centroid, sign) ==
  Sum([q \in Queries(inst) |-> Loss(Apply(inst, q, sign, centroid))])

\* max_by_key takes the last of the largest, min_by_key the first of the smallest.
Heaviest(inst) ==
  CHOOSE c \in 0 .. Centroids - 1 : \A o \in 0 .. Centroids - 1 :
    \/ Population(inst, c) > Population(inst, o)
    \/ Population(inst, c) = Population(inst, o) /\ c >= o
Lightest(inst) ==
  LET used == {c \in 0 .. Centroids - 1 : Population(inst, c) > 0}
  IN  CHOOSE c \in used : \A o \in used :
        \/ Population(inst, c) < Population(inst, o)
        \/ Population(inst, c) = Population(inst, o) /\ c <= o

FanOut(inst) ==
  IF Population(inst, Heaviest(inst)) < 2 * Population(inst, Lightest(inst)) THEN "inconclusive"
  ELSE IF TotalLoss(inst, Heaviest(inst), "inflate") >= TotalLoss(inst, Lightest(inst), "inflate")
       THEN "held" ELSE "refuted"

\* The affected neighbours enter the bound for a deflating shift only.
AffectedBy(inst, q, sign, centroid) ==
  IF sign = "deflate" THEN AffectedOf(inst, inst.truths[q], centroid) ELSE [i \in 1 .. K |-> FALSE]
BridgeBound(inst, q, sign, centroid) ==
  LET damage == Apply(inst, q, sign, centroid)
  IN  Bound(DepthsOf(damage.clean, inst.truths[q]), AffectedBy(inst, q, sign, centroid),
            damage.intruders)

MarginBridge(inst) ==
  LET cases == Queries(inst) \X Signs
      aimed(case) == Resolve(inst, "queryNeighbour", case[1])
      lost(case)  == Loss(Apply(inst, case[1], case[2], aimed(case)))
  IN  IF \A case \in cases : lost(case) <= 0 THEN "inconclusive"
      ELSE IF \E case \in cases :
                lost(case) > BridgeBound(inst, case[1], case[2], aimed(case))
           THEN "refuted" ELSE "held"

DeflationChannel(inst) ==
  LET aimed(q) == Apply(inst, q, "deflate", Resolve(inst, "queryNeighbour", q))
      loss      == Sum([q \in Queries(inst) |-> Loss(aimed(q))])
      intruders == Sum([q \in Queries(inst) |-> aimed(q).intruders])
  IN  IF loss > 0 /\ intruders = 0 THEN "held"
      ELSE IF intruders > 0 THEN "refuted" ELSE "inconclusive"

DirectedSampling(inst) ==
  LET aimed(q) == Resolve(inst, "queryNeighbour", q)
      directed == Sum([q \in Queries(inst) |-> Loss(Apply(inst, q, "deflate", aimed(q)))])
      undirected == Sum([q \in Queries(inst) |->
                      Loss(Apply(inst, q, "deflate", (aimed(q) + 1) % Centroids))])
  IN  IF directed > undirected THEN "held"
      ELSE IF directed = 0 /\ undirected = 0 THEN "inconclusive" ELSE "refuted"

Lifetime(predicted, measured) == IF predicted = measured THEN "held" ELSE "refuted"

---------------------------------------------------------------------------
(* What the measurements rest on.                                          *)

\* A shift down lets no vector in and loses only neighbours that use the centroid; a
\* shift up loses only neighbours that do not.  Each sign has its own victims.
VictimsBySign(inst, q, centroid) ==
  LET Lost(damage) == Hits(damage.clean, inst.truths[q]) \ Hits(damage.corrupted, inst.truths[q])
      affected     == AffectedOf(inst, inst.truths[q], centroid)
  IN  /\ Apply(inst, q, "deflate", centroid).intruders = 0
      /\ \A i \in Lost(Apply(inst, q, "deflate", centroid)) : affected[i]
      /\ \A i \in Lost(Apply(inst, q, "inflate", centroid)) : ~affected[i]

\* The loss is within the bound when a neighbour's depth is its rank in the clean list, from
\* 1, as the bound's own argument has it ("the incumbents at ranks r-n+1 ..= r").  The depths
\* the code hands to the bound count from 0 (DepthsOf), and for those it fails: see
\* BridgeHolds.
RanksOf(clean, truth) == [i \in DOMAIN DepthsOf(clean, truth) |-> DepthsOf(clean, truth)[i] + 1]
LossBounded(inst, q, centroid) ==
  \A sign \in Signs :
    LET damage == Apply(inst, q, sign, centroid)
    IN  Loss(damage) <= Bound(RanksOf(damage.clean, inst.truths[q]),
                              AffectedBy(inst, q, sign, centroid), damage.intruders)

ExposureWithin(inst, c, exposure) ==
  LET pairs == {p \in Queries(inst) \X (1 .. K) : p[2] \in DOMAIN inst.truths[p[1]]}
      using == {p \in pairs : inst.truths[p[1]][p[2]] \in Users(inst, c)}
  IN  /\ exposure.deflate <= Cardinality(using)
      /\ exposure.inflate <= Cardinality(pairs \ using)
      /\ Population(inst, c) = 0 => exposure.inflate + exposure.deflate = 0

\* The exposures count true neighbours of either side of the centroid: what deflation
\* costs uses it, what inflation costs does not, and a centroid no vector uses costs
\* nothing; the sweep that isolates deflation never finds an intruder.
ExposureBounded(inst) ==
  /\ LET measured == Measure(inst)
     IN  \A c \in 0 .. Centroids - 1 : ExposureWithin(inst, c, measured[c])
  /\ DeflationChannel(inst) # "refuted"

DamageBounded(inst) ==
  /\ \A q \in Queries(inst), c \in 0 .. Centroids - 1 :
       VictimsBySign(inst, q, c) /\ LossBounded(inst, q, c)
  /\ ExposureBounded(inst)

\* "Claim: the two-sided depth-aware bound holds" (sweep.rs:132), of the bound and the depths
\* as the code computes them.  It does not hold (run documented_claims).
BridgeHolds(inst) == MarginBridge(inst) # "refuted"
=============================================================================

------------------------------- MODULE Board -------------------------------
(***************************************************************************)
(* What machine this is and whether this binary belongs on it (sector-os   *)
(* platform.rs, sector-cli doctor_cmd.rs).  A binary that starts is not a  *)
(* binary that runs: one built for a newer instruction set dies when a     *)
(* query first reaches an instruction the core lacks.                      *)
(*                                                                         *)
(* A machine is what it really is and what it shows: its core, its         *)
(* revision code (none or one, of the old style or with a processor id),   *)
(* and the words of its device-tree model.                                 *)
(***************************************************************************)
EXTENDS Integers, Sequences

None == "none"
Abis == {"armv6hf", "armv7hf", "aarch64", "x86_64", "otherAbi"}
Arches == {"armv6", "armv7", "armv8", "other"}
IsArm(arch) == arch \in {"armv6", "armv7", "armv8"}

Tier(arch) ==
  CASE arch \in {"armv6", "armv7"} -> "T2"
    [] arch = "armv8" -> "T3"
    [] OTHER -> "host"

---------------------------------------------------------------------------
(* Detection.                                                              *)

\* Processor ids of new-style revision codes, in order from 0.
Processors == <<<<"BCM2835", "armv6">>, <<"BCM2836", "armv7">>, <<"BCM2837", "armv8">>,
                <<"BCM2711", "armv8">>, <<"BCM2712", "armv8">>>>

\* [new, id] of a revision code; an old one is a BCM2835, an id past the table is unknown.
DecodeRevision(revision) ==
  IF ~revision.new THEN <<"BCM2835", "armv6">>
  ELSE IF revision.id + 1 \in DOMAIN Processors THEN Processors[revision.id + 1]
  ELSE <<None, None>>

\* The words looked for in a model, in order; the first that occurs decides.
Needles ==
  <<<<"zero 2", "armv8">>, <<"zero", "armv6">>, <<"pi 5", "armv8">>, <<"pi 500", "armv8">>,
    <<"pi 4", "armv8">>, <<"pi 400", "armv8">>, <<"pi 3", "armv8">>,
    <<"compute module 5", "armv8">>, <<"compute module 4", "armv8">>,
    <<"compute module 3", "armv8">>, <<"pi 2", "armv7">>, <<"compute module 1", "armv6">>,
    <<"model a", "armv6">>, <<"model b", "armv6">>>>
FirstNeedle(model) ==
  {i \in DOMAIN Needles :
     Needles[i][1] \in model /\ \A j \in 1 .. i - 1 : Needles[j][1] \notin model}
ArchFromModel(model) ==
  IF "raspberry pi" \in model /\ FirstNeedle(model) # {}
  THEN Needles[CHOOSE i \in FirstNeedle(model) : TRUE][2] ELSE None

\* The compile-time answer, when the machine shows nothing of itself.
ArchOfBinary(abi) ==
  CASE abi = "armv6hf" -> "armv6" [] abi = "armv7hf" -> "armv7" [] abi = "aarch64" -> "armv8"
    [] OTHER -> "other"

\* Board::detect: revision first, model second, the binary itself last.  userland_64bit
\* is the width of the binary's own pointers.
Detect(machine, abi) ==
  LET decoded == IF machine.revision = <<>> THEN <<None, None>>
                 ELSE DecodeRevision(machine.revision[1])
      model   == IF machine.model = {} THEN None ELSE ArchFromModel(machine.model)
  IN  [model |-> machine.model, revision |-> machine.revision, soc |-> decoded[1],
       arch |-> IF decoded[2] # None THEN decoded[2]
                ELSE IF model # None THEN model ELSE ArchOfBinary(abi),
       userland_64bit |-> abi \in {"aarch64", "x86_64"}]

IsRaspberryPi(board) == board.revision # <<>> /\ IsArm(board.arch)

---------------------------------------------------------------------------
(* Whether the binary belongs.                                             *)

RunsOn(abi, board) ==
  CASE abi = "armv6hf" -> IsArm(board.arch)
    [] abi = "armv7hf" -> board.arch \in {"armv7", "armv8"}
    [] abi = "aarch64" -> board.arch = "armv8"
    [] abi = "x86_64" -> board.arch = "other"
    [] OTHER -> TRUE

RecommendedArtifact(board, abi) ==
  CASE board.arch = "armv6" -> "armv6hf"
    [] board.arch = "armv7" -> "armv7hf"
    [] board.arch = "armv8" -> IF board.userland_64bit THEN "aarch64" ELSE "armv7hf"
    [] OTHER -> abi

AbiStatus(board, abi) ==
  IF ~RunsOn(abi, board) THEN "incompatible"
  ELSE IF abi = RecommendedArtifact(board, abi) THEN "match" ELSE "suboptimal"

\* `sector doctor`, and the status its exit stands for.
DoctorExit(status) ==
  CASE status = "match" -> 0 [] status = "suboptimal" -> 1 [] OTHER -> 2

\* What the banner of the daemon says of the same status.
BannerWarns(status) == status = "incompatible"

---------------------------------------------------------------------------
(* What detection owes the operator.                                       *)

Generation(arch) == CASE arch = "armv6" -> 6 [] arch = "armv7" -> 7 [] OTHER -> 8
NeedsGeneration(abi) == CASE abi = "armv6hf" -> 6 [] abi = "armv7hf" -> 7 [] OTHER -> 8

\* "2  works but suboptimal (`doctor`)" (main.rs:227): where the doctor ends with 2 the binary runs.
\* It ends with 2 where it does not, and with 1 where it works but is suboptimal
\* (run documented_claims).
TwoStillWorks(machine, abi) ==
  LET board == Detect(machine, abi)
  IN  DoctorExit(AbiStatus(board, abi)) = 2 => RunsOn(abi, board)

\* A machine that shows its revision or a model that is known: it is taken for no newer
\* than it is.  So a binary reported to run has its instructions, the one recommended too,
\* and a script that gates on the exit code is never let through to an illegal instruction.
NeverTooNew(machine, abi) ==
  LET board  == Detect(machine, abi)
      status == AbiStatus(board, abi)
      shows  == DecodeRevision(IF machine.revision = <<>> THEN [new |-> TRUE, id |-> 15]
                               ELSE machine.revision[1])[2] # None
                \/ ArchFromModel(machine.model) # None
  IN  shows /\ abi \in {"armv6hf", "armv7hf", "aarch64"} =>
        /\ Generation(board.arch) <= Generation(machine.core)
        /\ DoctorExit(status) \in {0, 1} => NeedsGeneration(abi) <= Generation(machine.core)
        /\ NeedsGeneration(RecommendedArtifact(board, abi)) <= Generation(machine.core)
        /\ BannerWarns(status) <=> DoctorExit(status) = 2
        /\ AbiStatus(board, RecommendedArtifact(board, abi)) # "incompatible"
=============================================================================

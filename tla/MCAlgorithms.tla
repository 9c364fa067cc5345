---------------------------- MODULE MCAlgorithms ----------------------------
(***************************************************************************)
(* Instances of the algorithms of Secure Aggregation for TLC, as parts of  *)
(* one run: the sharing graphs, Shamir's secret sharing with the code's    *)
(* widths scaled down, the packed vectors, and the masks; and with them    *)
(* the checkpoint files that slices are appended to.  Each part does       *)
(* nothing but its own steps.                                              *)
(***************************************************************************)
EXTENDS SecretSharingGraph, MapOfMasks

VARIABLES
  secret, threshold, shares, inverses, lastInput, lastOutput, result,  \* of ShamirSecretSharing
  width, written, coder, packed, decoder, unpacked,                    \* of SecAggVectorCodec
  file, appended, merged,                                              \* of AppendSlices
  part                                                                 \* what is computed

(* Bytes of 2 bits, subsecrets of 3 bits, and a prime above 2^3 which is   *)
(* less than half a word away from it, like the prime of the code.         *)
Shamir ==
  INSTANCE ShamirSecretSharing
    WITH ByteBits <- 2, SubsecretBits <- 3, Prime <- 11,
         Secrets <- UNION {[1..n -> 0..3] : n \in 1..3},
         Thresholds <- {2, 3}, NumShares <- 4, Randoms <- {3, 10}

(* Elements whose bits are all alike, alternate, or differ at an end.      *)
TellingElements(w) == {1, 2^w - 1, 2^(w - 1), (2^w - 1) \div 3}

(* Blocks of two bytes of 8 bits, and every width up to two bits less.     *)
Codec ==
  INSTANCE SecAggVectorCodec
    WITH ByteBits <- 8, BlockBytes <- 2, Widths <- 1..14,
         Elements <- TellingElements, MaxElements <- 4

Slices == INSTANCE AppendSlices WITH MaxName <- 3, MaxChunks <- 3

shamirVars ==
  <<secret, threshold, shares, inverses, lastInput, lastOutput, result>>
codecVars == <<width, written, coder, packed, decoder, unpacked>>
sliceVars == <<file, appended, merged>>
allVars == <<graph, maskVars, shamirVars, codecVars, sliceVars, part>>

AlgorithmsInit ==
  /\ part \in {"graph", "shamir", "codec", "masks", "slices"}
  /\ Init
  /\ Shamir!ShamirInit
  /\ Codec!CodecInit /\ (part # "codec" => width = 1)
  /\ MaskInit /\ (part # "masks" => modulus = 2)
  /\ Slices!AppendInit

AlgorithmsNext ==
  \/ part = "graph" /\ Next /\ UNCHANGED <<maskVars, shamirVars, codecVars, sliceVars, part>>
  \/ part = "shamir" /\ Shamir!ShamirNext /\ UNCHANGED <<graph, maskVars, codecVars, sliceVars, part>>
  \/ part = "codec" /\ Codec!CodecNext /\ UNCHANGED <<graph, maskVars, shamirVars, sliceVars, part>>
  \/ part = "masks" /\ MaskNext /\ UNCHANGED <<graph, shamirVars, codecVars, sliceVars, part>>
  \/ /\ part = "slices" /\ Slices!AppendNext
     /\ UNCHANGED <<graph, maskVars, shamirVars, codecVars, part>>

AlgorithmsSpec == AlgorithmsInit /\ [][AlgorithmsNext]_allVars

-----------------------------------------------------------------------------
(* Properties, besides GraphIsConsistent, MasksCancel, SamplingIsUniform.  *)

(* Reconstruct gives the shared secret back from any shares that reach the *)
(* threshold, whatever calls left in its caches, unless a sum overflows.   *)
ReconstructInvertsShare == Shamir!ReconstructInvertsShare

(* The branchless codec writes what the other codec writes, which reads it *)
(* back, and reads back what it wrote; and a merge of appended slices is   *)
(* one table of all that was appended, each name once and in order.        *)
CodecsInvertEachOther ==
  Codec!CodecsAgree /\ Codec!DecoderReadsBack /\ Slices!MergedIsOneTable
=============================================================================

----------------------------- MODULE MapOfMasks -----------------------------
(***************************************************************************)
(* fcp/secagg/shared/map_of_masks.cc: the pseudorandom mask two clients    *)
(* derive from the key they share, which one adds and the other subtracts. *)
(* Client code reduces with AddMod and SubtractMod (math.h), server code   *)
(* with AddModOpt and SubtractModOpt.                                      *)
(*                                                                         *)
(* The bytes of the generator are the environment's choice: both parties   *)
(* draw the same ones, because they seed it with the same digest, so one   *)
(* step below is the same draw at both.                                    *)
(***************************************************************************)
EXTENDS Integers, FiniteSets

CONSTANTS Moduli,     \* the moduli of the vector that occur
          Length,     \* the elements of the vector
          NumKeys,    \* the keys the two parties share
          MaxRejects  \* bound: the draws that are rejected in one run

ASSUME VectorAssumption == Moduli \subseteq Nat \ {0} /\ Length \in Nat \ {0}

VARIABLES
    modulus,        \* vector_spec.modulus()
    sampling,       \* [size, threshold]: sample_modulus and rejection_threshold
    key,            \* the key being expanded
    element,        \* the element being masked, of 0..Length-1
    added,          \* the mask vector of the party that adds, AddMod
    addedOpt,       \* the same with AddModOpt
    subtracted,     \* the mask vector of the party that subtracts
    subtractedOpt,
    rejects,
    aborted         \* async_abort was seen, and nullptr returned

maskVars == <<modulus, sampling, key, element, added, addedOpt, subtracted, subtractedOpt,
              rejects, aborted>>

MaxSampleBitsExpansion == 16

DivideUp(a, b) == (a + b - 1) \div b

\* absl::bit_width
BitWidth(n) == CHOOSE w \in 0..31 : n < 2^w /\ (w > 0 => n >= 2^(w - 1))

AddMod(a, b, z) == (a + b) % z
\* Defective variant: a sum equal to the modulus is not reduced.
AddModOptStrict(a, b, z) == IF a + b <= z THEN a + b ELSE a + b - z
AddModOpt(a, b, z) == IF a + b < z THEN a + b ELSE a + b - z
\* The unsigned difference wraps and wraps back when z is added.
SubtractMod(a, b, z) == ((a - b) + z) % z
SubtractModOpt(a, b, z) == IF a >= b THEN a - b ELSE z - b + a

\* The better of two numbers of bits to draw for one sample.
ChooseBetterSampleBits(m, bits1, bits2) ==
    LET reps1 == 2^bits1 \div m
        reps2 == 2^bits2 \div m
        product1 == DivideUp(bits1, 8) * reps1
        product2 == DivideUp(bits2, 8) * reps2 * 2^(bits2 - bits1)
    IN IF bits1 = bits2 THEN bits1
       ELSE IF product1 > product2 THEN bits2 ELSE bits1

ComputeBestSampleBits(m) ==
    LET min == BitWidth(m - 1)
        expanded == min + MaxSampleBitsExpansion
        max == IF MaxSampleBitsExpansion < expanded THEN MaxSampleBitsExpansion ELSE expanded
        best[b \in min..31] ==
            IF b = min THEN min ELSE ChooseBetterSampleBits(m, best[b - 1], b)
    IN IF min < max THEN best[max] ELSE min

IsPowerOfTwo(m) == 2^BitWidth(m - 1) = m

SampleBits(m) == IF IsPowerOfTwo(m) THEN BitWidth(m - 1) ELSE ComputeBestSampleBits(m)

\* Defective variant: one draw too many is rejected.
RejectionThresholdPlusOne(m, size) == IF IsPowerOfTwo(m) THEN 0 ELSE ((size - m) % m) + 1
RejectionThreshold(m, size) == IF IsPowerOfTwo(m) THEN 0 ELSE (size - m) % m

\* PrngBuffer::NextMask: whole bytes, the first one without its excess bits.
Draws == 0..(sampling.size - 1)

MaskInit ==
    /\ modulus \in Moduli
    /\ LET size == 2^SampleBits(modulus)
       IN sampling = [size |-> size, threshold |-> RejectionThreshold(modulus, size)]
    /\ key = 1
    /\ element = 0
    /\ added = [i \in 0..(Length - 1) |-> 0]
    /\ addedOpt = added
    /\ subtracted = added
    /\ subtractedOpt = added
    /\ rejects = 0
    /\ aborted = FALSE

\* A rejected draw adds 0 and stays at the element; an accepted one moves on, at the end of the
\* vector to the next key.
Sample(draw) ==
    LET reject == draw < sampling.threshold
        mask == (IF reject THEN 0 ELSE draw) % modulus
        last == element = Length - 1
    IN /\ key <= NumKeys /\ ~aborted
       /\ reject => rejects < MaxRejects
       /\ added' = [added EXCEPT ![element] = AddMod(@, mask, modulus)]
       /\ addedOpt' = [addedOpt EXCEPT ![element] = AddModOpt(@, mask, modulus)]
       /\ subtracted' = [subtracted EXCEPT ![element] = SubtractMod(@, mask, modulus)]
       /\ subtractedOpt' = [subtractedOpt EXCEPT ![element] = SubtractModOpt(@, mask, modulus)]
       /\ element' = IF reject THEN element ELSE IF last THEN 0 ELSE element + 1
       /\ key' = IF last /\ ~reject THEN key + 1 ELSE key
       /\ rejects' = IF reject THEN rejects + 1 ELSE rejects
       /\ UNCHANGED <<modulus, sampling, aborted>>

\* async_abort is looked at before every key and before the vector is stored.
Signalled ==
    /\ element = 0 /\ ~aborted
    /\ aborted' = TRUE
    /\ UNCHANGED <<modulus, sampling, key, element, added, addedOpt, subtracted, subtractedOpt,
                   rejects>>

MaskNext == (\E draw \in Draws : Sample(draw)) \/ Signalled

MaskSpec == MaskInit /\ [][MaskNext]_maskVars

-----------------------------------------------------------------------------
\* The masks of the two parties cancel in the sum, element by element, after
\* any draws and rejections, and a client and the server that remove each
\* other's mask compute the same numbers with their two ways of reducing.
MasksCancel ==
    /\ addedOpt = added
    /\ subtractedOpt = subtracted
    /\ \A i \in DOMAIN added :
           /\ added[i] \in 0..(modulus - 1)
           /\ AddMod(added[i], subtracted[i], modulus) = 0

\* Every residue is the mask of as many accepted draws as any other: the
\* masks are uniform, so that they hide the input.
SamplingIsUniform ==
    LET Accepted(r) == {x \in Draws : x >= sampling.threshold /\ x % modulus = r}
    IN \A r \in 0..(modulus - 1) :
           Accepted(r) # {} /\ Cardinality(Accepted(r)) = Cardinality(Accepted(0))
=============================================================================

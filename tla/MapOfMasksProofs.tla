-------------------------- MODULE MapOfMasksProofs --------------------------
(***************************************************************************)
(* The masks of two parties cancel whatever the modulus, the length of the *)
(* vector, the number of keys and the pseudorandom draws are.              *)
(***************************************************************************)
EXTENDS MapOfMasks, TLAPS

Indices == 0..(Length - 1)
Residues(m) == 0..(m - 1)

(* The strengthening of MasksCancel: the elements are residues throughout. *)
IInv ==
  /\ modulus \in Nat \ {0}
  /\ element \in Indices
  /\ added \in [Indices -> Residues(modulus)]
  /\ subtracted \in [Indices -> Residues(modulus)]
  /\ addedOpt = added
  /\ subtractedOpt = subtracted
  /\ \A i \in Indices : AddMod(added[i], subtracted[i], modulus) = 0

-----------------------------------------------------------------------------
(* Arithmetic: the two ways of reducing in math.h.                         *)

(* A remainder is a residue. *)
LEMMA RemainderIsResidue ==
  ASSUME NEW m \in Nat \ {0}, NEW x \in Int
  PROVE  x % m \in Residues(m)
  BY SMT DEF Residues

(* On residues AddModOpt is AddMod, and the sum is a residue. *)
LEMMA AddModAgrees ==
  ASSUME NEW m \in Nat \ {0}, NEW a \in Residues(m), NEW b \in Residues(m)
  PROVE  /\ AddMod(a, b, m) = AddModOpt(a, b, m)
         /\ AddMod(a, b, m) \in Residues(m)
  BY SMT DEF AddMod, AddModOpt, Residues

(* On residues SubtractModOpt is SubtractMod, and the difference is a      *)
(* residue.                                                                *)
LEMMA SubtractModAgrees ==
  ASSUME NEW m \in Nat \ {0}, NEW a \in Residues(m), NEW b \in Residues(m)
  PROVE  /\ SubtractMod(a, b, m) = SubtractModOpt(a, b, m)
         /\ SubtractMod(a, b, m) \in Residues(m)
  BY SMT DEF SubtractMod, SubtractModOpt, Residues

(* Adding a mask on one side and subtracting it on the other keeps the sum *)
(* at zero.                                                                *)
LEMMA MaskKeepsSum ==
  ASSUME NEW m \in Nat \ {0}, NEW a \in Residues(m), NEW s \in Residues(m),
         NEW x \in Residues(m), AddMod(a, s, m) = 0
  PROVE  AddMod(AddMod(a, x, m), SubtractMod(s, x, m), m) = 0
<1> DEFINE p == AddModOpt(a, x, m)
           q == SubtractModOpt(s, x, m)
<1>1. AddModOpt(a, s, m) = 0
  BY AddModAgrees
<1>2. p = AddMod(a, x, m) /\ p \in Residues(m)
  BY AddModAgrees
<1>3. q = SubtractMod(s, x, m) /\ q \in Residues(m)
  BY SubtractModAgrees
<1>4. AddModOpt(p, q, m) = 0
  BY <1>1, SMT DEF AddModOpt, SubtractModOpt, Residues
<1>5. QED
  BY <1>2, <1>3, <1>4, AddModAgrees

-----------------------------------------------------------------------------
(* A draw preserves the invariant. *)
LEMMA SampleKeeps ==
  ASSUME IInv, NEW draw \in Draws, Sample(draw)
  PROVE  IInv'
<1> DEFINE mask == (IF draw < sampling.threshold THEN 0 ELSE draw) % modulus
<1>1. mask \in Residues(modulus)
  BY RemainderIsResidue DEF IInv, Draws
<1>2. /\ modulus' = modulus
      /\ added' = [added EXCEPT ![element] = AddMod(added[element], mask, modulus)]
      /\ addedOpt' = [addedOpt EXCEPT ![element] = AddModOpt(addedOpt[element], mask, modulus)]
      /\ subtracted' = [subtracted EXCEPT
                          ![element] = SubtractMod(subtracted[element], mask, modulus)]
      /\ subtractedOpt' = [subtractedOpt EXCEPT
                             ![element] = SubtractModOpt(subtractedOpt[element], mask, modulus)]
  BY DEF Sample
<1>3. element' \in Indices
  BY VectorAssumption DEF Sample, IInv, Indices
<1>4. added[element] \in Residues(modulus) /\ subtracted[element] \in Residues(modulus)
  BY DEF IInv
<1>5. added' \in [Indices -> Residues(modulus)] /\ addedOpt' = added'
  BY <1>1, <1>2, <1>4, AddModAgrees DEF IInv
<1>6. subtracted' \in [Indices -> Residues(modulus)] /\ subtractedOpt' = subtracted'
  BY <1>1, <1>2, <1>4, SubtractModAgrees DEF IInv
<1>7. ASSUME NEW i \in Indices
      PROVE  AddMod(added'[i], subtracted'[i], modulus) = 0
  <2>1. CASE i = element
    <3>1. AddMod(AddMod(added[i], mask, modulus), SubtractMod(subtracted[i], mask, modulus),
                 modulus) = 0
      BY <1>1, <1>4, <2>1, MaskKeepsSum DEF IInv
    <3>2. QED
      BY <1>2, <2>1, <3>1 DEF IInv
  <2>2. CASE i # element
    BY <1>2, <2>2 DEF IInv
  <2>3. QED
    BY <2>1, <2>2
<1>8. QED
  BY <1>2, <1>3, <1>5, <1>6, <1>7 DEF IInv

(* The masks of the two parties cancel, and both ways of reducing agree,   *)
(* after any draws: what MapOfMasks and MapOfMasksV3 compute may be mixed. *)
THEOREM MasksAlwaysCancel == MaskSpec => []MasksCancel
<1>1. MaskInit => IInv
  <2> SUFFICES ASSUME MaskInit PROVE IInv
    OBVIOUS
  <2>1. modulus \in Nat \ {0} /\ 0 \in Indices /\ 0 \in Residues(modulus)
    BY VectorAssumption DEF MaskInit, Indices, Residues
  <2>2. AddMod(0, 0, modulus) = 0
    BY <2>1, AddModAgrees DEF AddModOpt
  <2>3. QED
    BY <2>1, <2>2 DEF MaskInit, IInv, Indices
<1>2. IInv /\ [MaskNext]_maskVars => IInv'
  <2> SUFFICES ASSUME IInv, [MaskNext]_maskVars PROVE IInv'
    OBVIOUS
  <2>1. ASSUME NEW draw \in Draws, Sample(draw) PROVE IInv'
    BY <2>1, SampleKeeps
  <2>2. CASE Signalled
    BY <2>2 DEF Signalled, IInv
  <2>3. CASE UNCHANGED maskVars
    BY <2>3 DEF maskVars, IInv
  <2>4. QED
    BY <2>1, <2>2, <2>3 DEF MaskNext
<1>3. IInv => MasksCancel
  BY DEF IInv, MasksCancel, Indices, Residues
<1>4. QED
  BY <1>1, <1>2, <1>3, PTL DEF MaskSpec
=============================================================================

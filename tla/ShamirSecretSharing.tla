------------------------- MODULE ShamirSecretSharing -------------------------
(***************************************************************************)
(* fcp/secagg/shared/shamir_secret_sharing.cc with its widths scaled down. *)
(* The code has bytes of 8 bits, subsecrets of 31 bits, field elements in  *)
(* words of 32 bits and the smallest prime above 2^31.  Here these are     *)
(* ByteBits, SubsecretBits, SubsecretBits + 1 and Prime, in the same       *)
(* relation: a subsecret lacks one bit of a whole number of bytes, and the *)
(* prime lies between 2^SubsecretBits and one word.                        *)
(*                                                                         *)
(* One object shares a secret and then reconstructs it again and again     *)
(* from the shares that are present, keeping its two caches.               *)
(***************************************************************************)
EXTENDS Integers, SequencesExt

CONSTANTS ByteBits, SubsecretBits, Prime,
          Secrets,      \* the strings that are shared: sequences of bytes
          Thresholds,
          NumShares,
          Randoms       \* the values RandomFieldElement is seen to return

VARIABLES
    secret, threshold,
    shares,      \* the subshares of every client
    inverses,    \* inverses_
    lastInput,   \* last_lc_input_
    lastOutput,  \* last_lc_output_
    result       \* what Reconstruct returned

shamirVars == <<secret, threshold, shares, inverses, lastInput, lastOutput, result>>

\* What a word of the code holds of a number.
Word(n) == n % 2^(SubsecretBits + 1)

MultiplyMod(a, b) == Word((a * b) % Prime)

DivideRoundUp(a, b) == (a + b - 1) \div b

(***************************************************************************)
(* Packing bytes into subsecrets, from the last byte to the first.  The    *)
(* shifted bits that |= adds are never set yet, so it is an addition.      *)
(***************************************************************************)
DivideIntoSubsecrets(bytes) ==
    LET n == DivideRoundUp(Len(bytes) * ByteBits, SubsecretBits)
        Pack(i, s) ==
            LET byte == bytes[i]
                room == SubsecretBits - s.done
                right == byte % 2^room
                next == (s.done + ByteBits) % SubsecretBits
            IN IF room > ByteBits
               THEN [s EXCEPT !.parts[s.at] = @ + byte * 2^s.done,
                              !.done = @ + ByteBits]
               ELSE IF i = 1 /\ room = ByteBits
               THEN [s EXCEPT !.parts[s.at] = @ + right * 2^s.done]
               ELSE [s EXCEPT !.parts[s.at] = @ + right * 2^s.done,
                              !.parts[s.at - 1] = byte \div 2^(ByteBits - next),
                              !.at = @ - 1,
                              !.done = next]
    IN FoldRight(Pack, [i \in 1..Len(bytes) |-> i],
                 [parts |-> [i \in 1..n |-> 0], at |-> n, done |-> 0]).parts

RebuildFromSubsecrets(parts, length) ==
    LET Byte(n) == n % 2^ByteBits
        Unpack(i, s) ==
            LET room == SubsecretBits - s.done
                next == (s.done + ByteBits) % SubsecretBits
                low == Byte(parts[s.at] \div 2^s.done)
                high == IF s.at > 1 THEN parts[s.at - 1] % 2^(ByteBits - room) ELSE 0
            IN IF s.at = 0 THEN s
               ELSE IF room > ByteBits
               THEN [s EXCEPT !.bytes[i] = low, !.done = @ + ByteBits]
               ELSE [bytes |-> [s.bytes EXCEPT
                                    ![i] = Byte(high * 2^(ByteBits - next)) + low],
                     at |-> s.at - 1, done |-> next]
    IN FoldRight(Unpack, [i \in 1..length |-> i],
                 [bytes |-> [i \in 1..length |-> 0], at |-> Len(parts), done |-> 0]).bytes

(***************************************************************************)
(* The polynomials and their interpolation at 0.                           *)
(***************************************************************************)
EvaluatePolynomial(polynomial, x) ==
    (FoldRight(LAMBDA c, sum : ((sum + c) * x) % Prime, Tail(polynomial), 0)
        + Head(polynomial)) % Prime

\* ModPow(x, Prime - 2), by Fermat's little theorem the inverse of x.
ModPow(x, y) == FoldLeft(LAMBDA p, i : MultiplyMod(p, x), 1, [i \in 1..y |-> i])

\* The cache after ModInverse(n): it holds the inverses of 1..n.
ExtendInverses(cache, n) ==
    cache \o [i \in 1..(IF n > Len(cache) THEN n - Len(cache) ELSE 0) |->
                 ModPow(Len(cache) + i, Prime - 2)]

Abs(n) == IF n < 0 THEN -n ELSE n

\* The i-th coefficient: the product of x[j] / (x[j] - x[i]) over j # i.
Coefficient(x, i, inv) ==
    FoldLeft(LAMBDA p, j :
                 LET q == MultiplyMod(p, x[j])
                 IN IF j = i THEN p
                    ELSE IF x[j] > x[i] THEN MultiplyMod(q, inv[x[j] - x[i]])
                    ELSE MultiplyMod(MultiplyMod(q, Prime - 1), inv[x[i] - x[j]]),
             1, [j \in 1..Len(x) |-> j])

Differences(x) == {Abs(x[i] - x[j]) : i, j \in DOMAIN x}

\* Defective variant: the coefficients are kept while the number of shares is the same.
LagrangeCoefficientsByLength(x) ==
    IF Len(x) = Len(lastInput)
    THEN UNCHANGED <<inverses, lastInput, lastOutput>>
    ELSE /\ inverses' = ExtendInverses(inverses, Max(Differences(x)))
         /\ lastInput' = x
         /\ lastOutput' = [i \in 1..Len(x) |-> Coefficient(x, i, inverses')]

LagrangeCoefficients(x) ==
    IF x = lastInput
    THEN UNCHANGED <<inverses, lastInput, lastOutput>>
    ELSE /\ inverses' = ExtendInverses(inverses, Max(Differences(x)))
         /\ lastInput' = x
         /\ lastOutput' = [i \in 1..Len(x) |-> Coefficient(x, i, inverses')]

-----------------------------------------------------------------------------
NoResult == [secret |-> <<>>, overflow |-> FALSE]

ShamirInit ==
    /\ secret = <<>>
    /\ threshold = 0
    /\ shares = <<>>
    /\ inverses = <<>>
    /\ lastInput = <<>>
    /\ lastOutput = <<>>
    /\ result = NoResult

\* The i-th client gets the values of the polynomials at i.
Share(s, t) ==
    LET parts == DivideIntoSubsecrets(s) IN
    /\ secret = <<>>
    /\ secret' = s
    /\ threshold' = t
    /\ \E random \in [1..Len(parts) -> [1..(t - 1) -> Randoms]] :
           shares' = [i \in 1..NumShares |->
                         [k \in 1..Len(parts) |->
                             EvaluatePolynomial(<<parts[k]>> \o random[k], i)]]
    /\ UNCHANGED <<inverses, lastInput, lastOutput, result>>

\* The sum of one subsecret: a word that is reduced after each addition.
Accumulate(x, k, coefficients) ==
    FoldLeft(LAMBDA s, j :
                 LET sum == s.sum + MultiplyMod(shares[x[j]][k], coefficients[j])
                 IN [sum |-> Word(sum) % Prime, overflow |-> s.overflow \/ sum # Word(sum)],
             [sum |-> 0, overflow |-> FALSE], [j \in 1..Len(x) |-> j])

\* The first shares that are present, as many as the threshold.
Participants(present) ==
    SubSeq(SelectSeq([i \in 1..NumShares |-> i], LAMBDA i : i \in present), 1, threshold)

Reconstruct(present) ==
    LET x == Participants(present)
        sums == [k \in 1..Len(shares[1]) |-> Accumulate(x, k, lastOutput')]
    IN /\ secret # <<>>
       /\ Cardinality(present) >= threshold
       /\ LagrangeCoefficients(x)
       /\ result' = [secret |-> RebuildFromSubsecrets([k \in DOMAIN sums |-> sums[k].sum],
                                                      Len(secret)),
                     overflow |-> \E k \in DOMAIN sums : sums[k].overflow]
       /\ UNCHANGED <<secret, threshold, shares>>

ShamirNext ==
    \/ \E s \in Secrets, t \in Thresholds : Share(s, t)
    \/ \E present \in SUBSET (1..NumShares) : Reconstruct(present)

ShamirSpec == ShamirInit /\ [][ShamirNext]_shamirVars

-----------------------------------------------------------------------------
\* Any set of shares that reaches the threshold gives the secret back,
\* whatever sets were used before and left in the caches, as long as no
\* sum of two field elements exceeds the word it is kept in.
ReconstructInvertsShare ==
    result # NoResult /\ ~result.overflow => result.secret = secret

\* The same without the proviso.
ReconstructIsExact == result # NoResult => result.secret = secret
=============================================================================

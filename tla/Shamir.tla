------------------------------- MODULE Shamir -------------------------------
(***************************************************************************)
(* Secret sharing (sss/sss.go, sss/polynomial.go): one call of Split, byte *)
(* by byte of the secret and share by share, and what Combine makes of any *)
(* of its shares.  A share is the sequence of its bytes; its number is the *)
(* point at which the polynomials are evaluated.                           *)
(***************************************************************************)
EXTENDS GF256, FiniteSetsExt, Sequences

CONSTANTS
    Cases,  \* the arguments of Split: records with n, k and secret
    Coef    \* the bytes that the random source delivers

ASSUME CasesAssumption == Cases \subseteq [n : Byte, k : Byte, secret : Seq(Byte)]
ASSUME CoefAssumption == Coef \subseteq Byte

VARIABLES
    n, k,   \* the arguments: the number of shares, the threshold
    secret, \* and what is shared out
    pc,     \* next (before a byte), eval (its inner loop), returned or refused
    done,   \* the bytes of the secret that are shared out
    p,      \* the polynomial of the byte, the secret first
    x,      \* the loop variable, a byte
    shares  \* share number to share

args == <<n, k, secret>>

vars == <<args, pc, done, p, x, shares>>

----------------------------------------------------------------------------
\* Variant: the coefficients from the lowest on.
evalFromLowest(q, y) ==
    LET result[i \in 0 .. Len(q)] ==
            IF i = 0 THEN 0 ELSE Xor(mul(result[i - 1], y), q[i])
    IN  result[Len(q)]

\* Horner's scheme, from the highest coefficient on.
eval(q, y) ==
    LET result[i \in 0 .. Len(q)] ==
            IF i = 0 THEN 0 ELSE Xor(mul(result[i - 1], y), q[Len(q) + 1 - i])
    IN  result[Len(q)]

\* Lagrange interpolation: the value at y of the polynomial through the points,
\* a function from one coordinate to the other.
Weight(points, a, y) ==
    FoldSet(LAMBDA b, w : mul(w, div(Xor(y, b), Xor(a, b))), 1, DOMAIN points \ {a})

interpolate(points, y) ==
    FoldSet(LAMBDA a, v : Xor(v, mul(Weight(points, a, y), points[a])), 0, DOMAIN points)

\* Without shares there is no secret, not even its length.
Combine(some) ==
    IF DOMAIN some = {} THEN <<>>
    ELSE LET length == Len(some[CHOOSE y \in DOMAIN some : TRUE])
         IN  [i \in 1 .. length |-> interpolate([y \in DOMAIN some |-> some[y][i]], 0)]

\* Variant: the last coefficient may be 0 like the others.
PolynomialsOfAnyDegree(s, degree) ==
    {<<s>> \o rest : rest \in [1 .. degree -> Coef]}

\* Variant: k coefficients beside the secret.
PolynomialsOneLonger(s, degree) ==
    {<<s>> \o rest : rest \in {r \in [1 .. degree + 1 -> Coef] : r[degree + 1] # 0}}

\* What generate may answer: the last coefficient is drawn until it is not 0.
Polynomials(s, degree) ==
    {<<s>> \o rest : rest \in {r \in [1 .. degree -> Coef] : r[degree] # 0}}

----------------------------------------------------------------------------
Accepted == n > 2 /\ k > 1

FirstNumber == 1

\* The increment of a byte.
NextNumber(y) == (y + 1) % 256

Init == /\ \E c \in Cases : n = c.n /\ k = c.k /\ secret = c.secret
        /\ pc = "next" /\ done = 0
        /\ p = <<>> /\ x = 0
        /\ shares = [y \in {} |-> <<>>]

Refuse ==
    /\ pc = "next" /\ ~ Accepted
    /\ pc' = "refused"
    /\ UNCHANGED <<args, done, p, x, shares>>

\* Variant of RandomFails: the shares as far as they got are returned.
RandomFailsWithShares ==
    /\ pc = "next" /\ Accepted /\ done < Len(secret)
    /\ pc' = "refused"
    /\ UNCHANGED <<args, done, p, x, shares>>

\* The random source fails: Split returns no shares.
RandomFails ==
    /\ pc = "next" /\ Accepted /\ done < Len(secret)
    /\ pc' = "refused" /\ shares' = [y \in {} |-> <<>>]
    /\ UNCHANGED <<args, done, p, x>>

Generate ==
    /\ pc = "next" /\ Accepted /\ done < Len(secret)
    /\ p' \in Polynomials(secret[done + 1], k - 1)
    /\ x' = FirstNumber
    /\ pc' = "eval"
    /\ UNCHANGED <<args, done, shares>>

Share(y) == IF y \in DOMAIN shares THEN shares[y] ELSE <<>>

EvalShare ==
    /\ pc = "eval" /\ x <= n
    /\ shares' = [y \in DOMAIN shares \cup {x} |->
                     IF y = x THEN Append(Share(x), eval(p, x)) ELSE shares[y]]
    /\ x' = NextNumber(x)
    /\ UNCHANGED <<args, pc, done, p>>

ByteDone ==
    /\ pc = "eval" /\ x > n
    /\ pc' = "next" /\ done' = done + 1
    /\ UNCHANGED <<args, p, x, shares>>

Return ==
    /\ pc = "next" /\ Accepted /\ done = Len(secret)
    /\ pc' = "returned"
    /\ UNCHANGED <<args, done, p, x, shares>>

Next == Refuse \/ RandomFails \/ Generate \/ EvalShare \/ ByteDone \/ Return

Spec == Init /\ [][Next]_vars

----------------------------------------------------------------------------
TypeOK == /\ [n |-> n, k |-> k, secret |-> secret] \in Cases
          /\ pc \in {"next", "eval", "returned", "refused"}
          /\ done \in 0 .. Len(secret)
          /\ p \in Seq(Byte) /\ x \in Byte
          /\ pc = "eval" => Len(p) = k
          /\ DOMAIN shares \subseteq Byte
          /\ \A y \in DOMAIN shares : shares[y] \in Seq(Byte)

\* The tables are those of the field: the product by logarithms is the product
\* of polynomials modulo 0x11b, and div undoes mul (gf256.go).  Looked at before
\* the call begins, for the first byte of its secret with every other.
TablesAreTheField ==
    pc = "next" /\ done = 0 /\ secret # <<>> =>
        LET a == secret[1]
        IN  \A b \in Byte : /\ mul(a, b) = Product(a, b)
                            /\ b # 0 => mul(div(a, b), b) = a

\* While the bytes of a secret are shared out one after the other, all shares have
\* the same length but for the byte at hand; Combine indexes every share with
\* the length of any one of them.  No share is the secret itself, the value at
\* 0, and none has a number that was not asked for, although the loop variable is
\* a byte (sss.go:72).  With n = 255 this is wrong: the loop does not end.
SharesGrowTogether ==
    n < 255 =>
        /\ DOMAIN shares \subseteq 1 .. n
        /\ \A y \in 1 .. n :
              Len(Share(y)) = IF pc = "refused" THEN 0
                              ELSE IF pc = "eval" /\ y < x THEN done + 1 ELSE done

Returned == pc = "returned" /\ secret # <<>>

SharesAt(S) == [y \in S |-> shares[y]]

\* sss.go:7-8: any k shares, and any more, combine to the secret.
ThresholdRecovers ==
    Returned => \A S \in SUBSET DOMAIN shares :
                    Cardinality(S) >= k => Combine(SharesAt(S)) = secret

\* sss.go:31-32: with fewer than k shares "the result of f(0) will not be the
\* secret".  So it is with one share less than k, in every byte, thanks to the
\* last coefficient; with still fewer it may be the secret by chance.
OneShortIsWrong ==
    Returned => \A S \in kSubset(k - 1, DOMAIN shares) :
                    \A i \in 1 .. Len(secret) :
                        Combine(SharesAt(S))[i] # secret[i]
============================================================================

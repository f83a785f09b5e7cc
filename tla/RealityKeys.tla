---------------------------- MODULE RealityKeys ----------------------------
(***************************************************************************)
(* `singbox-core reality-keygen`: the key pair of Reality.  The private    *)
(* half goes to the server and the public half to every client, and they   *)
(* meet only if the one belongs to the other.  The pair comes from         *)
(* WebCrypto, or where that knows no X25519, from a Montgomery ladder      *)
(* written out in the command: a step here is a turn of its loop.          *)
(*                                                                         *)
(* The field, the curve v^2 = u^3 + A*u^2 + u and the width are constants; *)
(* Curve25519 is P = 2^255 - 19, A = 486662, Bits = 255, BASEPOINT = 9,    *)
(* and the instance a small curve of the same kind: eight times a prime    *)
(* number of points, and a base point of prime order.  Keys are numbers;   *)
(* their bytes are little-endian, their text base64url.                    *)
(***************************************************************************)
EXTENDS Integers

CONSTANTS
  P, A, Bits,
  BasePoint     \* <<u, v>>; the code has its u

VARIABLES
  pc,
  private,      \* what is emitted, as it was drawn: not clamped
  public,
  t, x2, z2, x3, z3, swap

keyVars == <<pc, private, public, t, x2, z2, x3, z3, swap>>

Field == 0..P - 1

Raw == 0..2 ^ (Bits + 1) - 1

-----------------------------------------------------------------------------
(* What the keys mean: points of the curve, added by chord and tangent.    *)

Infinity == <<>>

Inverted(x) == CHOOSE y \in Field : (x * y) % P = 1

Plus(p, q) ==
  IF p = Infinity THEN q
  ELSE IF q = Infinity THEN p
  ELSE IF p[1] = q[1] /\ (p[2] + q[2]) % P = 0 THEN Infinity
  ELSE LET slope == IF p = q
                    THEN ((3 * p[1] * p[1] + 2 * A * p[1] + 1) * Inverted((2 * p[2]) % P)) % P
                    ELSE ((q[2] - p[2]) * Inverted((q[1] - p[1]) % P)) % P
           u == (slope * slope - A - p[1] - q[1]) % P
       IN  <<u, (slope * (p[1] - u) - p[2]) % P>>

Multiple[k \in 0..2 ^ Bits] ==
  IF k = 0 THEN Infinity
  ELSE LET half == Multiple[k \div 2]
       IN  Plus(Plus(half, half), IF k % 2 = 1 THEN BasePoint ELSE Infinity)

PublicOf(k) == IF Multiple[k] = Infinity THEN 0 ELSE Multiple[k][1]

-----------------------------------------------------------------------------

\* k[0] &= 248; k[31] &= 127; k[31] |= 64.
clamp(k) == (k % 2 ^ (Bits - 1)) - (k % 8) + 2 ^ (Bits - 1)

mod(n) == n % P

\* By repeated squaring.
modPow(base, exponent) ==
  LET power[e \in 0..exponent] ==
        IF e = 0 THEN 1
        ELSE mod(mod(power[e \div 2] * power[e \div 2]) * (IF e % 2 = 1 THEN base ELSE 1))
  IN  power[exponent]

KeysInit ==
  /\ pc = "generate"
  /\ private = 0 /\ public = 0
  /\ t = 0 /\ x2 = 1 /\ z2 = 0 /\ x3 = BasePoint[1] /\ z3 = 1 /\ swap = 0

\* WebCrypto draws the pair, as RFC 7748 says.
WebCrypto ==
  /\ pc = "generate"
  /\ private' \in Raw
  /\ public' = PublicOf(clamp(private'))
  /\ pc' = "done"
  /\ UNCHANGED <<t, x2, z2, x3, z3, swap>>

\* It fails otherwise than by not knowing the algorithm: nothing is emitted.
WebCryptoThrows ==
  /\ pc = "generate"
  /\ pc' = "failed"
  /\ UNCHANGED <<private, public, t, x2, z2, x3, z3, swap>>

\* NotSupportedError.
generateRealityKeypairFallback ==
  /\ pc = "generate"
  /\ private' \in Raw
  /\ t' = Bits - 1
  /\ pc' = "ladder"
  /\ UNCHANGED <<public, x2, z2, x3, z3, swap>>

\* The bit of the scalar this turn reads.
kt == (clamp(private) \div 2 ^ t) % 2

\* The first point is doubled and the two are added, after a swap if told so.
Turn(swapped) ==
  LET X2 == IF swapped THEN x3 ELSE x2
      Z2 == IF swapped THEN z3 ELSE z2
      X3 == IF swapped THEN x2 ELSE x3
      Z3 == IF swapped THEN z2 ELSE z3
      a == mod(X2 + Z2)
      b == mod(X2 - Z2)
      aa == mod(a * a)
      bb == mod(b * b)
      e == mod(aa - bb)
      da == mod(mod(X3 - Z3) * a)
      cb == mod(mod(X3 + Z3) * b)
  IN  /\ x3' = mod((da + cb) ^ 2)
      /\ z3' = mod(BasePoint[1] * mod((da - cb) ^ 2))
      /\ x2' = mod(aa * bb)
      /\ z2' = mod(e * mod(aa + ((A - 2) \div 4) * e))

\* MUTANT: a ladder that swaps by the bit alone, and not by its change.
LadderStep_bit ==
  /\ pc = "ladder" /\ t >= 0
  /\ Turn(kt = 1)
  /\ swap' = kt
  /\ t' = t - 1
  /\ UNCHANGED <<pc, private, public>>

LadderStep ==
  /\ pc = "ladder" /\ t >= 0
  /\ Turn(swap # kt)
  /\ swap' = kt
  /\ t' = t - 1
  /\ UNCHANGED <<pc, private, public>>

\* The last swap and the division.
LadderEnds ==
  /\ pc = "ladder" /\ t < 0
  /\ public' = IF swap = 1 THEN mod(x3 * modPow(z3, P - 2)) ELSE mod(x2 * modPow(z2, P - 2))
  /\ pc' = "done"
  /\ UNCHANGED <<private, t, x2, z2, x3, z3, swap>>

KeysNext ==
  WebCrypto \/ WebCryptoThrows \/ generateRealityKeypairFallback \/ LadderStep \/ LadderEnds

KeysSpec == KeysInit /\ [][KeysNext]_keyVars

-----------------------------------------------------------------------------
(* Properties.                                                             *)

\* The quotient <<x, z>> stands for a point; z = 0 for the point at infinity.
Stands(x, z, point) ==
  IF point = Infinity THEN z = 0 /\ x # 0
  ELSE z # 0 /\ x = mod(z * point[1])

\* Between two turns the ladder holds the multiples by the bits read so far and
\* by one more, in the order its last swap left them.
LadderTracks ==
  pc = "ladder" =>
    LET read == clamp(private) \div 2 ^ (t + 1) IN
    IF swap = 1
    THEN Stands(x3, z3, Multiple[read]) /\ Stands(x2, z2, Multiple[read + 1])
    ELSE Stands(x2, z2, Multiple[read]) /\ Stands(x3, z3, Multiple[read + 1])

\* Both ways to make a pair, and every turn of the ladder, lead to a public key
\* that belongs to the private key as sing-box will read it, clamped: otherwise
\* each client that imports it would fail to shake hands.
KeyPairMatches ==
  /\ LadderTracks
  /\ pc = "done" => public = PublicOf(clamp(private))
=============================================================================

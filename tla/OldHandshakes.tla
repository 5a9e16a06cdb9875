--------------------------- MODULE OldHandshakes ----------------------------
(***************************************************************************)
(* Three earlier key exchanges: on an Edwards curve with a window            *)
(* multiplication (src/_attic_/ECC.cpp), on the same curve with the cofactor  *)
(* removed (src/_attic_/TwistedEdward.cpp), and with RSA                      *)
(* (src/_attic_/SecureHandshake.cpp).  Numbers are integers modulo small      *)
(* primes: how they are computed from limbs is the subject of BigInt.  A      *)
(* client and a server run one exchange; what matters is that both end with   *)
(* the same keys, or that the server refuses.                                 *)
(***************************************************************************)
EXTENDS Integers, Sequences, FiniteSets, SequencesExt

CONSTANTS FieldPrime, CurveD,       \* y^2 - x^2 = 1 + d x^2 y^2, the prime is 3 mod 4
          WindowBits,               \* w, 6 in ecc_MultiplyNoT
          ScalarBits,               \* bits of a private key
          PrivateKeys,              \* private keys of the server and of clients
          RsaPrimes, FirstE,        \* 65537
          HashValues,               \* a hash is below this
          Salts                     \* values of A
VARIABLES shake,                    \* "ecc", "edward" or "rsa"
          stage, server_key, client_key, sent, secrets
shakeVars == <<shake, stage, server_key, client_key, sent, secrets>>

RECURSIVE PowMod(_, _, _)
PowMod(b, e, m) == IF e = 0 THEN 1 % m
                   ELSE LET h == PowMod(b, e \div 2, m)
                        IN  IF e % 2 = 0 THEN (h * h) % m ELSE (h * h * b) % m
(* The inverse, and 0 where there is none. *)
InverseMod(u, m) == IF \E i \in 0 .. m - 1 : (u * i) % m = 1
                    THEN CHOOSE i \in 0 .. m - 1 : (u * i) % m = 1 ELSE 0
F(v) == v % FieldPrime

-----------------------------------------------------------------------------
(* Points (X : Y : T : Z) with x = X/Z, y = Y/Z, T = XY/Z.  The functions whose
   name ends in NoT leave the T of the result as it was. *)
ecc_GetAffineXY(p) == LET A == InverseMod(p.Z, FieldPrime)
                      IN  [x |-> F(p.X * A), y |-> F(p.Y * A)]
ecc_GetAffineX(p) == F(p.X * InverseMod(p.Z, FieldPrime))
ecc_SolveAffineY(x) ==
  LET A == F(x * x)
      D == InverseMod(F(1 - CurveD * A), FieldPrime)
  IN  PowMod(F((A + 1) * D), (FieldPrime + 1) \div 4, FieldPrime)
ecc_IsValidAffineXY(a) ==
  LET A == F(a.x * a.x)
      BB == F(a.y * a.y)
  IN  F(CurveD * A * BB + A + 1 - BB) = 0
Affine(a) == [X |-> F(a.x), Y |-> F(a.y), T |-> F(a.x * a.y), Z |-> 1]
ecc_Negate(p) == [p EXCEPT !.X = F(-@), !.T = F(-@)]
ecc_Add(p, q) ==
  LET A == F((p.Y - p.X) * (q.Y - q.X))
      BB == F((p.Y + p.X) * (q.Y + q.X))
      C == F(2 * CurveD * p.T * q.T)
      D == F(2 * p.Z * q.Z)
      E == BB - A
      FF == D - C
      G == D + C
      H == BB + A
  IN  [X |-> F(E * FF), Y |-> F(G * H), T |-> F(E * H), Z |-> F(FF * G)]
ecc_AddNoT(p, q, old) == [ecc_Add(p, q) EXCEPT !.T = old.T]
ecc_Double(p) ==
  LET A == F(p.X * p.X)
      BB == F(p.Y * p.Y)
      C == F(2 * p.Z * p.Z)
      D == -A
      G == F(D + BB)
      FF == G - C
      H == D - BB
      E == F((p.X + p.Y) * (p.X + p.Y) + H)
  IN  [X |-> F(E * FF), Y |-> F(G * H), T |-> F(E * H), Z |-> F(FF * G)]
ecc_DoubleNoT(p) == [ecc_Double(p) EXCEPT !.T = p.T]

(* The window that ends offset bits below the top of k: a digit +-x, x = odd * 2^s. *)
WindowAt(k, offset) ==
  IF offset <= ScalarBits THEN (k \div 2^(ScalarBits - offset)) % 2^(WindowBits + 1)
  ELSE (k * 2^(offset - ScalarBits)) % 2^(WindowBits + 1)
Negative(bits) == bits >= 2^WindowBits
Digit(bits) == LET z == IF Negative(bits) THEN 2^(WindowBits + 1) - 1 - bits ELSE bits
               IN  z - (z \div 2)
TrailingZeros(x) == CHOOSE s \in 0 .. WindowBits : x % 2^s = 0 /\ (x \div 2^s) % 2 = 1
(* P, 3P, 5P, ... *)
Precomputed(p) == FoldLeft(LAMBDA t, i : Append(t, ecc_Add(t[i], ecc_Double(p))), <<p>>,
                           [i \in 1 .. 2^(WindowBits - 2) - 1 |-> i])
RECURSIVE DoublesNoT(_, _)
DoublesNoT(p, n) == IF n = 0 THEN p ELSE DoublesNoT(ecc_DoubleNoT(p), n - 1)
(* The last doubling before an addition also computes T.  Mutant: it does not. *)
DoublesWithout(p, n) == DoublesNoT(p, n)
Doubles(p, n) == ecc_Double(DoublesNoT(p, n - 1))
(* Digits from the top.  After the last one the code doubles once if any doubling is
   due: the loop has an empty body. *)
ecc_MultiplyNoT(p, k) ==
  LET table == Precomputed(p)
      last == (ScalarBits + WindowBits - 1) \div WindowBits
      skip == IF last * WindowBits > ScalarBits THEN last * WindowBits - ScalarBits - 1 ELSE 0
      Window(a, i) ==
        LET bits == WindowAt(k, i * WindowBits)
            x == Digit(bits)
            s == TrailingZeros(x)
            odd == table[(((x \div 2^s) - 1) \div 2) + 1]
            point == IF Negative(bits) THEN ecc_Negate(odd) ELSE odd
            ready == Doubles(a.product, a.before + WindowBits - s)
        IN  IF x = 0 THEN [a EXCEPT !.before = @ + WindowBits]
            ELSE [product |-> IF a.seen THEN ecc_AddNoT(point, ready, ready) ELSE point,
                  seen |-> TRUE, before |-> s]
      done == FoldLeft(Window, [product |-> p, seen |-> FALSE, before |-> 0],
                       [i \in 1 .. last |-> i])
  IN  IF done.before > skip THEN ecc_DoubleNoT(done.product) ELSE done.product

(* What PtMultiply of src/src/math does: an exact multiple. *)
RECURSIVE PtMultiply(_, _)
PtMultiply(p, k) == IF k = 0 THEN [X |-> 0, Y |-> 1, T |-> 0, Z |-> 1]
                    ELSE LET h == ecc_Double(PtMultiply(p, k \div 2))
                         IN  IF k % 2 = 1 THEN ecc_Add(h, p) ELSE h
(* B = hB, h = 4. *)
TimesCofactor(p) == ecc_Double(ecc_DoubleNoT(p))

-----------------------------------------------------------------------------
ShakeInit == /\ shake \in {"ecc", "edward", "rsa"} /\ stage = "start"
             /\ server_key = <<>> /\ client_key = <<>> /\ sent = <<>> /\ secrets = <<>>

(* TwistedEdwardServer::GenerateOfflineStuff, of either kind; PtGenerate is like the
   first lines of the older one. *)
GenerateOfflineStuff ==
  /\ shake \in {"ecc", "edward"} /\ stage = "start"
  /\ \E x \in 0 .. FieldPrime - 1, a \in PrivateKeys :
       LET point == [x |-> x, y |-> ecc_SolveAffineY(x)]
           base == TimesCofactor(Affine(point))
           product == IF shake = "ecc" THEN ecc_MultiplyNoT(base, a) ELSE PtMultiply(base, a)
       IN  /\ ecc_IsValidAffineXY(point)
           /\ server_key' = [a |-> a, base |-> ecc_GetAffineXY(base), product |-> ecc_GetAffineXY(product)]
  /\ stage' = "server" /\ UNCHANGED <<shake, client_key, sent, secrets>>
(* TwistedEdwardClient::ComputeSharedSecret. *)
ClientSharedSecret ==
  /\ shake \in {"ecc", "edward"} /\ stage = "server"
  /\ \E b \in PrivateKeys :
       LET base == Affine(server_key.base)
           product == Affine(server_key.product)
           public == IF shake = "ecc" THEN ecc_MultiplyNoT(base, b) ELSE PtMultiply(base, b)
           shared == IF shake = "ecc" THEN ecc_MultiplyNoT(product, b)
                     ELSE PtMultiply(TimesCofactor(product), b)
       IN  /\ shake = "edward" => ecc_IsValidAffineXY(server_key.base) /\ ecc_IsValidAffineXY(server_key.product)
           /\ sent' = ecc_GetAffineXY(public)
           /\ client_key' = [b |-> b, secret |-> ecc_GetAffineX(shared)]
  /\ stage' = "sent" /\ UNCHANGED <<shake, server_key, secrets>>
(* On the way the public key may become another pair of coordinates. *)
Tampered(xy) ==
  /\ shake \in {"ecc", "edward"} /\ stage = "sent" /\ sent # xy
  /\ sent' = xy /\ stage' = "tampered" /\ UNCHANGED <<shake, server_key, client_key, secrets>>
(* TwistedEdwardServer::ComputeSharedSecret: false when the point is not on the curve. *)
CheckPointNot(a) == TRUE
CheckPoint(a) == ecc_IsValidAffineXY(a)
ServerSharedSecret ==
  /\ shake \in {"ecc", "edward"} /\ stage \in {"sent", "tampered"}
  /\ LET p == Affine(sent)
         shared == IF shake = "ecc" THEN ecc_MultiplyNoT(p, server_key.a)
                   ELSE PtMultiply(TimesCofactor(p), server_key.a)
     IN  secrets' = [ok |-> CheckPoint(sent), tampered |-> stage = "tampered",
                     secret |-> ecc_GetAffineX(shared)]
  /\ stage' = "done" /\ UNCHANGED <<shake, server_key, client_key, sent>>

-----------------------------------------------------------------------------
(* RSA.  SetPrivateKey: the larger factor first, the first e that fits, and the
   numbers of the Chinese remainder. *)
RelativelyPrime(u, v) == \A d \in 2 .. u : u % d # 0 \/ v % d # 0
PublicE(p, q) == CHOOSE e \in FirstE .. FirstE + p * q :
                   /\ (e - FirstE) % 2 = 0 /\ RelativelyPrime(e, p - 1) /\ RelativelyPrime(e, q - 1)
                   /\ \A o \in FirstE .. e - 1 : (o - FirstE) % 2 = 0 =>
                        ~(RelativelyPrime(o, p - 1) /\ RelativelyPrime(o, q - 1))
LargerFirst(pi, qi) == IF pi > qi THEN <<pi, qi>> ELSE <<qi, pi>>
SetPrivateKey(pi, qi) ==
  LET p == LargerFirst(pi, qi)[1]
      q == LargerFirst(pi, qi)[2]
      e == PublicE(p, q)
  IN  [p |-> p, q |-> q, e |-> e, modulus |-> p * q, dP |-> InverseMod(e, p - 1),
       dQ |-> InverseMod(e, q - 1), qInv |-> InverseMod(q, p)]
GenerateKey ==
  /\ shake = "rsa" /\ stage = "start"
  /\ \E p \in RsaPrimes, q \in RsaPrimes :
       p # q /\ p * q > 2 * HashValues /\ server_key' = SetPrivateKey(p, q)
  /\ stage' = "server" /\ UNCHANGED <<shake, client_key, sent, secrets>>
(* H(A, B): some function of both. *)
HashAB(salt, b) == (3 * salt + 5 * b + 1) % HashValues
Encrypt(pt) == PowMod(pt, server_key.e, server_key.modulus)
(* The padding is reduced once and 1 is taken from its upper part, so that the
   message stays below the modulus whatever hash comes below.  Mutant: not taken. *)
UpperLessKept(b) == b
UpperLess(b) == b - 1
EncryptSessionKeys ==
  /\ shake = "rsa" /\ stage = "server"
  /\ \E salt \in Salts, random \in 0 .. 2 * server_key.modulus - 1 :
       LET pad == IF random >= server_key.modulus THEN random - server_key.modulus ELSE random
           b == UpperLess(pad \div HashValues)
           h == HashAB(salt, b)
       IN  /\ pad \div HashValues > 0
           /\ sent' = [salt |-> salt, message |-> Encrypt(h + b * HashValues)]
           /\ client_key' = [salt |-> salt, client |-> h, server |-> <<h, b>>]
  /\ stage' = "sent" /\ UNCHANGED <<shake, server_key, secrets>>
(* Garner's recombination. *)
Decrypt(ct) ==
  LET k == server_key
      sp == PowMod(ct, k.dP, k.p)
      sq == PowMod(ct, k.dQ, k.q)
      diff == IF sp < sq THEN sp - sq + k.p ELSE sp - sq
  IN  sq + ((k.qInv * diff) % k.p) * k.q
(* The server may have given out another salt since. *)
DecryptSessionKeys ==
  /\ shake = "rsa" /\ stage = "sent"
  /\ \E salt \in Salts :
       LET pt == Decrypt(sent.message)
           b == pt \div HashValues
           h == pt % HashValues
       IN  secrets' = [ok |-> salt = sent.salt /\ h = HashAB(salt, b), tampered |-> salt # sent.salt,
                       client |-> h, server |-> <<h, b>>]
  /\ stage' = "done" /\ UNCHANGED <<shake, server_key, client_key, sent>>

ShakeNext == \/ GenerateOfflineStuff \/ ClientSharedSecret \/ ServerSharedSecret
             \/ (\E x \in {0, 1, 2}, y \in 0 .. FieldPrime - 1 : Tampered([x |-> x, y |-> y]))
             \/ GenerateKey \/ EncryptSessionKeys \/ DecryptSessionKeys
ShakeSpec == ShakeInit /\ [][ShakeNext]_shakeVars

(* An exchange nobody touched ends with the same keys on both sides: the window
   multiplication may miss doublings, but both sides miss the same ones; and the
   server takes neither a point off the curve nor an answer to another salt. *)
ShakeAgrees ==
  stage = "done" =>
    IF secrets.tampered
    THEN secrets.ok => shake # "rsa" /\ ecc_IsValidAffineXY(sent)
    ELSE /\ secrets.ok
         /\ IF shake = "rsa" THEN secrets.client = client_key.client /\ secrets.server = client_key.server
            ELSE secrets.secret = client_key.secret
(* The points of an exchange are multiples on the curve, and T is what it should be. *)
PointsOnCurve ==
  shake \in {"ecc", "edward"} /\ stage # "start" =>
    /\ ecc_IsValidAffineXY(server_key.base) /\ ecc_IsValidAffineXY(server_key.product)
    /\ stage = "sent" => ecc_IsValidAffineXY(sent)
HandshakesRight == ShakeAgrees /\ PointsOnCurve
=============================================================================

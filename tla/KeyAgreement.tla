---------------------------- MODULE KeyAgreement ----------------------------
(***************************************************************************)
(* The key agreement of the tunnel (src/src/crypt/tunnel/KeyAgreement*.cpp, *)
(* EasyHandshake.cpp): several workers of the server answer challenges with *)
(* one long-term key b and an ephemeral key y that is kept in two places    *)
(* and replaced, while others use it, after every RekeyAt challenges; the   *)
(* initiators check the answers.  Signatures and proofs of identity share   *)
(* the arithmetic.                                                          *)
(*                                                                         *)
(* A point is its logarithm: the curve is the integers modulo CurveH * q,   *)
(* the generator has order q, 0 is the identity.  Scalars are words.        *)
(***************************************************************************)
EXTENDS Integers, FiniteSets

CONSTANTS Word,        \* 2^KeyBits
          CurveQ,      \* the order of the generator, a little above Word / 4
          MinS,        \* 1000
          RekeyAt,     \* 100
          MaxChallenges, \* bound on the challenges answered
          Randoms,     \* what the random number generator may give
          Messages,    \* messages to sign
          Responders,  \* threads of the server
          Prompt       \* is a worker through before its key is replaced twice?

CurveH == 4
Generator == CurveH
Scalars == 0 .. Word - 1

ASSUME KeyAgreementAssumption ==
  /\ CurveQ \in Nat /\ Word \in Nat /\ MinS \in Nat /\ RekeyAt \in Nat
  /\ Word < 4 * CurveQ /\ 3 * CurveQ <= Word /\ Messages \subseteq Nat /\ Randoms \subseteq Scalars /\ Prompt \in BOOLEAN

(* GenerateKey(): random words until one is right. *)
GeneratedKeys == {k \in Randoms : k < Word \div 2 /\ k < CurveQ /\ k > 1}

PtMultiply(p, k) == (k * p) % (CurveH * CurveQ)
PtAdd(p, r) == (p + r) % (CurveH * CurveQ)
(* Two points of a curve have the same x: p and its mirror image. *)
AffineX(p) == {p, (2 * CurveQ - p) % (CurveH * CurveQ)}
CofactorMul(p) == PtMultiply(p, CurveH)

(* The sum of two scalars below q, and 4 * k, with the carry of a word. *)
AddModQ(s, t) == (s + t) % CurveQ
DoubleWord(k) == IF 2 * k >= Word THEN (2 * k - Word - CurveQ) % Word ELSE 2 * k

(* The hash: it spreads over the words, nothing else is asked of it. *)
Hash(x, y, z, r) == (3 * x + 5 * y + 7 * z + r) % Word

VARIABLES serverKey,       \* b
          ephemeral,       \* y[0], y[1]
          publicY,         \* Y_neutral[0], Y_neutral[1]
          activeY, challengeCount,
          responder,       \* what each worker is at
          challenges,      \* number of challenges taken
          signed           \* the signature made in the last step
keyVars == <<serverKey, ephemeral, publicY, activeY, challengeCount, responder,
             challenges, signed>>

KeyIdle == [pc |-> "idle", a |-> 0, next |-> 0, thisY |-> 0, Y |-> 0, r |-> 0, mac |-> {}]
Unsigned == [by |-> 0, msg |-> 0, rrn |-> 0, e |-> 0, s |-> 0]

KeyInit ==
  /\ serverKey \in GeneratedKeys
  /\ \E y \in GeneratedKeys :
       /\ ephemeral = [i \in {0, 1} |-> IF i = 1 THEN y ELSE 0]
       /\ publicY = [i \in {0, 1} |-> IF i = 1 THEN PtMultiply(Generator, y) ELSE 0]
  /\ activeY = 1 /\ challengeCount = 0 /\ challenges = 0
  /\ responder = [w \in Responders |-> KeyIdle] /\ signed = Unsigned

Goto(w, pc) == responder' = [responder EXCEPT ![w].pc = pc]

-----------------------------------------------------------------------------
(* GenerateChallenge() of an initiator reaches a worker, which checks the
   point and counts it; the one that counts the hundredth replaces the key. *)
\* Mutant: every worker past the limit replaces the key.
TimeToRekeyFrom(n) == n >= RekeyAt
TimeToRekey(n) == n = RekeyAt

TakeChallenge(w) ==
  /\ responder[w].pc = "idle" /\ challenges < MaxChallenges
  /\ \E a \in GeneratedKeys :
       /\ PtMultiply(Generator, a) # 0
       /\ responder' = [responder EXCEPT ![w] =
            [KeyIdle EXCEPT !.a = a,
                         !.pc = IF TimeToRekey(challengeCount) THEN "rekey" ELSE "answer"]]
  /\ challengeCount' = challengeCount + 1 /\ challenges' = challenges + 1
  /\ UNCHANGED <<serverKey, ephemeral, publicY, activeY>> /\ signed' = Unsigned

(* Rekey(): first the private half, then the public one, in the place not in
   use; then the places change roles and the count starts again. *)
RekeyPrivate(w) ==
  LET next == 1 - activeY IN
  /\ responder[w].pc = "rekey"
  /\ Prompt => \A v \in Responders : responder[v].pc \in {"copy", "prove"}
                                       => responder[v].thisY # next
  /\ \E y \in GeneratedKeys : ephemeral' = [ephemeral EXCEPT ![next] = y]
  /\ responder' = [responder EXCEPT ![w].pc = "public", ![w].next = next]
  /\ UNCHANGED <<serverKey, publicY, activeY, challengeCount, challenges>> /\ signed' = Unsigned

RekeyPublic(w) ==
  LET next == responder[w].next IN
  /\ responder[w].pc = "public"
  /\ publicY' = [publicY EXCEPT ![next] = PtMultiply(Generator, ephemeral[next])]
  /\ Goto(w, "switch")
  /\ UNCHANGED <<serverKey, ephemeral, activeY, challengeCount, challenges>> /\ signed' = Unsigned

RekeySwitch(w) ==
  /\ responder[w].pc = "switch"
  /\ activeY' = responder[w].next /\ Goto(w, "recount")
  /\ UNCHANGED <<serverKey, ephemeral, publicY, challengeCount, challenges>> /\ signed' = Unsigned

RekeyDone(w) ==
  /\ responder[w].pc = "recount"
  /\ challengeCount' = 0 /\ Goto(w, "answer")
  /\ UNCHANGED <<serverKey, ephemeral, publicY, activeY, challenges>> /\ signed' = Unsigned

-----------------------------------------------------------------------------
(* The rest of ProcessChallenge(): the place is read once, then the public
   half is copied and the private half used. *)
ReadActive(w) ==
  /\ responder[w].pc = "answer"
  /\ responder' = [responder EXCEPT ![w].pc = "copy", ![w].thisY = activeY]
  /\ UNCHANGED <<serverKey, ephemeral, publicY, activeY, challengeCount, challenges>> /\ signed' = Unsigned

CopyY(w) ==
  /\ responder[w].pc = "copy"
  /\ responder' = [responder EXCEPT ![w].pc = "prove",
                                    ![w].Y = publicY[responder[w].thisY]]
  /\ UNCHANGED <<serverKey, ephemeral, publicY, activeY, challengeCount, challenges>> /\ signed' = Unsigned

PublicB == PtMultiply(Generator, serverKey)
ChallengeOf(w) == PtMultiply(Generator, responder[w].a)
HashS(A, Y, r) == Hash(A, PublicB, Y, r)

\* Mutant: the cofactor is left out on the responder's side.
ResponderPointNoCofactor(w, S) ==
  PtMultiply(ChallengeOf(w), AddModQ((S * ephemeral[responder[w].thisY]) % CurveQ, serverKey))

(* T = (S * y + b mod q) * h * A. *)
ResponderPoint(w, S) ==
  PtMultiply(CofactorMul(ChallengeOf(w)),
             AddModQ((S * ephemeral[responder[w].thisY]) % CurveQ, serverKey))

ProcessChallenge(w) ==
  /\ responder[w].pc = "prove"
  /\ \E r \in Randoms :
       LET S == HashS(ChallengeOf(w), responder[w].Y, r) IN
       /\ S >= MinS
       /\ responder' = [responder EXCEPT ![w].pc = "answered", ![w].r = r,
                                         ![w].mac = AffineX(ResponderPoint(w, S))]
  /\ UNCHANGED <<serverKey, ephemeral, publicY, activeY, challengeCount, challenges>> /\ signed' = Unsigned

(* T = ah * B + S * a * hY, where ah is doubled as a word. *)
InitiatorPoint(a, Y, S) ==
  PtAdd(PtMultiply(PublicB, DoubleWord(DoubleWord(a))),
        PtMultiply(CofactorMul(Y), (S * a) % CurveQ))

(* ProcessAnswer() of the initiator with the private key a. *)
ProcessAnswer(a, Y, r, mac) ==
  LET S == HashS(PtMultiply(Generator, a), Y, r)
  IN Y # 0 /\ S >= MinS /\ mac = AffineX(InitiatorPoint(a, Y, S))

Answered(w) ==
  /\ responder[w].pc = "answered"
  /\ responder' = [responder EXCEPT ![w] = KeyIdle]
  /\ UNCHANGED <<serverKey, ephemeral, publicY, activeY, challengeCount, challenges>> /\ signed' = Unsigned

-----------------------------------------------------------------------------
(* Schnorr signatures.  The hash goes out unreduced and is reduced by both
   sides; K is the x of a point. *)
Mirror(p) == CHOOSE x \in AffineX(p) : \A z \in AffineX(p) : x <= z
MessageHash(msg, rrn, K) == Hash(msg, rrn, Mirror(K), 0)

\* Mutant: s is not negated before k is added.
SignatureSPlus(b, e, k) == AddModQ((b * e) % CurveQ, k)
SignatureS(b, e, k) == AddModQ((CurveQ - ((b * e) % CurveQ)) % CurveQ, k)

(* Sign() of the server, and of an initiator that proves its identity. *)
Signature(b, msg, rrn) ==
  {sig \in {[by |-> b, msg |-> msg, rrn |-> rrn,
             e |-> MessageHash(msg, rrn, PtMultiply(Generator, k)),
             s |-> SignatureS(b, MessageHash(msg, rrn, PtMultiply(Generator, k)) % CurveQ, k)]
              : k \in GeneratedKeys} : sig.e % CurveQ # 0 /\ sig.s # 0}

Sign ==
  /\ \E m \in Messages : signed' \in Signature(serverKey, m, 0)
  /\ UNCHANGED <<serverKey, ephemeral, publicY, activeY, challengeCount, responder, challenges>>

ProcessAnswerWithIdentity(w) ==
  /\ responder[w].pc = "answered"
  /\ ProcessAnswer(responder[w].a, responder[w].Y, responder[w].r, responder[w].mac)
  /\ \E i \in GeneratedKeys, nonce \in Messages : signed' \in Signature(i, nonce, responder[w].r)
  /\ UNCHANGED <<serverKey, ephemeral, publicY, activeY, challengeCount, responder, challenges>>

(* VerifySignature() and VerifyInitiatorIdentity(). *)
VerifySignature(sig) ==
  LET e == sig.e % CurveQ
      K == PtAdd(PtMultiply(Generator, sig.s),
                 PtMultiply(PtMultiply(Generator, sig.by), e))
  IN /\ e # 0 /\ sig.s # 0 /\ sig.s < CurveQ
     /\ sig.e = MessageHash(sig.msg, sig.rrn, K)

KeyNext ==
  \/ Sign
  \/ \E w \in Responders :
       \/ TakeChallenge(w) \/ RekeyPrivate(w) \/ RekeyPublic(w) \/ RekeySwitch(w)
       \/ RekeyDone(w) \/ ReadActive(w) \/ CopyY(w) \/ ProcessChallenge(w)
       \/ ProcessAnswerWithIdentity(w) \/ Answered(w)
KeySpec == KeyInit /\ [][KeyNext]_keyVars

-----------------------------------------------------------------------------
(* Every answer a worker gives is accepted by the initiator whose challenge
   it answers, also when the ephemeral key is replaced meanwhile, and both
   ends have the same key then. *)
AnswersAccepted ==
  \A w \in Responders : responder[w].pc = "answered" =>
    ProcessAnswer(responder[w].a, responder[w].Y, responder[w].r, responder[w].mac)

(* Past the limit exactly one worker is replacing the key: the count is never
   left beyond it, where no worker would replace the key again, and two never
   write the same place. *)
OneRekeys ==
  Cardinality({w \in Responders :
    responder[w].pc \in {"rekey", "public", "switch", "recount"}})
      = (IF challengeCount > RekeyAt THEN 1 ELSE 0)

(* Every signature and proof of identity is verified. *)
SignatureVerified == signed # Unsigned => VerifySignature(signed)

KeysAgree == AnswersAccepted /\ OneRekeys /\ SignatureVerified
=============================================================================

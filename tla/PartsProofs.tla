----------------------------- MODULE PartsProofs -----------------------------
(***************************************************************************)
(* Proofs about parts the transport runs on: the reader-writer lock         *)
(* (RWLock), for any finite set of threads and any interleaving of their    *)
(* accesses, the cookies of the handshake (CookieJar), for any number of    *)
(* bins and any word the clock is kept in, and the session of a client and  *)
(* a server (Session), for any number of slots, keys and hellos.  Then the  *)
(* key agreement (KeyAgreement), for any curve and any number of workers,   *)
(* the log (LogThread), for any writers and any length of its lists, and    *)
(* the file reader (FileReader), for any file, buffers and requests.        *)
(***************************************************************************)
EXTENDS RWLock, CookieJar, BitMath, Session, KeyAgreement, LogThread,
        FileReader, SequenceTheorems, FiniteSetTheorems, TLAPS


-----------------------------------------------------------------------------
(* The reader-writer lock *)

(* Readers that are counted, and the stages of a writer: with the mutex, with
   the flag up, and with the event down. *)
Counted == {t \in Lockers : rwPc[t] \in {"check", "back", "reading"}}
ReaderStages == {"idle", "retry", "wait", "enter", "check", "back", "reading"}
WriterStages == {"flag", "reset", "spin", "writing", "wake", "leave"}

RWTypeOK == /\ rwPc \in [Lockers -> ReaderStages \cup WriterStages]
            /\ wrCount \in {0, 1} /\ rdEvent \in BOOLEAN

(* The mutex makes the writer's stages a sequence; the count is exact; and a
   writer that got past its spin keeps every later reader out, because the flag
   was up before the count was read. *)
CountExact == rdCount = Cardinality(Counted)
StagesExclude ==
  /\ RWTypeOK
  /\ wrOwner = {t \in Lockers : rwPc[t] \in WriterStages}
  /\ \A t, u \in wrOwner : t = u
  /\ wrCount = 0 <=> \A t \in Lockers : rwPc[t] \notin {"reset", "spin", "writing"}
  /\ rdEvent <=> \A t \in Lockers : rwPc[t] \notin {"spin", "writing", "wake"}
  /\ \A t, u \in Lockers : rwPc[t] = "writing" => rwPc[u] # "reading"
RWInv == CountExact /\ StagesExclude

LEMMA CountedFinite == IsFiniteSet(Counted)
  BY LockersAssumption, FS_Subset DEF Counted

(* A thread that joins or leaves the counted ones moves the count by one. *)
LEMMA CountMoves ==
  ASSUME RWTypeOK, NEW t \in Lockers, \A u \in Lockers \ {t} : rwPc'[u] = rwPc[u]
  PROVE  Cardinality(Counted') =
           Cardinality(Counted) + (IF rwPc'[t] \in {"check", "back", "reading"} THEN 1 ELSE 0)
                                - (IF rwPc[t] \in {"check", "back", "reading"} THEN 1 ELSE 0)
<1>1. IsFiniteSet(Counted) /\ Cardinality(Counted) \in Nat
  BY CountedFinite, FS_CardinalityType
<1>2. t \in Counted <=> rwPc[t] \in {"check", "back", "reading"}
  BY DEF Counted
<1>3. CASE rwPc'[t] \in {"check", "back", "reading"}
  <2>1. Counted' = Counted \cup {t}
    BY <1>3 DEF Counted
  <2>2. Cardinality(Counted \cup {t}) = IF t \in Counted THEN Cardinality(Counted)
                                        ELSE Cardinality(Counted) + 1
    BY <1>1, FS_AddElement
  <2> QED BY <1>1, <1>2, <1>3, <2>1, <2>2
<1>4. CASE rwPc'[t] \notin {"check", "back", "reading"}
  <2>1. Counted' = Counted \ {t}
    BY <1>4 DEF Counted
  <2>2. Cardinality(Counted \ {t}) = IF t \in Counted THEN Cardinality(Counted) - 1
                                     ELSE Cardinality(Counted)
    BY <1>1, FS_RemoveElement
  <2> QED BY <1>1, <1>2, <1>4, <2>1, <2>2
<1> QED BY <1>3, <1>4

LEMMA RWInitial == RWInit => RWInv
<1> SUFFICES ASSUME RWInit PROVE RWInv
  OBVIOUS
<1>1. Counted = {}
  BY DEF RWInit, Counted
<1> QED BY <1>1, FS_EmptySet DEF RWInit, RWInv, CountExact, StagesExclude, RWTypeOK, ReaderStages, WriterStages

LEMMA CountInductive == RWInv /\ [RWNext]_rwVars => CountExact'
<1> SUFFICES ASSUME RWInv, [RWNext]_rwVars PROVE CountExact'
  OBVIOUS
<1>a. Cardinality(Counted) \in Nat
  BY CountedFinite, FS_CardinalityType
<1>1. CASE UNCHANGED rwVars
  BY <1>1 DEF RWInv, CountExact, Counted, rwVars
<1>2. ASSUME NEW t \in Lockers, RWStep(t) PROVE CountExact'
  <2>a. RWTypeOK
    BY DEF RWInv, StagesExclude
  <2>b. /\ \A u \in Lockers \ {t} : rwPc'[u] = rwPc[u]
        /\ t \in DOMAIN rwPc
    BY <1>2, <2>a DEF RWTypeOK, RWStep, RWProgress, ReadStart, ReadWait, ReadEnter, ReadCheck, ReadBack,
         ReadUnlock, WriteEnter, WriteFlag, WriteReset, WriteSpin, WriteUnlock, WriteWake, WriteLeave, At
  <2>c. Cardinality(Counted') =
           Cardinality(Counted) + (IF rwPc'[t] \in {"check", "back", "reading"} THEN 1 ELSE 0)
                                - (IF rwPc[t] \in {"check", "back", "reading"} THEN 1 ELSE 0)
    BY <2>a, <2>b, CountMoves
  <2> USE <1>a, <2>b, <2>c DEF RWInv, CountExact, At
  <2>1. CASE ReadStart(t)
    BY <2>1 DEF ReadStart
  <2>2. CASE ReadWait(t)
    BY <2>2 DEF ReadWait
  <2>3. CASE ReadEnter(t)
    BY <2>3 DEF ReadEnter
  <2>4. CASE ReadCheck(t)
    BY <2>4 DEF ReadCheck
  <2>5. CASE ReadBack(t)
    BY <2>5 DEF ReadBack
  <2>6. CASE ReadUnlock(t)
    BY <2>6 DEF ReadUnlock
  <2>7. CASE WriteEnter(t)
    BY <2>7 DEF WriteEnter
  <2>8. CASE WriteFlag(t)
    BY <2>8 DEF WriteFlag
  <2>9. CASE WriteReset(t)
    BY <2>9 DEF WriteReset
  <2>10. CASE WriteSpin(t)
    BY <2>10 DEF WriteSpin
  <2>11. CASE WriteUnlock(t)
    BY <2>11 DEF WriteUnlock
  <2>12. CASE WriteWake(t)
    BY <2>12 DEF WriteWake
  <2>13. CASE WriteLeave(t)
    BY <2>13 DEF WriteLeave
  <2> QED
    BY <1>2, <2>1, <2>2, <2>3, <2>4, <2>5, <2>6, <2>7, <2>8, <2>9, <2>10, <2>11, <2>12, <2>13
       DEF RWStep, RWProgress
<1> QED BY <1>1, <1>2 DEF RWNext

LEMMA StagesInductive == RWInv /\ [RWNext]_rwVars => StagesExclude'
<1> SUFFICES ASSUME RWInv, [RWNext]_rwVars PROVE StagesExclude'
  OBVIOUS
<1> USE DEF RWInv, StagesExclude, RWTypeOK
<1>1. CASE UNCHANGED rwVars
  BY <1>1 DEF rwVars
<1>2. ASSUME NEW t \in Lockers, RWStep(t) PROVE StagesExclude'
  <2> USE DEF ReaderStages, WriterStages, At
  <2>1. CASE ReadStart(t)
    BY <2>1 DEF ReadStart
  <2>2. CASE ReadWait(t)
    BY <2>2 DEF ReadWait
  <2>3. CASE ReadEnter(t)
    BY <2>3 DEF ReadEnter
  <2>4. CASE ReadCheck(t)
    BY <2>4 DEF ReadCheck
  <2>5. CASE ReadBack(t)
    BY <2>5 DEF ReadBack
  <2>6. CASE ReadUnlock(t)
    BY <2>6 DEF ReadUnlock
  <2>7. CASE WriteEnter(t)
    BY <2>7 DEF WriteEnter
  <2>8. CASE WriteFlag(t)
    BY <2>8 DEF WriteFlag
  <2>9. CASE WriteReset(t)
    BY <2>9 DEF WriteReset
  <2>10. CASE WriteSpin(t)
    <3>1. Counted = {}
      BY <2>10, CountedFinite, FS_EmptySet DEF WriteSpin, CountExact
    <3>2. \A u \in Lockers : rwPc[u] # "reading"
      BY <3>1 DEF Counted
    <3> QED BY <2>10, <3>2 DEF WriteSpin
  <2>11. CASE WriteUnlock(t)
    BY <2>11 DEF WriteUnlock
  <2>12. CASE WriteWake(t)
    BY <2>12 DEF WriteWake
  <2>13. CASE WriteLeave(t)
    BY <2>13 DEF WriteLeave
  <2> QED
    BY <1>2, <2>1, <2>2, <2>3, <2>4, <2>5, <2>6, <2>7, <2>8, <2>9, <2>10, <2>11, <2>12, <2>13
       DEF RWStep, RWProgress
<1> QED BY <1>1, <1>2 DEF RWNext

LEMMA RWImplies == RWInv => LockSafe
  BY DEF RWInv, StagesExclude, RWTypeOK, WriterStages, LockSafe, WriterAlone, SleepersWoken

(* RWLock.cpp: however the threads' accesses to the counters, the event and the
   mutex interleave, a writer is alone with the lock, and once no writer is left
   the event is set, so that no reader sleeps on. *)
THEOREM LockCorrect == RWSpec => []LockSafe
<1>1. RWInit => RWInv
  BY RWInitial
<1>2. RWInv /\ [RWNext]_rwVars => RWInv'
  BY CountInductive, StagesInductive DEF RWInv
<1>3. RWInv => LockSafe
  BY RWImplies
<1> QED BY <1>1, <1>2, <1>3, PTL DEF RWSpec

-----------------------------------------------------------------------------
(* Cookies *)

(* What the code knows of a cookie, and what the clock says of it. *)
CookieKnown(c) ==
  /\ c.made \in 0 .. jarTime
  /\ c.epoch = (FirstEpoch + c.made) % Epochs /\ c.bin = Bin(c.epoch)
JarInv == jarTime \in 0 .. LastTime /\ \A c \in cookies : CookieKnown(c)

LEMMA JarInitial == JarInit => JarInv
  BY CookieAssumption DEF JarInit, JarInv

LEMMA JarInductive == JarInv /\ [JarNext]_jarVars => JarInv'
<1> SUFFICES ASSUME JarInv, [JarNext]_jarVars PROVE JarInv'
  OBVIOUS
<1> USE CookieAssumption DEF JarInv, CookieKnown
<1>1. CASE CookieTime
  BY <1>1 DEF CookieTime
<1>2. ASSUME NEW a \in CookieAddrs, Generate(a) PROVE JarInv'
  BY <1>2 DEF Generate, GetEpoch, Bin
<1>3. CASE UNCHANGED jarVars
  BY <1>3 DEF jarVars
<1> QED BY <1>1, <1>2, <1>3 DEF JarNext

(* A number that is negative, by at most a word, is taken modulo the word. *)
LEMMA NegativeRest ==
  ASSUME NEW w \in Nat \ {0}, NEW z \in (-w) .. -1
  PROVE  z % w = z + w
<1> DEFINE q == z \div w
           r == z % w
<1>1. q \in Int /\ r \in 0 .. w - 1 /\ z = w * q + r
  BY DivMod
<1> HIDE DEF q, r
<1>2. w * (q + 1) = w * q + w
  BY <1>1, SMT
<1>3. q + 1 = 0
  BY <1>1, <1>2, SmallMultiple
<1>4. w * (q + 1) = 0
  BY <1>3
<1> QED BY <1>1, <1>2, <1>4 DEF r

(* As long as the clock has not come round, an epoch that is not later than the
   present one is as many epochs old as bins have passed since. *)
LEMMA AgeKept ==
  ASSUME NEW made \in 0 .. LastTime, NEW now \in made .. LastTime,
         (FirstEpoch + made) % Epochs <= (FirstEpoch + now) % Epochs
  PROVE  ((FirstEpoch + now) % Epochs) - ((FirstEpoch + made) % Epochs) = now - made
<1> DEFINE x == FirstEpoch + made
           X == FirstEpoch + now
           q == x \div Epochs
           Q == X \div Epochs
           e == x % Epochs
           E == X % Epochs
<1>1. x \in Int /\ X \in Int /\ Epochs \in Nat \ {0} /\ LastTime \in 0 .. Epochs - 1
  BY CookieAssumption
<1>a. X - x = now - made /\ now \in Int /\ made \in Int
  BY CookieAssumption
<1> HIDE DEF x, X
<1>2. /\ q \in Int /\ e \in 0 .. Epochs - 1 /\ x = Epochs * q + e
      /\ Q \in Int /\ E \in 0 .. Epochs - 1 /\ X = Epochs * Q + E
  BY <1>1, DivMod
<1>b. e <= E
  BY DEF x, X
<1> HIDE DEF q, Q, e, E
<1>3. Epochs * (Q - q) = (X - x) - (E - e)
  <2>1. Epochs * (Q - q) = Epochs * Q - Epochs * q
    BY <1>1, <1>2, SMT
  <2> QED BY <1>1, <1>2, <2>1
<1>4. Q - q = 0
  BY <1>1, <1>2, <1>3, <1>a, <1>b, SmallMultiple
<1>5. Epochs * (Q - q) = 0
  BY <1>1, <1>4
<1>6. E - e = X - x
  BY <1>1, <1>2, <1>3, <1>5
<1> QED BY <1>6, <1>a DEF e, E, x, X

(* The epoch that is reconstructed for a bin is the cookie's exactly if that is
   one of the last BinCount epochs, the present one included. *)
LEMMA Reconstructed ==
  ASSUME NEW e \in 0 .. Epochs - 1, NEW E \in 0 .. Epochs - 1, GetEpoch = E
  PROVE  ReconstructEpoch(Bin(e)) = e <=> e <= E /\ E - e < BinCount
<1> DEFINE q == e \div BinCount
           Q == E \div BinCount
           r == e % BinCount
           R == E % BinCount
<1>1. /\ q \in Int /\ r \in 0 .. BinCount - 1 /\ e = BinCount * q + r
      /\ Q \in Int /\ R \in 0 .. BinCount - 1 /\ E = BinCount * Q + R
  BY CookieAssumption, DivMod
<1>a. Bin(e) = r /\ Bin(E) = R
  BY DEF Bin
<1> HIDE DEF q, Q, r, R
<1>2. ReconstructEpoch(Bin(e)) = IF r > R THEN ((E - R + r) - BinCount) % EpochWord ELSE E - R + r
  <2>1. Bin(GetEpoch) = R
    BY <1>a
  <2>2. ReconstructEpoch(r) = IF r > R THEN ((GetEpoch - R + r) - BinCount) % EpochWord ELSE GetEpoch - R + r
    BY <2>1 DEF ReconstructEpoch
  <2> QED BY <1>a, <2>2
<1>3. BinCount * (Q - q) = (E - e) - (R - r)
  <2>1. BinCount * (Q - q) = BinCount * Q - BinCount * q
    BY CookieAssumption, <1>1, SMT
  <2> QED BY <1>1, <2>1, CookieAssumption
<1>5. CASE r <= R
  <2>1. ReconstructEpoch(Bin(e)) = e <=> BinCount * (Q - q) = 0
    BY <1>1, <1>2, <1>3, <1>5, CookieAssumption
  <2>2. ASSUME e <= E, E - e < BinCount PROVE BinCount * (Q - q) = 0
    <3>1. Q - q = 0
      BY <1>1, <1>3, <1>5, <2>2, CookieAssumption, SmallMultiple
    <3> QED BY <3>1, CookieAssumption
  <2>3. ASSUME BinCount * (Q - q) = 0 PROVE e <= E /\ E - e < BinCount
    BY <1>1, <1>3, <1>5, <2>3, CookieAssumption
  <2> QED BY <2>1, <2>2, <2>3
<1>6. CASE r > R /\ Q >= 1
  <2>1. (E - R + r) - BinCount \in 0 .. EpochWord - 1
    <3>1. BinCount * Q >= BinCount * 1
      BY <1>1, <1>6, CookieAssumption, SMT
    <3>2. BinCount * Q >= BinCount
      BY <3>1, CookieAssumption
    <3> QED BY <1>1, <1>6, <3>2, CookieAssumption
  <2>2. ((E - R + r) - BinCount) % EpochWord = (E - R + r) - BinCount
    BY <2>1, CookieAssumption, SMT
  <2>3. ReconstructEpoch(Bin(e)) = e <=> BinCount * (Q - q) = BinCount
    BY <1>1, <1>2, <1>3, <1>6, <2>2, CookieAssumption
  <2>4. BinCount * (Q - q - 1) = BinCount * (Q - q) - BinCount
    BY <1>1, CookieAssumption, SMT
  <2>5. ASSUME e <= E, E - e < BinCount PROVE BinCount * (Q - q) = BinCount
    <3>1. Q - q - 1 = 0
      BY <1>1, <1>3, <1>6, <2>4, <2>5, CookieAssumption, SmallMultiple
    <3>2. BinCount * (Q - q - 1) = 0
      BY <3>1, CookieAssumption
    <3> QED BY <1>1, <2>4, <3>2, CookieAssumption
  <2>6. ASSUME BinCount * (Q - q) = BinCount PROVE e <= E /\ E - e < BinCount
    BY <1>1, <1>3, <1>6, <2>6, CookieAssumption
  <2> QED BY <2>3, <2>5, <2>6
<1>7. CASE r > R /\ Q <= 0
  <2>1. Q = 0 /\ E = R
    <3>1. Q = 0
      <4>1. BinCount * Q = E - R
        BY <1>1, CookieAssumption
      <4>2. CASE Q <= -1
        <5>1. BinCount * Q <= BinCount * (-1)
          BY <1>1, <4>2, CookieAssumption, SMT
        <5> QED BY <1>1, <4>1, <5>1, CookieAssumption
      <4> QED BY <1>1, <1>7, <4>2
    <3>2. BinCount * Q = 0
      BY <3>1, CookieAssumption
    <3> QED BY <1>1, <3>1, <3>2, CookieAssumption
  <2>2. ((E - R + r) - BinCount) % EpochWord = r - BinCount + EpochWord
    <3>1. r - BinCount \in (-EpochWord) .. -1
      BY <1>1, CookieAssumption
    <3>2. (E - R + r) - BinCount = r - BinCount
      BY <1>1, <2>1, CookieAssumption
    <3>3. \A z \in (-EpochWord) .. -1 : z % EpochWord = z + EpochWord
      BY CookieAssumption, NegativeRest
    <3> QED BY <3>1, <3>2, <3>3
  <2>3. ReconstructEpoch(Bin(e)) >= Epochs
    BY <1>1, <1>2, <1>7, <2>2, CookieAssumption
  <2>4. q >= 0
    <3>1. CASE q <= -1
      <4>1. BinCount * q <= BinCount * (-1)
        BY <1>1, <3>1, CookieAssumption, SMT
      <4> QED BY <1>1, <4>1, CookieAssumption
    <3> QED BY <1>1, <3>1
  <2>5. BinCount * q >= 0
    BY <1>1, <2>4, CookieAssumption, SMT
  <2>6. e > E
    BY <1>1, <1>7, <2>1, <2>5, CookieAssumption
  <2> QED BY <1>1, <2>3, <2>6, CookieAssumption
<1> QED BY <1>1, <1>5, <1>6, <1>7, CookieAssumption

LEMMA JarImplies == JarInv => CookiesExpire
<1> SUFFICES ASSUME JarInv, NEW c \in cookies, NEW a \in CookieAddrs
             PROVE LET young == c.addr = a /\ jarTime - c.made < BinCount
                   IN  /\ Verify(a, c) => young
                       /\ young /\ c.epoch <= GetEpoch => Verify(a, c)
  BY DEF CookiesExpire
<1>1. /\ jarTime \in 0 .. LastTime /\ c.made \in 0 .. jarTime /\ c.bin = Bin(c.epoch)
      /\ c.epoch = (FirstEpoch + c.made) % Epochs /\ GetEpoch = (FirstEpoch + jarTime) % Epochs
  BY DEF JarInv, CookieKnown, GetEpoch
<1> DEFINE made == c.made
           e == (FirstEpoch + made) % Epochs
           E == (FirstEpoch + jarTime) % Epochs
<1>2. E \in 0 .. Epochs - 1 /\ e \in 0 .. Epochs - 1
  <2>1. \A x \in Int : x % Epochs \in 0 .. Epochs - 1
    BY DivMod, CookieAssumption
  <2> QED BY <1>1, <2>1, CookieAssumption
<1>a. /\ made \in 0 .. LastTime /\ jarTime \in made .. LastTime
      /\ c.epoch = e /\ GetEpoch = E
  BY <1>1, CookieAssumption
<1> HIDE DEF made
<1>3. Verify(a, c) <=> c.addr = a /\ c.epoch <= GetEpoch /\ GetEpoch - c.epoch < BinCount
  BY <1>1, <1>2, <1>a, Reconstructed DEF Verify
<1>4. c.epoch <= GetEpoch => GetEpoch - c.epoch = jarTime - c.made
  BY <1>a, AgeKept DEF made
<1>5. Verify(a, c) <=> c.addr = a /\ c.epoch <= GetEpoch /\ jarTime - c.made < BinCount
  BY <1>3, <1>4
<1> QED BY <1>5

(* CookieJar.cpp: a cookie is accepted for the address it was made for and while
   fewer than BIN_COUNT bins have passed, and at no other time. *)
THEOREM CookiesCorrect == JarSpec => []CookiesExpire
<1>1. JarInit => JarInv
  BY JarInitial
<1>2. JarInv /\ [JarNext]_jarVars => JarInv'
  BY JarInductive
<1>3. JarInv => CookiesExpire
  BY JarImplies
<1> QED BY <1>1, <1>2, <1>3, PTL DEF JarSpec


-----------------------------------------------------------------------------
(* The session of a client and a server *)

ClientType ==
  [worker : BOOLEAN, connected : BOOLEAN, key : Nat, id : Slots,
   hellos : 0 .. MaxHello + 1, disco : BOOLEAN, countdown : 0 .. ShutdownTicks,
   quiet : 0 .. MaxQuiet, destroyed : BOOLEAN, freed : BOOLEAN,
   connects : Nat, reasons : Nat, wrongOrder : BOOLEAN]

(* A client that is keyed has its worker, and one that has its worker has said
   hello; the callbacks are counted by the flags that guard them. *)
ClientStages ==
  /\ client \in ClientType
  /\ client.connected => client.worker
  /\ client.worker => client.hellos > 0
  /\ client.connects = IF client.connected THEN 1 ELSE 0
  /\ client.reasons = IF client.disco THEN 1 ELSE 0
  /\ ~client.wrongOrder
  /\ ~client.destroyed => client.countdown > 0

ConnType == [key : Nat, disco : BOOLEAN, countdown : Nat, quiet : Nat]

ConnsUsed ==
  /\ conns \in [Slots -> ConnType] /\ keys \in 0 .. MaxKeys
  /\ \A s \in Slots : conns[s] # Gone =>
       /\ conns[s].key \in 1 .. keys /\ conns[s].countdown \in 1 .. ShutdownTicks
       /\ conns[s].quiet \in 0 .. MaxQuiet

(* What an answer gives the client to keep, and where a datagram is routed. *)
Addressed ==
  \A m \in net : /\ m.type = "answer" => m.key \in Nat /\ m.id \in Slots
                 /\ m.type = "up" => m.id \in Slots

SessionInv == ClientStages /\ ConnsUsed /\ Addressed

(* A field of the client that is set to a value of its type. *)
LEMMA ClientFields ==
  ASSUME NEW c \in ClientType
  PROVE  /\ [c EXCEPT !.disco = TRUE] \in ClientType
         /\ [c EXCEPT !.connected = TRUE] \in ClientType
         /\ \A n \in BOOLEAN : [c EXCEPT !.destroyed = n] \in ClientType
         /\ \A n \in Nat : [c EXCEPT !.key = n] \in ClientType
         /\ \A n \in Nat : [c EXCEPT !.connects = n] \in ClientType
         /\ \A n \in Nat : [c EXCEPT !.reasons = n] \in ClientType
         /\ \A s \in Slots : [c EXCEPT !.id = s] \in ClientType
         /\ \A n \in 0 .. MaxHello + 1 : [c EXCEPT !.hellos = n] \in ClientType
         /\ \A n \in 0 .. ShutdownTicks : [c EXCEPT !.countdown = n] \in ClientType
         /\ \A n \in 0 .. MaxQuiet : [c EXCEPT !.quiet = n] \in ClientType
<1>1. [c EXCEPT !.disco = TRUE] \in ClientType
  BY DEF ClientType
<1>2. [c EXCEPT !.connected = TRUE] \in ClientType
  BY DEF ClientType
<1>3. \A n \in BOOLEAN : [c EXCEPT !.destroyed = n] \in ClientType
  BY DEF ClientType
<1>4. \A n \in Nat : [c EXCEPT !.key = n] \in ClientType
  BY DEF ClientType
<1>5. \A n \in Nat : [c EXCEPT !.connects = n] \in ClientType
  BY DEF ClientType
<1>6. \A n \in Nat : [c EXCEPT !.reasons = n] \in ClientType
  BY DEF ClientType
<1>7. \A s \in Slots : [c EXCEPT !.id = s] \in ClientType
  BY DEF ClientType
<1>8. \A n \in 0 .. MaxHello + 1 : [c EXCEPT !.hellos = n] \in ClientType
  BY DEF ClientType
<1>9. \A n \in 0 .. ShutdownTicks : [c EXCEPT !.countdown = n] \in ClientType
  BY DEF ClientType
<1>10. \A n \in 0 .. MaxQuiet : [c EXCEPT !.quiet = n] \in ClientType
  BY DEF ClientType
<1> QED BY <1>1, <1>2, <1>3, <1>4, <1>5, <1>6, <1>7, <1>8, <1>9, <1>10

(* What the handlers make of the client keeps its type. *)
LEMMA ClientFails ==
  ASSUME ClientStages, ~client.connected
  PROVE  /\ Failed(client) \in ClientType
         /\ ~Failed(client).wrongOrder /\ ~Failed(client).connected
         /\ Failed(client).worker = client.worker /\ Failed(client).hellos = client.hellos
         /\ Failed(client).connects = client.connects /\ Failed(client).reasons = client.reasons
         /\ Failed(client).disco = client.disco /\ Failed(client).destroyed
<1>1. (client.wrongOrder \/ client.connects > 0) = FALSE
  BY DEF ClientStages
<1>2. Failed(client) = [client EXCEPT !.destroyed = TRUE, !.wrongOrder = FALSE]
  BY <1>1 DEF Failed
<1> QED BY <1>2 DEF ClientStages, ClientType

LEMMA ClientDisconnects ==
  ASSUME ClientStages, ~client.disco, client' = Disconnected(client)
  PROVE  ClientStages'
<1>0. 0 \in 0 .. MaxQuiet /\ client.reasons = 0 /\ client \in ClientType
  BY SessionAssumption DEF ClientStages, SessionAssumption
<1>a. client' = [client EXCEPT !.disco = TRUE, !.reasons = 1, !.quiet = 0]
  BY <1>0 DEF Disconnected
<1> DEFINE c1 == [client EXCEPT !.disco = TRUE]
           c2 == [c1 EXCEPT !.reasons = 1]
           c3 == [c2 EXCEPT !.quiet = 0]
<1> HIDE DEF c1, c2, c3
<1>c. c1 \in ClientType
  BY <1>0, ClientFields DEF c1
<1>d. c2 \in ClientType
  BY <1>c, ClientFields DEF c2
<1>e. c3 \in ClientType
  BY <1>0, <1>d, ClientFields DEF c3
<1>1. client' \in ClientType
  BY <1>a, <1>e, Zenon DEF c1, c2, c3
<1>b. client'.reasons = 1 /\ client'.disco
  BY <1>0, <1>a DEF ClientType
<1>2. /\ client'.worker = client.worker /\ client'.connected = client.connected
      /\ client'.connects = client.connects /\ client'.wrongOrder = client.wrongOrder
      /\ client'.hellos = client.hellos /\ client'.destroyed = client.destroyed
      /\ client'.countdown = client.countdown
  BY DEF ClientStages, ClientType, Disconnected
<1> QED BY <1>1, <1>b, <1>2 DEF ClientStages

LEMMA FailKeeps ==
  ASSUME ClientStages, ~client.connected, client' = Failed(client)
  PROVE  ClientStages'
  BY ClientFails DEF ClientStages

LEMMA DiscoUpAddressed ==
  ASSUME ClientStages, Addressed, net' = net \cup DiscoUp(client)
  PROVE  Addressed'
  BY DEF ClientStages, ClientType, Addressed, DiscoUp, Up

LEMMA ConnKept ==
  ASSUME ConnsUsed, NEW s \in Slots, NEW x \in ConnType, x # Gone,
         x.key \in 1 .. keys, x.countdown \in 1 .. ShutdownTicks, x.quiet \in 0 .. MaxQuiet,
         conns' = [conns EXCEPT ![s] = x], keys' = keys
  PROVE  ConnsUsed'
  BY DEF ConnsUsed

LEMMA ClientSteps ==
  ASSUME SessionInv, ClientTick \/ UserDisconnect \/ OnClosed \/ ClientFreed
  PROVE  SessionInv'
<1> USE SessionAssumption DEF SessionAssumption
<1>1. ConnsUsed'
  BY DEF SessionInv, ConnsUsed, ClientTick, ClientStart, AssignWorker, TickHello,
         TickConnectFails, TickConnected, TickDisco, UserDisconnect, OnClosed, ClientFreed
<1>2. CASE ClientStart
  <2>1. CASE client' = [client EXCEPT !.hellos = 1] /\ net' = net \cup {Hello}
    BY <1>1, <2>1, <1>2 DEF SessionInv, ClientStages, ClientType, Addressed, Hello, ClientStart
  <2>2. CASE client' = Failed([client EXCEPT !.hellos = 1]) /\ net' = net
    <3> DEFINE c1 == [client EXCEPT !.hellos = 1]
               c2 == [c1 EXCEPT !.destroyed = TRUE]
    <3>1. c1 \in ClientType /\ ~client.connected
      BY <1>2, ClientFields DEF SessionInv, ClientStages, ClientStart, ClientType
    <3>2. c2 \in ClientType
      BY <3>1, ClientFields
    <3>3. (c1.wrongOrder \/ c1.connects > 0) = c2.wrongOrder
      BY <3>1 DEF SessionInv, ClientStages, ClientType
    <3>4. client' = c2
      BY <2>2, <3>2, <3>3 DEF Failed, ClientType
    <3>5. ClientStages'
      BY <3>1, <3>2, <3>4 DEF SessionInv, ClientStages, ClientType
    <3> QED BY <1>1, <2>2, <3>5 DEF SessionInv, Addressed
  <2> QED BY <1>2, <2>1, <2>2 DEF ClientStart
<1>3. CASE AssignWorker
  <2>1. CASE client' = [client EXCEPT !.worker = TRUE]
    BY <1>1, <2>1, <1>3 DEF SessionInv, ClientStages, ClientType, Addressed, AssignWorker
  <2>2. CASE client' = Failed(client)
    BY <1>1, <2>2, <1>3, FailKeeps DEF SessionInv, Addressed, AssignWorker, ClientStages
  <2> QED BY <1>3, <2>1, <2>2 DEF AssignWorker
<1>4. CASE TickHello
  BY <1>1, <1>4 DEF SessionInv, ClientStages, ClientType, Addressed, Hello, TickHello
<1>5. CASE TickConnectFails
  BY <1>1, <1>5, FailKeeps DEF SessionInv, Addressed, TickConnectFails
<1>6. CASE TickConnected
  <2>1. CASE client.quiet + 1 >= MaxQuiet
    BY <1>1, <1>6, <2>1, ClientDisconnects, DiscoUpAddressed DEF SessionInv, TickConnected
  <2>2. CASE ~(client.quiet + 1 >= MaxQuiet)
    BY <1>1, <1>6, <2>2 DEF SessionInv, ClientStages, ClientType, Addressed, Up, TickConnected
  <2> QED BY <2>1, <2>2
<1>7. CASE TickDisco
  <2>1. ClientStages'
    <3> DEFINE c1 == [client EXCEPT !.countdown = client.countdown - 1]
               c2 == [c1 EXCEPT !.destroyed = (client.countdown = 1)]
    <3> HIDE DEF c1, c2
    <3>1. /\ client \in ClientType /\ ~client.destroyed
          /\ client.countdown - 1 \in 0 .. ShutdownTicks
          /\ (client.countdown = 1) \in BOOLEAN
          /\ client.countdown # 1 => client.countdown - 1 > 0
      BY <1>7 DEF SessionInv, ClientStages, ClientType, TickDisco, Ticks
    <3>2. c1 \in ClientType
      BY <3>1, ClientFields DEF c1
    <3>3. c2 \in ClientType
      BY <3>1, <3>2, ClientFields DEF c2
    <3>4. client' = c2
      BY <1>7 DEF TickDisco, c1, c2
    <3>5. /\ c2.worker = client.worker /\ c2.connected = client.connected
          /\ c2.connects = client.connects /\ c2.wrongOrder = client.wrongOrder
          /\ c2.hellos = client.hellos /\ c2.disco = client.disco
          /\ c2.reasons = client.reasons /\ c2.countdown = client.countdown - 1
      BY <3>1 DEF c1, c2, ClientType
    <3>6. c2.destroyed = (client.countdown = 1)
      BY <3>1, <3>2 DEF c2, ClientType
    <3> QED BY <3>1, <3>3, <3>4, <3>5, <3>6 DEF SessionInv, ClientStages
  <2>2. Addressed'
    BY <1>7, DiscoUpAddressed DEF SessionInv, Addressed, TickDisco
  <2> QED BY <1>1, <2>1, <2>2 DEF SessionInv
<1>8. CASE UserDisconnect
  BY <1>1, <1>8, ClientDisconnects, DiscoUpAddressed DEF SessionInv, UserDisconnect
<1>9. CASE OnClosed
  <2>1. CASE client.connected
    BY <1>1, <1>9, <2>1, ClientDisconnects, DiscoUpAddressed DEF SessionInv, OnClosed
  <2>2. CASE ~client.connected
    BY <1>1, <1>9, <2>2, FailKeeps DEF SessionInv, Addressed, OnClosed
  <2> QED BY <2>1, <2>2
<1>10. CASE ClientFreed
  BY <1>1, <1>10 DEF SessionInv, ClientStages, ClientType, Addressed, ClientFreed
<1> QED
  BY <1>2, <1>3, <1>4, <1>5, <1>6, <1>7, <1>8, <1>9, <1>10 DEF ClientTick

LEMMA ClientReceives ==
  ASSUME SessionInv, NEW m \in net, OnCookie(m) \/ OnAnswer(m) \/ OnError(m) \/ OnDatagram(m)
  PROVE  SessionInv'
<1> USE SessionAssumption DEF SessionAssumption
<1>1. ConnsUsed'
  BY DEF SessionInv, ConnsUsed, OnCookie, OnAnswer, OnError, OnDatagram
<1>2. CASE OnCookie(m)
  <2>1. CASE client' = client /\ net' = net \cup {Challenge}
    BY <1>1, <2>1 DEF SessionInv, ClientStages, Addressed, Challenge
  <2>2. CASE client' = Failed(client) /\ net' = net
    BY <1>1, <1>2, <2>2, FailKeeps DEF SessionInv, Addressed, OnCookie
  <2> QED BY <1>2, <2>1, <2>2 DEF OnCookie
<1>3. CASE OnAnswer(m)
  <2>1. m.key \in Nat /\ m.id \in Slots
    BY <1>3 DEF SessionInv, Addressed, OnAnswer
  <2>2. ClientStages'
    <3> DEFINE c1 == [client EXCEPT !.connected = TRUE]
               c2 == [c1 EXCEPT !.key = m.key]
               c3 == [c2 EXCEPT !.id = m.id]
               c4 == [c3 EXCEPT !.connects = client.connects + 1]
               c5 == [c4 EXCEPT !.quiet = 0]
    <3> HIDE DEF c1, c2, c3, c4, c5
    <3>1. /\ client \in ClientType /\ client.worker /\ ~client.connected
          /\ client.connects + 1 \in Nat /\ 0 \in 0 .. MaxQuiet
      BY <1>3 DEF SessionInv, ClientStages, OnAnswer, Receives
    <3>2. c1 \in ClientType
      BY <3>1, ClientFields DEF c1
    <3>3. c2 \in ClientType
      BY <2>1, <3>2, ClientFields DEF c2
    <3>4. c3 \in ClientType
      BY <2>1, <3>3, ClientFields DEF c3
    <3>5. c4 \in ClientType
      BY <3>1, <3>4, ClientFields DEF c4
    <3>6. c5 \in ClientType
      BY <3>1, <3>5, ClientFields DEF c5
    <3>7. client' = c5
      BY <1>3 DEF OnAnswer, c1, c2, c3, c4, c5
    <3>8. /\ c5.worker = client.worker /\ c5.connected
          /\ c5.connects = client.connects + 1 /\ c5.wrongOrder = client.wrongOrder
          /\ c5.hellos = client.hellos /\ c5.disco = client.disco
          /\ c5.reasons = client.reasons /\ c5.countdown = client.countdown
          /\ c5.destroyed = client.destroyed
      BY <3>1 DEF c1, c2, c3, c4, c5, ClientType
    <3> QED BY <3>1, <3>6, <3>7, <3>8 DEF SessionInv, ClientStages
  <2>3. Addressed'
    BY <1>3, <2>1 DEF SessionInv, Addressed, OnAnswer, Up
  <2> QED BY <1>1, <2>2, <2>3 DEF SessionInv
<1>4. CASE OnError(m)
  BY <1>1, <1>4, FailKeeps DEF SessionInv, Addressed, OnError
<1>5. CASE OnDatagram(m)
  <2>1. CASE m.key = client.key /\ ~client.disco /\ m.op = "disco"
    <3>1. ClientStages'
      BY <1>5, <2>1, ClientDisconnects DEF SessionInv, OnDatagram
    <3>2. Addressed'
      BY <1>5, <2>1 DEF SessionInv, OnDatagram, ClientStages, ClientType, Addressed, DiscoUp, Up
    <3> QED BY <1>1, <3>1, <3>2 DEF SessionInv
  <2>2. CASE ~(m.key = client.key /\ ~client.disco /\ m.op = "disco")
    BY <1>1, <1>5, <2>2 DEF SessionInv, ClientStages, ClientType, Addressed, OnDatagram
  <2> QED BY <2>1, <2>2
<1> QED BY <1>2, <1>3, <1>4, <1>5

LEMMA ServerReceives ==
  ASSUME SessionInv, NEW m \in net, OnHello(m) \/ OnChallenge(m) \/ ConnDatagram(m) \/ Lose(m)
  PROVE  SessionInv'
<1> USE SessionAssumption DEF SessionAssumption
<1>1. ClientStages'
  BY DEF SessionInv, ClientStages, OnHello, OnChallenge, ConnDatagram, Lose
<1>2. CASE OnHello(m)
  BY <1>1, <1>2 DEF SessionInv, ConnsUsed, Addressed, CookieMsg, OnHello
<1>3. CASE OnChallenge(m)
  <2>1. CASE net' = net \cup {ErrorMsg} /\ conns' = conns /\ keys' = keys
    BY <1>1, <2>1 DEF SessionInv, ConnsUsed, Addressed, ErrorMsg
  <2>2. ASSUME NEW s \in Slots,
               conns[s] = Gone, keys < MaxKeys, keys' = keys + 1,
               conns' = [conns EXCEPT ![s] = [key |-> keys + 1, disco |-> FALSE,
                            countdown |-> ShutdownTicks, quiet |-> 0]],
               net' = net \cup {Answer(keys + 1, s)}
        PROVE  SessionInv'
    <3>1. ConnsUsed'
      BY <2>2 DEF SessionInv, ConnsUsed, ConnType
    <3>2. Addressed'
      BY <2>2 DEF SessionInv, ConnsUsed, Addressed, Answer
    <3> QED BY <1>1, <3>1, <3>2 DEF SessionInv
  <2> QED BY <1>3, <2>1, <2>2 DEF OnChallenge
<1>4. CASE ConnDatagram(m)
  <2> DEFINE x == conns[m.id]
  <2>1. m.id \in Slots /\ x \in ConnType /\ x # Gone
    BY <1>4 DEF SessionInv, Addressed, ConnsUsed, ConnDatagram
  <2>2. CASE m.key # x.key \/ x.disco
    BY <1>1, <1>4, <2>2 DEF SessionInv, ConnsUsed, Addressed, ConnDatagram
  <2>3. CASE ~(m.key # x.key \/ x.disco)
    <3> DEFINE y == [x EXCEPT !.quiet = 0, !.disco = (m.op = "disco")]
    <3>0. /\ (m.op = "disco") \in BOOLEAN /\ x.key \in 1 .. keys
          /\ x.countdown \in 1 .. ShutdownTicks /\ keys \in Nat
      BY <2>1 DEF SessionInv, ConnsUsed
    <3>1. y \in ConnType
      BY <2>1, <3>0 DEF ConnType
    <3>a. y.key = x.key /\ y.countdown = x.countdown /\ y.quiet = 0
      BY <2>1 DEF ConnType
    <3>b. y # Gone /\ 0 \in 0 .. MaxQuiet
      <4> HIDE DEF y
      <4>1. Gone.key = 0
        BY DEF Gone, NoKey
      <4> QED BY <3>0, <3>a, <4>1
    <3>2. conns' = [conns EXCEPT ![m.id] = y] /\ keys' = keys
      BY <1>4, <2>1, <2>3 DEF ConnDatagram, SessionInv, ConnsUsed, ConnType
    <3> HIDE DEF y
    <3>3. ConnsUsed'
      BY <2>1, <3>0, <3>1, <3>a, <3>b, <3>2, ConnKept DEF SessionInv
    <3>4. Addressed'
      BY <1>4, <2>3 DEF SessionInv, Addressed, ConnDatagram, Down
    <3> QED BY <1>1, <3>3, <3>4 DEF SessionInv
  <2> QED BY <2>2, <2>3
<1>5. CASE Lose(m)
  BY <1>1, <1>5 DEF SessionInv, ConnsUsed, Addressed, Lose
<1> QED BY <1>2, <1>3, <1>4, <1>5

LEMMA ConnSteps ==
  ASSUME SessionInv, NEW s \in Slots, ConnTick(s) \/ ConnDisconnect(s)
  PROVE  SessionInv'
<1> USE SessionAssumption DEF SessionAssumption
<1> DEFINE x == conns[s]
<1>1. ClientStages' /\ keys' = keys
  BY DEF SessionInv, ClientStages, ConnTick, ConnDisconnect
<1>2. x \in ConnType /\ x # Gone /\ x.key \in 1 .. keys /\ x.countdown \in 1 .. ShutdownTicks
        /\ x.quiet \in 0 .. MaxQuiet
  BY DEF SessionInv, ConnsUsed, ConnTick, ConnDisconnect
<1>3. Addressed'
  BY DEF SessionInv, Addressed, ConnTick, ConnDisconnect, Down
<1>4. ConnsUsed'
  <2>1. CASE conns' = [conns EXCEPT ![s] = Gone]
    BY <1>1, <2>1 DEF SessionInv, ConnsUsed, ConnType, Gone, NoKey
  <2>2. ASSUME NEW y \in ConnType, y.key = x.key, y.countdown \in 1 .. ShutdownTicks,
               y.quiet \in 0 .. MaxQuiet, conns' = [conns EXCEPT ![s] = y]
        PROVE  ConnsUsed'
    <3>1. y # Gone
      BY <1>2, <2>2 DEF Gone, NoKey
    <3> QED BY <1>1, <1>2, <2>2, <3>1, ConnKept DEF SessionInv
  <2>3. CASE x.countdown > 1 /\ conns' = [conns EXCEPT ![s].countdown = @ - 1]
    <3> DEFINE y == [x EXCEPT !.countdown = @ - 1]
    <3>1. y \in ConnType /\ y.key = x.key /\ y.countdown \in 1 .. ShutdownTicks
            /\ y.quiet \in 0 .. MaxQuiet
      BY <1>2, <2>3 DEF ConnType
    <3>2. conns' = [conns EXCEPT ![s] = y]
      BY <2>3
    <3> QED BY <3>1, <3>2, <2>2
  <2>4. CASE x.quiet + 1 < MaxQuiet /\ conns' = [conns EXCEPT ![s].quiet = @ + 1]
    <3> DEFINE y == [x EXCEPT !.quiet = @ + 1]
    <3>1. y \in ConnType /\ y.key = x.key /\ y.countdown \in 1 .. ShutdownTicks
            /\ y.quiet \in 0 .. MaxQuiet
      BY <1>2, <2>4 DEF ConnType
    <3>2. conns' = [conns EXCEPT ![s] = y]
      BY <2>4
    <3> QED BY <3>1, <3>2, <2>2
  <2>5. CASE conns' = [conns EXCEPT ![s].disco = TRUE, ![s].quiet = 0]
    <3> DEFINE y == [x EXCEPT !.disco = TRUE, !.quiet = 0]
    <3>1. y \in ConnType
      BY <1>2 DEF ConnType
    <3>a. y.key = x.key /\ y.countdown = x.countdown /\ y.quiet = 0
      BY <1>2 DEF ConnType
    <3>2. conns' = [conns EXCEPT ![s] = y]
      BY <2>5 DEF SessionInv, ConnsUsed, ConnType
    <3> HIDE DEF y
    <3>3. y.countdown \in 1 .. ShutdownTicks /\ y.quiet \in 0 .. MaxQuiet
      BY <1>2, <3>a
    <3> QED BY <3>1, <3>a, <3>2, <3>3, <2>2
  <2> QED BY <2>1, <2>3, <2>4, <2>5 DEF ConnTick, ConnDisconnect
<1> QED BY <1>1, <1>3, <1>4 DEF SessionInv

LEMMA SessionInvariant == SessionSpec => []SessionInv
<1>1. SessionInit => SessionInv
  BY SessionAssumption DEF SessionAssumption, SessionInit, SessionInv, ClientStages,
       ClientType, ConnsUsed, ConnType, Addressed, Gone, NoKey
<1>2. SessionInv /\ [SessionNext]_sessionVars => SessionInv'
  <2> SUFFICES ASSUME SessionInv, [SessionNext]_sessionVars PROVE SessionInv'
    OBVIOUS
  <2>1. CASE ServerShutdown
    BY <2>1 DEF ServerShutdown, SessionInv, ClientStages, ConnsUsed, ConnType, Addressed, Gone, NoKey
  <2>2. CASE UNCHANGED sessionVars
    BY <2>2 DEF sessionVars, SessionInv, ClientStages, ConnsUsed, Addressed
  <2> QED BY <2>1, <2>2, ClientSteps, ClientReceives, ServerReceives, ConnSteps DEF SessionNext
<1> QED BY <1>1, <1>2, PTL DEF SessionSpec

(* The client application hears OnConnect() at most once and no OnConnectFail()
   after it, and OnDisconnectReason() at most once, however answers, errors,
   timeouts and disconnects cross, for any number of slots, hellos and keys. *)
THEOREM SessionCorrect == SessionSpec => []CallbacksRight
<1>1. SessionInv => CallbacksRight
  BY SessionAssumption DEF SessionAssumption, SessionInv, ClientStages, ClientType, ConnsUsed,
       CallbacksRight, SessionTypeOK, ClientCallbacks
<1> QED BY <1>1, SessionInvariant, PTL

-----------------------------------------------------------------------------
(* The key agreement *)

(* Remainders: what is a multiple apart has one, and taking it first changes
   nothing in a sum or in a product. *)
LEMMA SameRest ==
  ASSUME NEW m \in Nat \ {0}, NEW x \in Int, NEW y \in Int, NEW k \in Int, x = y + k * m
  PROVE  x % m = y % m
<1> DEFINE qx == x \div m
           rx == x % m
           qy == y \div m
           ry == y % m
<1>1. /\ qx \in Int /\ rx \in 0 .. (m - 1) /\ x = m * qx + rx
      /\ qy \in Int /\ ry \in 0 .. (m - 1) /\ y = m * qy + ry
  BY DivMod
<1> HIDE DEF qx, rx, qy, ry
<1>2. m * (qx - qy - k) = m * qx - m * qy - m * k
  BY <1>1, SMT
<1>3. m * k = k * m
  BY SMT
<1>4. m * (qx - qy - k) = ry - rx
  BY <1>1, <1>2, <1>3
<1>5. qx - qy - k = 0
  <2> DEFINE d == qx - qy - k
             r == ry - rx
  <2>1. d \in Int /\ r \in Int /\ m * d = r /\ r < m /\ -m < r
    BY <1>1, <1>4
  <2> HIDE DEF d, r
  <2>2. d = 0
    BY <2>1, SmallMultiple
  <2> QED BY <2>2 DEF d
<1>6. m * (qx - qy - k) = 0
  BY <1>5
<1>7. rx = ry
  BY <1>4, <1>6, <1>1
<1> QED BY <1>7 DEF rx, ry

LEMMA RestOf ==
  ASSUME NEW m \in Nat \ {0}, NEW x \in Int
  PROVE  \E k \in Int : x % m = x + k * m
<1> DEFINE d == x \div m
           r == x % m
<1>1. d \in Int /\ r \in Int /\ x = m * d + r
  BY DivMod
<1> HIDE DEF d, r
<1>2. (-d) * m = -(m * d)
  BY <1>1, SMT
<1>3. r = x + (-d) * m
  BY <1>1, <1>2
<1>4. -d \in Int
  BY <1>1
<1> QED BY <1>3, <1>4 DEF r

(* u and v are a multiple of m apart. *)
Congruent(u, v, m) == \E k \in Int : u = v + k * m

LEMMA CongruentEqual ==
  ASSUME NEW m \in Nat \ {0}, NEW u \in Int, NEW v \in Int, Congruent(u, v, m)
  PROVE  u % m = v % m
<1>1. PICK k \in Int : u = v + k * m
  BY DEF Congruent
<1> QED BY <1>1, SameRest

LEMMA CongruentRest ==
  ASSUME NEW m \in Nat \ {0}, NEW u \in Int
  PROVE  u % m \in Int /\ Congruent(u % m, u, m)
<1>1. \E k \in Int : u % m = u + k * m
  BY RestOf
<1>2. u % m \in Int
  BY DivMod
<1> QED BY <1>1, <1>2 DEF Congruent

LEMMA CongruentTrans ==
  ASSUME NEW m \in Int, NEW u \in Int, NEW v \in Int, NEW w \in Int,
         Congruent(u, v, m), Congruent(v, w, m)
  PROVE  Congruent(u, w, m)
<1>1. PICK k \in Int : u = v + k * m
  BY DEF Congruent
<1>2. PICK j \in Int : v = w + j * m
  BY DEF Congruent
<1>3. (k + j) * m = k * m + j * m /\ k * m \in Int /\ j * m \in Int
  BY SMT
<1>4. u = w + (k + j) * m /\ k + j \in Int
  BY <1>1, <1>2, <1>3
<1> QED BY <1>4 DEF Congruent

LEMMA CongruentSum ==
  ASSUME NEW m \in Int, NEW u \in Int, NEW v \in Int, NEW x \in Int, NEW y \in Int,
         Congruent(u, v, m), Congruent(x, y, m)
  PROVE  Congruent(u + x, v + y, m)
<1>1. PICK k \in Int : u = v + k * m
  BY DEF Congruent
<1>2. PICK j \in Int : x = y + j * m
  BY DEF Congruent
<1>3. (k + j) * m = k * m + j * m /\ k * m \in Int /\ j * m \in Int
  BY SMT
<1>4. u + x = (v + y) + (k + j) * m /\ k + j \in Int
  BY <1>1, <1>2, <1>3
<1> QED BY <1>4 DEF Congruent

LEMMA CongruentProduct ==
  ASSUME NEW m \in Int, NEW u \in Int, NEW v \in Int, NEW x \in Int, Congruent(u, v, m)
  PROVE  Congruent(x * u, x * v, m)
<1>1. PICK k \in Int : u = v + k * m
  BY DEF Congruent
<1>2. x * (v + k * m) = x * v + (x * k) * m
  BY SMT
<1>3. x * u = x * v + (x * k) * m /\ x * k \in Int
  BY <1>1, <1>2
<1> QED BY <1>3 DEF Congruent

(* A scalar may be reduced modulo q where it meets a multiple of the cofactor. *)
LEMMA CongruentScalar ==
  ASSUME NEW q \in Nat \ {0}, NEW u \in Int, NEW v \in Int, NEW z \in Int, Congruent(u, v, q)
  PROVE  Congruent(u * (4 * z), v * (4 * z), 4 * q)
<1>1. PICK k \in Int : u = v + k * q
  BY DEF Congruent
<1>2. (v + k * q) * (4 * z) = v * (4 * z) + (k * z) * (4 * q)
  BY SMT
<1>3. u * (4 * z) = v * (4 * z) + (k * z) * (4 * q) /\ k * z \in Int
  BY <1>1, <1>2
<1> QED BY <1>3 DEF Congruent

(* The responder's point is 16 * a * (S * y + b): t is the reduced scalar, A
   the challenge, C the challenge times the cofactor. *)
LEMMA ResponderNumber ==
  ASSUME NEW q \in Nat \ {0}, NEW a \in Int, NEW b \in Int, NEW S \in Int, NEW y \in Int,
         NEW t \in Int, NEW u \in Int, NEW A \in Int, NEW C \in Int,
         Congruent(u, S * y, q), Congruent(t, u + b, q),
         Congruent(A, a * 4, 4 * q), Congruent(C, 4 * A, 4 * q)
  PROVE  Congruent(t * C, (S * y + b) * (16 * a), 4 * q)
<1>1. PICK k1 \in Int : u = S * y + k1 * q
  BY DEF Congruent
<1>2. PICK k2 \in Int : t = (u + b) + k2 * q
  BY DEF Congruent
<1>3. Congruent(t, S * y + b, q)
  <2>1. (k1 + k2) * q = k1 * q + k2 * q /\ k1 * q \in Int /\ k2 * q \in Int /\ S * y \in Int
    BY SMT
  <2>2. t = (S * y + b) + (k1 + k2) * q /\ k1 + k2 \in Int
    BY <1>1, <1>2, <2>1
  <2> QED BY <2>2 DEF Congruent
<1> DEFINE w == S * y + b
           m == 4 * q
<1>4. w \in Int /\ m \in Int /\ 4 * A \in Int /\ 16 * a \in Int /\ a * 4 \in Int
  OBVIOUS
<1>5. Congruent(t, w, q) /\ Congruent(C, 4 * A, m) /\ Congruent(A, a * 4, m)
  BY <1>3
<1>6. Congruent(t * (4 * A), w * (4 * A), m)
  <2>1. w \in Int /\ Congruent(t, w, q)
    BY <1>4, <1>5
  <2> HIDE DEF w
  <2>2. Congruent(t * (4 * A), w * (4 * A), 4 * q)
    BY <2>1, CongruentScalar
  <2> QED BY <2>2
<1> HIDE DEF w, m
<1>7. Congruent(t * C, t * (4 * A), m)
  <2> DEFINE c == 4 * A
  <2>1. c \in Int /\ Congruent(C, c, m)
    BY <1>4, <1>5
  <2> HIDE DEF c
  <2>2. Congruent(t * C, t * c, m)
    BY <1>4, <2>1, CongruentProduct
  <2> QED BY <2>2 DEF c
<1>8. Congruent((w * 4) * A, (w * 4) * (a * 4), m)
  <2> DEFINE c == a * 4
             x == w * 4
  <2>1. c \in Int /\ Congruent(A, c, m) /\ x \in Int
    BY <1>4, <1>5
  <2> HIDE DEF c, x
  <2>2. Congruent(x * A, x * c, m)
    BY <1>4, <2>1, CongruentProduct
  <2> QED BY <2>2 DEF c, x
<1>9. w * (4 * A) = (w * 4) * A /\ (w * 4) * (a * 4) = w * (16 * a)
  BY <1>4, SMT
<1>10. Congruent(w * (4 * A), w * (16 * a), m)
  BY <1>8, <1>9
<1>11. t * C \in Int /\ t * (4 * A) \in Int /\ w * (4 * A) \in Int /\ w * (16 * a) \in Int
  BY <1>4
<1> DEFINE p == t * C
           r == t * (4 * A)
           v == w * (4 * A)
           z == w * (16 * a)
<1>12. p \in Int /\ r \in Int /\ v \in Int /\ z \in Int
       /\ Congruent(p, r, m) /\ Congruent(r, v, m) /\ Congruent(v, z, m)
  BY <1>6, <1>7, <1>10, <1>11
<1> HIDE DEF p, r, v, z
<1>13. Congruent(p, z, m)
  BY <1>4, <1>12, CongruentTrans
<1> QED BY <1>13 DEF p, z, w, m
(* The initiator's point is the same: d is its key times the cofactor, doubled
   as a word, n the reduced product of S and its key. *)
LEMMA InitiatorNumber ==
  ASSUME NEW q \in Nat \ {0}, NEW a \in Int, NEW b \in Int, NEW S \in Int, NEW y \in Int,
         NEW d \in Int, NEW n \in Int, NEW B \in Int, NEW Y \in Int, NEW C \in Int,
         Congruent(d, 4 * a, q), Congruent(n, S * a, q), Congruent(B, b * 4, 4 * q),
         Congruent(Y, y * 4, 4 * q), Congruent(C, 4 * Y, 4 * q)
  PROVE  Congruent(d * B + n * C, (S * y + b) * (16 * a), 4 * q)
<1> DEFINE m == 4 * q
<1>1. Congruent(d * B, 16 * (a * b), m)
  <2>1. Congruent(d * B, d * (b * 4), m)
    <3> DEFINE c == b * 4
    <3>1. c \in Int /\ m \in Int /\ Congruent(B, c, m)
      OBVIOUS
    <3> HIDE DEF c, m
    <3> QED BY <3>1, CongruentProduct DEF c
  <2>2. Congruent(d * (4 * b), (4 * a) * (4 * b), m)
    <3> DEFINE c == 4 * a
    <3>1. c \in Int /\ Congruent(d, c, q)
      OBVIOUS
    <3> HIDE DEF c
    <3>2. Congruent(d * (4 * b), c * (4 * b), 4 * q)
      BY <3>1, CongruentScalar
    <3> QED BY <3>2 DEF c
  <2>3. d * (b * 4) = d * (4 * b) /\ (4 * a) * (4 * b) = 16 * (a * b)
    BY SMT
  <2> DEFINE p == d * B
             r == d * (b * 4)
             z == 16 * (a * b)
  <2>4. p \in Int /\ r \in Int /\ z \in Int /\ m \in Int
    OBVIOUS
  <2>5. Congruent(p, r, m) /\ Congruent(r, z, m)
    BY <2>1, <2>2, <2>3
  <2> HIDE DEF p, r, z, m
  <2>6. Congruent(p, z, m)
    BY <2>4, <2>5, CongruentTrans
  <2> QED BY <2>6 DEF p, z
<1>2. Congruent(n * C, 16 * ((S * a) * y), m)
  <2> DEFINE sa == S * a
  <2>1. sa \in Int /\ Congruent(n, sa, q)
    OBVIOUS
  <2> HIDE DEF sa
  <2>2. Congruent(n * C, n * (4 * Y), m)
    <3> DEFINE c == 4 * Y
    <3>1. c \in Int /\ m \in Int /\ Congruent(C, c, m)
      OBVIOUS
    <3> HIDE DEF c, m
    <3> QED BY <3>1, CongruentProduct DEF c
  <2>3. Congruent(n * (4 * Y), sa * (4 * Y), m)
    <3>1. Congruent(n * (4 * Y), sa * (4 * Y), 4 * q)
      BY <2>1, CongruentScalar
    <3> QED BY <3>1
  <2>4. Congruent((sa * 4) * Y, (sa * 4) * (y * 4), m)
    <3> DEFINE c == y * 4
               x == sa * 4
    <3>1. c \in Int /\ m \in Int /\ x \in Int /\ Congruent(Y, c, m)
      BY <2>1
    <3> HIDE DEF c, x, m
    <3>2. Congruent(x * Y, x * c, m)
      BY <3>1, CongruentProduct
    <3> QED BY <3>2 DEF c, x
  <2>5. sa * (4 * Y) = (sa * 4) * Y /\ (sa * 4) * (y * 4) = 16 * (sa * y)
    BY <2>1, SMT
  <2> DEFINE p == n * C
             r == n * (4 * Y)
             v == sa * (4 * Y)
             z == 16 * (sa * y)
  <2>6. p \in Int /\ r \in Int /\ v \in Int /\ z \in Int /\ m \in Int
    BY <2>1
  <2>7. Congruent(p, r, m) /\ Congruent(r, v, m) /\ Congruent(v, z, m)
    BY <2>2, <2>3, <2>4, <2>5
  <2> HIDE DEF p, r, v, z, m
  <2>8. Congruent(p, z, m)
    BY <2>6, <2>7, CongruentTrans
  <2> QED BY <2>8 DEF p, z, sa
<1>3. 16 * (a * b) + 16 * ((S * a) * y) = (S * y + b) * (16 * a)
  BY SMT
<1> DEFINE p == d * B
           r == n * C
           v == 16 * (a * b)
           z == 16 * ((S * a) * y)
<1>4. p \in Int /\ r \in Int /\ v \in Int /\ z \in Int /\ m \in Int
  OBVIOUS
<1>5. Congruent(p, v, m) /\ Congruent(r, z, m)
  BY <1>1, <1>2
<1> HIDE DEF p, r, v, z, m
<1>6. Congruent(p + r, v + z, m)
  BY <1>4, <1>5, CongruentSum
<1> QED BY <1>3, <1>6 DEF p, r, v, z, m

(* The point a signature is checked with is the one it was made with: s is
   k - b * e up to multiples of q. *)
LEMMA SignatureNumber ==
  ASSUME NEW q \in Nat \ {0}, NEW b \in Int, NEW e \in Int, NEW k \in Int,
         NEW be \in Int, NEW n \in Int, NEW s \in Int, NEW P \in Int, NEW B \in Int, NEW Q \in Int,
         Congruent(be, b * e, q), Congruent(n, q - be, q), Congruent(s, n + k, q),
         Congruent(P, s * 4, 4 * q), Congruent(B, b * 4, 4 * q), Congruent(Q, e * B, 4 * q)
  PROVE  Congruent(P + Q, k * 4, 4 * q)
<1>1. PICK k1 \in Int : be = b * e + k1 * q
  BY DEF Congruent
<1>2. PICK k2 \in Int : n = (q - be) + k2 * q
  BY DEF Congruent
<1>3. PICK k3 \in Int : s = (n + k) + k3 * q
  BY DEF Congruent
<1>4. PICK k4 \in Int : P = s * 4 + k4 * (4 * q)
  BY DEF Congruent
<1>5. PICK k5 \in Int : B = b * 4 + k5 * (4 * q)
  BY DEF Congruent
<1>6. PICK k6 \in Int : Q = e * B + k6 * (4 * q)
  BY DEF Congruent
<1> DEFINE be0 == b * e
           ek5 == e * k5
           j == (1 - k1) + k2 + k3
<1>7. be0 \in Int /\ ek5 \in Int /\ j \in Int
  OBVIOUS
<1>8. e * (b * 4 + k5 * (4 * q)) = 4 * be0 + ek5 * (4 * q)
  BY SMT
<1> HIDE DEF be0, ek5
<1>9. s = (k - be0) + j * q
  <2>1. j * q = q - k1 * q + k2 * q + k3 * q
    BY <1>7, SMT
  <2> HIDE DEF j
  <2>2. be = be0 + k1 * q
    BY <1>1 DEF be0
  <2>3. k1 * q \in Int /\ k2 * q \in Int /\ k3 * q \in Int
    OBVIOUS
  <2> QED BY <1>2, <1>3, <1>7, <2>1, <2>2, <2>3
<1> HIDE DEF j
<1>10. Q = (4 * be0 + ek5 * (4 * q)) + k6 * (4 * q)
  BY <1>5, <1>6, <1>8
<1>11. s * 4 = 4 * (k - be0) + j * (4 * q)
  BY <1>7, <1>9, SMT
<1>12. P + Q = k * 4 + (j + k4 + ek5 + k6) * (4 * q)
  <2> DEFINE m == 4 * q
  <2>1. (j + k4 + ek5 + k6) * m = j * m + k4 * m + ek5 * m + k6 * m
    BY <1>7, SMT
  <2>2. m \in Int
    OBVIOUS
  <2>3. P = (4 * (k - be0) + j * m) + k4 * m /\ Q = (4 * be0 + ek5 * m) + k6 * m
    BY <1>4, <1>10, <1>11
  <2> HIDE DEF m
  <2>4. j * m \in Int /\ k4 * m \in Int /\ ek5 * m \in Int /\ k6 * m \in Int
    BY <1>7, <2>2
  <2>5. P + Q = k * 4 + (j + k4 + ek5 + k6) * m
    BY <1>7, <2>1, <2>3, <2>4
  <2> QED BY <2>5 DEF m
<1>13. j + k4 + ek5 + k6 \in Int
  BY <1>7
<1> QED BY <1>12, <1>13 DEF Congruent

-----------------------------------------------------------------------------
(* What is below m is its own remainder. *)
LEMMA SmallRest ==
  ASSUME NEW m \in Nat \ {0}, NEW x \in Int, 0 <= x, x < m
  PROVE  x % m = x
<1> DEFINE d == x \div m
           r == x % m
<1>1. d \in Int /\ r \in 0 .. (m - 1) /\ x = m * d + r
  BY DivMod
<1> HIDE DEF d, r
<1> DEFINE p == x - r
<1>2. p \in Int /\ m * d = p /\ p < m /\ -m < p
  BY <1>1
<1> HIDE DEF p
<1>3. d = 0
  BY <1>1, <1>2, SmallMultiple
<1>4. m * d = 0
  BY <1>3
<1>5. r = x
  BY <1>1, <1>2, <1>4 DEF p
<1> QED BY <1>5 DEF r

LEMMA KeyFacts ==
  ASSUME NEW k \in GeneratedKeys
  PROVE  /\ k \in Int /\ 1 < k /\ k < CurveQ /\ 2 * k < Word
         /\ CurveQ \in Nat \ {0} /\ Word \in Nat \ {0} /\ 4 * CurveQ \in Nat \ {0}
<1>1. k \in Int /\ 1 < k /\ k < CurveQ /\ k < Word \div 2 /\ CurveQ \in Nat /\ Word \in Nat
      /\ Word < 4 * CurveQ /\ 3 * CurveQ <= Word
  BY KeyAgreementAssumption DEF GeneratedKeys, Scalars
<1> QED BY <1>1

(* Doubling a key twice as a word gives 4 times the key up to a multiple of q:
   the carry comes at most once, and what it stands for is made up for. *)
LEMMA DoubledTwice ==
  ASSUME NEW a \in GeneratedKeys
  PROVE  /\ DoubleWord(DoubleWord(a)) \in Int
         /\ Congruent(DoubleWord(DoubleWord(a)), 4 * a, CurveQ)
<1>1. /\ a \in Int /\ 1 < a /\ a < CurveQ /\ 2 * a < Word /\ CurveQ \in Nat \ {0}
      /\ Word \in Nat \ {0} /\ 3 * CurveQ <= Word /\ Word < 4 * CurveQ
  BY KeyFacts, KeyAgreementAssumption
<1>2. DoubleWord(a) = 2 * a
  BY <1>1 DEF DoubleWord
<1>3. CASE 2 * (2 * a) >= Word
  <2> DEFINE v == 2 * (2 * a) - Word - CurveQ
             u == 4 * a - CurveQ
  <2>1. v \in Int /\ u \in Int /\ v = u + (-1) * Word /\ 0 <= u /\ u < Word /\ -1 \in Int
    BY <1>1, <1>3
  <2>2. u = 4 * a + (-1) * CurveQ
    BY <1>1
  <2>3. DoubleWord(2 * a) = v % Word
    BY <1>3 DEF DoubleWord
  <2> HIDE DEF v, u
  <2>4. v % Word = u % Word
    BY <1>1, <2>1, SameRest
  <2>5. u % Word = u
    BY <1>1, <2>1, SmallRest
  <2> QED BY <1>2, <2>1, <2>2, <2>3, <2>4, <2>5 DEF Congruent
<1>4. CASE ~(2 * (2 * a) >= Word)
  <2>1. DoubleWord(2 * a) = 4 * a
    BY <1>1, <1>4 DEF DoubleWord
  <2>2. 4 * a = 4 * a + 0 * CurveQ /\ 4 * a \in Int /\ 0 \in Int
    BY <1>1
  <2> QED BY <1>2, <2>1, <2>2 DEF Congruent
<1> QED BY <1>3, <1>4

(* Both ends of an exchange come to one point. *)
LEMMA PointsAgree ==
  ASSUME NEW w \in Responders, serverKey \in GeneratedKeys, responder[w].a \in GeneratedKeys,
         ephemeral[responder[w].thisY] \in GeneratedKeys, NEW S \in Int,
         responder[w].Y = PtMultiply(Generator, ephemeral[responder[w].thisY])
  PROVE  ResponderPoint(w, S) = InitiatorPoint(responder[w].a, responder[w].Y, S)
<1> DEFINE a == responder[w].a
           b == serverKey
           y == ephemeral[responder[w].thisY]
           q == CurveQ
           m == 4 * CurveQ
           A == (a * 4) % m
           B == (b * 4) % m
           Y == (y * 4) % m
           CA == (4 * A) % m
           CY == (4 * Y) % m
           u == (S * y) % q
           t == (u + b) % q
           n == (S * a) % q
           d == DoubleWord(DoubleWord(a))
<1>1. /\ a \in Int /\ b \in Int /\ y \in Int /\ q \in Nat \ {0} /\ m \in Nat \ {0}
  BY KeyFacts
<1>2. d \in Int /\ Congruent(d, 4 * a, q)
  BY DoubledTwice
<1>3. ResponderPoint(w, S) = (t * CA) % m
  BY DEF ResponderPoint, CofactorMul, ChallengeOf, PtMultiply, AddModQ, CurveH, Generator
<1>4. InitiatorPoint(a, responder[w].Y, S) = (((d * B) % m) + ((n * CY) % m)) % m
  BY DEF InitiatorPoint, CofactorMul, PublicB, PtMultiply, PtAdd, CurveH, Generator
<1> HIDE DEF a, b, y, q, m, d
<1>5. A \in Int /\ Congruent(A, a * 4, m)
  <2>1. a * 4 \in Int
    BY <1>1
  <2> QED BY <1>1, <2>1, CongruentRest
<1>6. B \in Int /\ Congruent(B, b * 4, m)
  <2>1. b * 4 \in Int
    BY <1>1
  <2> QED BY <1>1, <2>1, CongruentRest
<1>7. Y \in Int /\ Congruent(Y, y * 4, m)
  <2>1. y * 4 \in Int
    BY <1>1
  <2> QED BY <1>1, <2>1, CongruentRest
<1>8. u \in Int /\ Congruent(u, S * y, q)
  <2>1. S * y \in Int
    BY <1>1
  <2> QED BY <1>1, <2>1, CongruentRest
<1>9. n \in Int /\ Congruent(n, S * a, q)
  <2>1. S * a \in Int
    BY <1>1
  <2> QED BY <1>1, <2>1, CongruentRest
<1> HIDE DEF A, B, Y, u, n
<1>10. CA \in Int /\ Congruent(CA, 4 * A, m)
  <2>1. 4 * A \in Int
    BY <1>5
  <2> QED BY <1>1, <2>1, CongruentRest
<1>11. CY \in Int /\ Congruent(CY, 4 * Y, m)
  <2>1. 4 * Y \in Int
    BY <1>7
  <2> QED BY <1>1, <2>1, CongruentRest
<1>12. t \in Int /\ Congruent(t, u + b, q)
  <2>1. u + b \in Int
    BY <1>1, <1>8
  <2> QED BY <1>1, <2>1, CongruentRest
<1> HIDE DEF CA, CY, t
<1> DEFINE T == (S * y + b) * (16 * a)
<1>13. m = 4 * q
  BY DEF m, q
<1>14. Congruent(t * CA, T, m)
  <2>1. Congruent(t * CA, T, 4 * q)
    BY <1>1, <1>5, <1>8, <1>10, <1>12, <1>13, ResponderNumber
  <2> QED BY <2>1, <1>13
<1>15. Congruent(d * B + n * CY, T, m)
  <2>1. Congruent(d * B + n * CY, T, 4 * q)
    BY <1>1, <1>2, <1>6, <1>7, <1>9, <1>11, <1>13, InitiatorNumber
  <2> QED BY <2>1, <1>13
<1> DEFINE p == d * B
           r == n * CY
           pr == p % m
           rr == r % m
           x == t * CA
<1>16. p \in Int /\ r \in Int /\ x \in Int /\ T \in Int
  BY <1>1, <1>2, <1>6, <1>9, <1>10, <1>11, <1>12
<1>17. Congruent(p + r, T, m) /\ Congruent(x, T, m)
  BY <1>14, <1>15
<1> HIDE DEF T, p, r, x
<1>18. pr \in Int /\ rr \in Int /\ Congruent(pr, p, m) /\ Congruent(rr, r, m)
  BY <1>1, <1>16, CongruentRest
<1> HIDE DEF pr, rr
<1>19. Congruent(pr + rr, p + r, m)
  BY <1>1, <1>16, <1>18, CongruentSum
<1> DEFINE s == p + r
           ss == pr + rr
<1>20. s \in Int /\ ss \in Int /\ Congruent(ss, s, m) /\ Congruent(s, T, m)
  BY <1>16, <1>17, <1>18, <1>19
<1> HIDE DEF s, ss
<1>21. ss % m = s % m /\ s % m = T % m /\ x % m = T % m
  BY <1>1, <1>16, <1>17, <1>20, CongruentEqual
<1> QED BY <1>3, <1>4, <1>21 DEF s, ss, pr, rr, p, r, x, a

(* The hash of a signature is a number, whatever the point. *)
LEMMA HashesAreNumbers ==
  ASSUME NEW K \in Int, NEW msg \in Int, NEW rrn \in Int, Word \in Nat \ {0},
         4 * CurveQ \in Nat \ {0}, CurveQ \in Nat
  PROVE  MessageHash(msg, rrn, K) \in Int
<1> DEFINE K2 == (2 * CurveQ - K) % (4 * CurveQ)
<1>1. K2 \in Int
  <2> DEFINE x == 2 * CurveQ - K
             m == 4 * CurveQ
  <2>1. x \in Int /\ m \in Nat \ {0}
    OBVIOUS
  <2> HIDE DEF x, m
  <2>2. x % m \in Int
    BY <2>1, CongruentRest
  <2> QED BY <2>2 DEF x, m
<1>2. AffineX(K) = {K, K2}
  BY DEF AffineX, CurveH
<1> HIDE DEF K2
<1>3. \E x \in AffineX(K) : \A z \in AffineX(K) : x <= z
  BY <1>1, <1>2
<1>4. Mirror(K) \in AffineX(K)
  BY <1>3, Zenon DEF Mirror
<1>5. Mirror(K) \in Int
  BY <1>1, <1>2, <1>4
<1> DEFINE z == Mirror(K)
           h == 3 * msg + 5 * rrn + 7 * z + 0
<1>6. h \in Int
  BY <1>5
<1>7. MessageHash(msg, rrn, K) = h % Word
  BY DEF MessageHash, Hash
<1> HIDE DEF h
<1> QED BY <1>6, <1>7, CongruentRest

(* A signature made is verified. *)
LEMMA SignaturesVerified ==
  ASSUME NEW b \in GeneratedKeys, NEW msg \in Int, NEW rrn \in Int,
         NEW sig \in Signature(b, msg, rrn)
  PROVE  VerifySignature(sig)
<1>1. PICK k \in GeneratedKeys :
        sig = [by |-> b, msg |-> msg, rrn |-> rrn,
               e |-> MessageHash(msg, rrn, PtMultiply(Generator, k)),
               s |-> SignatureS(b, MessageHash(msg, rrn, PtMultiply(Generator, k)) % CurveQ, k)]
  BY DEF Signature
<1>2. sig.e % CurveQ # 0 /\ sig.s # 0
  BY DEF Signature
<1> DEFINE q == CurveQ
           m == 4 * CurveQ
           K == (k * 4) % m
           h == MessageHash(msg, rrn, K)
           e == h % q
           be == (b * e) % q
           n == (q - be) % q
           s == (n + k) % q
           P == (s * 4) % m
           B == (b * 4) % m
           Q == (e * B) % m
<1>3. b \in Int /\ k \in Int /\ q \in Nat \ {0} /\ m \in Nat \ {0} /\ Word \in Nat \ {0} /\ m = 4 * q
  BY KeyFacts
<1>4. PtMultiply(Generator, k) = K
  BY DEF PtMultiply, Generator, CurveH
<1>5. sig.e = h /\ sig.by = b /\ sig.msg = msg /\ sig.rrn = rrn
  BY <1>1, <1>4
<1>6. sig.s = s
  BY <1>1, <1>4 DEF SignatureS, AddModQ
<1>7. K \in Int /\ Congruent(K, k * 4, m)
  <2>1. k * 4 \in Int
    BY <1>3
  <2> HIDE DEF m
  <2> QED BY <1>3, <2>1, CongruentRest
<1>8. h \in Int
  <2> HIDE DEF K
  <2>1. 4 * CurveQ \in Nat \ {0} /\ CurveQ \in Nat
    BY <1>3
  <2> QED BY <1>3, <1>7, <2>1, HashesAreNumbers
<1>9. VerifySignature(sig) <=> /\ e # 0 /\ s # 0 /\ s < q
                               /\ h = MessageHash(msg, rrn, (P + Q) % m)
  BY <1>5, <1>6 DEF VerifySignature, PtMultiply, PtAdd, Generator, CurveH
<1>10. e # 0 /\ s # 0
  BY <1>2, <1>5, <1>6
<1> HIDE DEF m, q, h
<1>11. e \in Int
  BY <1>3, <1>8, CongruentRest
<1> HIDE DEF e
<1>12. be \in Int /\ Congruent(be, b * e, q)
  <2>1. b * e \in Int
    BY <1>3, <1>11
  <2> QED BY <1>3, <2>1, CongruentRest
<1> HIDE DEF be
<1>13. n \in Int /\ Congruent(n, q - be, q)
  <2>1. q - be \in Int
    BY <1>3, <1>12
  <2> QED BY <1>3, <2>1, CongruentRest
<1> HIDE DEF n
<1>14. s \in Int /\ Congruent(s, n + k, q) /\ s < q
  <2> DEFINE x == n + k
  <2>1. x \in Int
    BY <1>3, <1>13
  <2> HIDE DEF x
  <2>2. x % q \in 0 .. (q - 1) /\ Congruent(x % q, x, q) /\ x % q \in Int
    BY <1>3, <2>1, CongruentRest, DivMod
  <2>3. s = x % q
    BY DEF x
  <2> HIDE DEF s
  <2>4. s \in Int /\ s \in 0 .. (q - 1) /\ Congruent(s, x, q)
    BY <2>2, <2>3
  <2> QED BY <1>3, <2>4 DEF x
<1> HIDE DEF s
<1>15. P \in Int /\ Congruent(P, s * 4, m)
  <2>1. s * 4 \in Int
    BY <1>14
  <2> QED BY <1>3, <2>1, CongruentRest
<1>16. B \in Int /\ Congruent(B, b * 4, m)
  <2>1. b * 4 \in Int
    BY <1>3
  <2> QED BY <1>3, <2>1, CongruentRest
<1> HIDE DEF P, B
<1>17. Q \in Int /\ Congruent(Q, e * B, m)
  <2>1. e * B \in Int
    BY <1>11, <1>16
  <2> QED BY <1>3, <2>1, CongruentRest
<1> HIDE DEF Q
<1>18. Congruent(P + Q, k * 4, m)
  <2>1. Congruent(P + Q, k * 4, 4 * q)
    BY <1>3, <1>11, <1>12, <1>13, <1>14, <1>15, <1>16, <1>17, SignatureNumber
  <2> QED BY <2>1, <1>3
<1>19. (P + Q) % m = (k * 4) % m
  <2> DEFINE x == P + Q
             z == k * 4
  <2>1. x \in Int /\ z \in Int /\ Congruent(x, z, m)
    BY <1>3, <1>15, <1>17, <1>18
  <2> HIDE DEF x, z
  <2>2. x % m = z % m
    BY <1>3, <2>1, CongruentEqual
  <2> QED BY <2>2 DEF x, z
<1>20. h = MessageHash(msg, rrn, (P + Q) % m)
  BY <1>19 DEF h, K
<1> QED BY <1>9, <1>10, <1>14, <1>20

-----------------------------------------------------------------------------
KeyStages == {"idle", "rekey", "public", "switch", "recount", "answer", "copy", "prove", "answered"}
RekeyStages == {"rekey", "public", "switch", "recount"}

(* A place is matched when its public half belongs to its private half. *)
Matched(i) ==
  ephemeral[i] \in GeneratedKeys /\ publicY[i] = PtMultiply(Generator, ephemeral[i])

KeyWorkers == [pc : KeyStages, a : Int, next : {0, 1}, thisY : {0, 1}, Y : Int, r : Int,
               mac : SUBSET Int]
KeyTypes ==
  /\ serverKey \in GeneratedKeys
  /\ ephemeral \in [{0, 1} -> Int] /\ publicY \in [{0, 1} -> Int]
  /\ activeY \in {0, 1} /\ challengeCount \in Nat
  /\ responder \in [Responders -> KeyWorkers]

(* Past the limit exactly one worker is replacing the key. *)
SingleRekey ==
  \/ /\ challengeCount <= RekeyAt
     /\ \A v \in Responders : responder[v].pc \notin RekeyStages
  \/ /\ challengeCount > RekeyAt
     /\ \E w \in Responders : \A v \in Responders : responder[v].pc \in RekeyStages <=> v = w

(* The place in use is matched, and so is every place a worker has read and not
   used up: the one being written is neither. *)
Accepted(w) == ProcessAnswer(responder[w].a, responder[w].Y, responder[w].r, responder[w].mac)
WorkerMatched(w) ==
  LET h == responder[w] IN
  /\ h.pc # "idle" => h.a \in GeneratedKeys
  /\ h.pc \in {"public", "switch"} => h.next = 1 - activeY
  /\ h.pc = "public" =>
       /\ ephemeral[h.next] \in GeneratedKeys
       /\ \A v \in Responders : responder[v].pc \in {"copy", "prove"} => responder[v].thisY # h.next
  /\ h.pc = "switch" => Matched(h.next)
  /\ h.pc \in {"copy", "prove"} => Matched(h.thisY)
  /\ h.pc = "prove" => h.Y = publicY[h.thisY]
  /\ h.pc = "answered" => Accepted(w)
PlacesMatched == Matched(activeY) /\ \A w \in Responders : WorkerMatched(w)

KeyInv == KeyTypes /\ SingleRekey /\ PlacesMatched /\ SignatureVerified

LEMMA KeyInitial ==
  ASSUME KeyInit
  PROVE  KeyInv
<1>1. PICK y \in GeneratedKeys :
        /\ ephemeral = [i \in {0, 1} |-> IF i = 1 THEN y ELSE 0]
        /\ publicY = [i \in {0, 1} |-> IF i = 1 THEN PtMultiply(Generator, y) ELSE 0]
  BY DEF KeyInit
<1>2. y \in Int /\ 4 * CurveQ \in Nat \ {0}
  BY KeyFacts
<1>3. PtMultiply(Generator, y) \in Int
  <2> DEFINE x == y * 4
             m == 4 * CurveQ
  <2>1. x \in Int /\ m \in Nat \ {0}
    BY <1>2
  <2>2. PtMultiply(Generator, y) = x % m
    BY DEF PtMultiply, Generator, CurveH
  <2> HIDE DEF x, m
  <2> QED BY <2>1, <2>2, CongruentRest
<1>4. KeyTypes
  BY <1>1, <1>2, <1>3 DEF KeyInit, KeyTypes, KeyWorkers, KeyIdle, KeyStages
<1>5. SingleRekey
  BY KeyAgreementAssumption DEF KeyInit, SingleRekey, KeyIdle, RekeyStages
<1>6. PlacesMatched
  BY <1>1 DEF KeyInit, PlacesMatched, WorkerMatched, Matched, KeyIdle
<1> QED BY <1>4, <1>5, <1>6 DEF KeyInit, KeyInv, SignatureVerified

LEMMA PointsAreNumbers ==
  ASSUME NEW p \in Int, NEW k \in Int, CurveQ \in Nat \ {0}
  PROVE  PtMultiply(p, k) \in Int
<1> DEFINE x == k * p
           m == 4 * CurveQ
<1>1. x \in Int /\ m \in Nat \ {0}
  OBVIOUS
<1>2. PtMultiply(p, k) = x % m
  BY DEF PtMultiply, CurveH
<1> HIDE DEF x, m
<1> QED BY <1>1, <1>2, CongruentRest

(* The step of ProcessChallenge(): from a matched place the initiator accepts
   the answer. *)
LEMMA AnswerAccepted ==
  ASSUME KeyInv, NEW w \in Responders, responder[w].pc = "prove", NEW r \in Randoms,
         HashS(ChallengeOf(w), responder[w].Y, r) >= MinS
  PROVE  LET S == HashS(ChallengeOf(w), responder[w].Y, r)
         IN  /\ ProcessAnswer(responder[w].a, responder[w].Y, r, AffineX(ResponderPoint(w, S)))
             /\ AffineX(ResponderPoint(w, S)) \in SUBSET Int
<1> DEFINE h == responder[w]
           y == ephemeral[h.thisY]
           S == HashS(ChallengeOf(w), h.Y, r)
<1>1. h.a \in GeneratedKeys /\ Matched(h.thisY) /\ h.Y = publicY[h.thisY]
  BY DEF KeyInv, PlacesMatched, WorkerMatched
<1>2. y \in GeneratedKeys /\ h.Y = PtMultiply(Generator, y) /\ serverKey \in GeneratedKeys
  BY <1>1 DEF Matched, KeyInv, KeyTypes
<1>3. /\ y \in Int /\ 1 < y /\ y < CurveQ /\ h.a \in Int /\ serverKey \in Int
      /\ CurveQ \in Nat \ {0} /\ Word \in Nat \ {0}
  BY <1>1, <1>2, KeyFacts
<1>4. h.Y # 0
  <2> DEFINE x == y * 4
             m == 4 * CurveQ
  <2>1. x \in Int /\ m \in Nat \ {0} /\ 0 <= x /\ x < m /\ x # 0
    BY <1>3
  <2>2. h.Y = x % m
    BY <1>2 DEF PtMultiply, Generator, CurveH
  <2> HIDE DEF x, m, h
  <2> QED BY <2>1, <2>2, SmallRest
<1>5. h.Y \in Int /\ ChallengeOf(w) \in Int /\ PublicB \in Int /\ r \in Int
  <2>1. Generator \in Int
    BY DEF Generator, CurveH
  <2>2. r \in Int
    BY KeyAgreementAssumption DEF Scalars
  <2>3. PtMultiply(Generator, y) \in Int /\ PtMultiply(Generator, h.a) \in Int
        /\ PtMultiply(Generator, serverKey) \in Int
    <3> HIDE DEF y, h
    <3> QED BY <1>3, <2>1, PointsAreNumbers
  <2> QED BY <1>2, <2>2, <2>3 DEF ChallengeOf, PublicB
<1>6. S \in Int
  <2> DEFINE x == 3 * ChallengeOf(w) + 5 * PublicB + 7 * h.Y + r
  <2>1. x \in Int
    BY <1>5
  <2>2. S = x % Word
    BY DEF HashS, Hash
  <2> HIDE DEF x, S
  <2> QED BY <1>3, <2>1, <2>2, CongruentRest
<1>7. ResponderPoint(w, S) = InitiatorPoint(h.a, h.Y, S)
  <2> HIDE DEF S
  <2> QED BY <1>1, <1>2, <1>6, PointsAgree
<1>8. ChallengeOf(w) = PtMultiply(Generator, h.a)
  BY DEF ChallengeOf
<1>9. ProcessAnswer(h.a, h.Y, r, AffineX(ResponderPoint(w, S)))
  BY <1>4, <1>7, <1>8 DEF ProcessAnswer
<1>10. AffineX(ResponderPoint(w, S)) \in SUBSET Int
  <2> DEFINE t == AddModQ((S * y) % CurveQ, serverKey)
             A == ChallengeOf(w)
             q2 == 2 * CurveQ
             m == 4 * CurveQ
  <2>1. t \in Int
    <3> DEFINE x == S * y
               u == x % CurveQ
               z == u + serverKey
    <3>1. x \in Int
      BY <1>3, <1>6
    <3> HIDE DEF x
    <3>2. u \in Int
      BY <1>3, <3>1, CongruentRest
    <3> HIDE DEF u
    <3>3. z \in Int
      BY <1>3, <3>2
    <3>4. t = z % CurveQ
      BY DEF AddModQ, u, x
    <3> HIDE DEF z, t
    <3> QED BY <1>3, <3>3, <3>4, CongruentRest
  <2>2. CofactorMul(A) \in Int
    BY <1>3, <1>5, PointsAreNumbers DEF CofactorMul, CurveH
  <2>3. ResponderPoint(w, S) = PtMultiply(CofactorMul(A), t)
    BY DEF ResponderPoint
  <2> HIDE DEF t, A
  <2>4. ResponderPoint(w, S) \in Int
    BY <1>3, <2>1, <2>2, <2>3, PointsAreNumbers
  <2> DEFINE p == ResponderPoint(w, S)
             x == q2 - p
  <2>5. x \in Int /\ m \in Nat \ {0} /\ p \in Int
    BY <1>3, <2>4
  <2>6. AffineX(p) = {p, x % m}
    BY DEF AffineX, CurveH
  <2> HIDE DEF x, m, p
  <2>7. x % m \in Int
    BY <2>5, CongruentRest
  <2>8. AffineX(p) \in SUBSET Int
    BY <2>5, <2>6, <2>7
  <2> QED BY <2>8 DEF p
<1> QED BY <1>9, <1>10

(* Where the count and the stages of replacing are left alone. *)
LEMMA SingleRekeyKept ==
  ASSUME SingleRekey, challengeCount' = challengeCount,
         \A v \in Responders : responder'[v].pc \in RekeyStages <=> responder[v].pc \in RekeyStages
  PROVE  SingleRekey'
  BY DEF SingleRekey

LEMMA WorkerMoved ==
  ASSUME responder \in [Responders -> KeyWorkers], NEW w \in Responders, NEW h \in KeyWorkers,
         responder' = [responder EXCEPT ![w] = h]
  PROVE  responder' \in [Responders -> KeyWorkers]
  OBVIOUS

LEMMA AcceptedKept ==
  ASSUME NEW v \in Responders, serverKey' = serverKey, responder'[v] = responder[v]
  PROVE  Accepted(v)' <=> Accepted(v)
  BY DEF Accepted, ProcessAnswer, HashS, PublicB, InitiatorPoint

LEMMA KeyStep ==
  ASSUME Prompt, KeyInv, [KeyNext]_keyVars
  PROVE  KeyInv'
<1> USE DEF KeyInv
<1>1. ASSUME NEW w \in Responders, TakeChallenge(w)
      PROVE  KeyInv'
  <2>1. PICK a \in GeneratedKeys : responder' = [responder EXCEPT ![w] =
            [KeyIdle EXCEPT !.a = a, !.pc = IF TimeToRekey(challengeCount) THEN "rekey" ELSE "answer"]]
    BY <1>1 DEF TakeChallenge
  <2>2. a \in Int
    BY KeyFacts
  <2>3. /\ responder[w].pc = "idle" /\ challengeCount' = challengeCount + 1
        /\ UNCHANGED <<serverKey, ephemeral, publicY, activeY>> /\ signed' = Unsigned
    BY <1>1 DEF TakeChallenge
  <2>4. KeyTypes'
    <3> DEFINE h == [KeyIdle EXCEPT !.a = a, !.pc = IF TimeToRekey(challengeCount) THEN "rekey" ELSE "answer"]
    <3> DEFINE p == IF TimeToRekey(challengeCount) THEN "rekey" ELSE "answer"
    <3>0. p \in KeyStages /\ h = [KeyIdle EXCEPT !.a = a, !.pc = p]
      BY DEF KeyStages
    <3>1. h \in KeyWorkers
      <4>1. KeyIdle \in KeyWorkers
        BY DEF KeyWorkers, KeyIdle, KeyStages
      <4> HIDE DEF p, h
      <4> QED BY <2>2, <3>0, <4>1 DEF KeyWorkers
    <3>2. responder' = [responder EXCEPT ![w] = h]
      BY <2>1
    <3> HIDE DEF h
    <3> QED BY <2>3, <3>1, <3>2, WorkerMoved DEF KeyTypes
  <2>5. /\ responder'[w].a = a /\ \A v \in Responders \ {w} : responder'[v] = responder[v]
        /\ responder'[w].pc = IF challengeCount = RekeyAt THEN "rekey" ELSE "answer"
    BY <2>1 DEF KeyTypes, KeyWorkers, KeyIdle, TimeToRekey
  <2>6. SingleRekey'
    BY <2>3, <2>5, KeyAgreementAssumption DEF SingleRekey, RekeyStages, KeyTypes
  <2>7. PlacesMatched'
    <3>1. Matched(activeY)'
      BY <2>3, <2>5 DEF PlacesMatched, WorkerMatched, Matched
    <3>2. WorkerMatched(w)'
      BY <2>3, <2>5 DEF PlacesMatched, WorkerMatched, Matched
    <3>3. ASSUME NEW v \in Responders \ {w}
          PROVE  WorkerMatched(v)'
      BY <2>3, <2>5, AcceptedKept DEF PlacesMatched, WorkerMatched, Matched
    <3> QED BY <3>1, <3>2, <3>3 DEF PlacesMatched
  <2> QED BY <2>3, <2>4, <2>6, <2>7 DEF SignatureVerified
<1>2. ASSUME NEW w \in Responders, RekeyPrivate(w)
      PROVE  KeyInv'
  <2> DEFINE next == 1 - activeY
  <2>1. PICK y \in GeneratedKeys : ephemeral' = [ephemeral EXCEPT ![next] = y]
    BY <1>2 DEF RekeyPrivate
  <2>2. y \in Int
    BY KeyFacts
  <2>3. /\ responder[w].pc = "rekey"
        /\ \A v \in Responders : responder[v].pc \in {"copy", "prove"} => responder[v].thisY # next
        /\ responder' = [responder EXCEPT ![w].pc = "public", ![w].next = next]
        /\ UNCHANGED <<serverKey, publicY, activeY, challengeCount>> /\ signed' = Unsigned
    BY <1>2 DEF RekeyPrivate
  <2>4. KeyTypes' /\ next \in {0, 1} /\ next # activeY
    <3> DEFINE h == [responder[w] EXCEPT !.pc = "public", !.next = next]
    <3>1. next \in {0, 1} /\ next # activeY
      BY DEF KeyTypes
    <3>2. h \in KeyWorkers
      <4> HIDE DEF next
      <4> QED BY <3>1 DEF KeyTypes, KeyWorkers, KeyStages
    <3>3. responder' = [responder EXCEPT ![w] = h]
      BY <2>3 DEF KeyTypes, KeyWorkers
    <3> HIDE DEF h, next
    <3> QED BY <2>1, <2>2, <2>3, <3>1, <3>2, <3>3, WorkerMoved DEF KeyTypes
  <2>5. /\ responder'[w].a = responder[w].a /\ responder'[w].pc = "public" /\ responder'[w].next = next
        /\ \A v \in Responders \ {w} : responder'[v] = responder[v]
    BY <2>3 DEF KeyTypes, KeyWorkers
  <2>6. SingleRekey'
    BY <2>3, <2>5, SingleRekeyKept DEF RekeyStages
  <2>7. \A v \in Responders \ {w} : responder[v].pc \notin RekeyStages
    BY <2>3 DEF SingleRekey, RekeyStages
  <2>8. ephemeral'[next] = y /\ \A i \in {0, 1} : i # next => ephemeral'[i] = ephemeral[i]
    BY <2>1, <2>4 DEF KeyTypes
  <2>9. \A v \in Responders : responder[v].thisY \in {0, 1}
    BY DEF KeyTypes, KeyWorkers
  <2> HIDE DEF next
  <2>10. next = 1 - activeY /\ activeY \in {0, 1}
    BY DEF next, KeyTypes
  <2>11. PlacesMatched'
    <3>1. Matched(activeY)'
      BY <2>3, <2>4, <2>5, <2>7, <2>8, <2>9, <2>10 DEF PlacesMatched, WorkerMatched, Matched
    <3>2. WorkerMatched(w)'
      <4>1. \A v \in Responders : responder'[v].pc \in {"copy", "prove"} => responder'[v].thisY # next
        BY <2>3, <2>5
      <4>2. responder[w].a \in GeneratedKeys
        BY <2>3 DEF PlacesMatched, WorkerMatched
      <4> QED BY <2>3, <2>5, <2>8, <2>10, <4>1, <4>2 DEF WorkerMatched
    <3>3. ASSUME NEW v \in Responders \ {w}
          PROVE  WorkerMatched(v)'
      <4>1. responder'[v] = responder[v] /\ responder[v].pc \notin RekeyStages /\ WorkerMatched(v)
        BY <2>5, <2>7 DEF PlacesMatched
      <4>2. responder[v].pc \in {"copy", "prove"} => Matched(responder[v].thisY)'
        BY <2>3, <2>8, <2>9, <4>1 DEF WorkerMatched, Matched
      <4>3. Accepted(v)' <=> Accepted(v)
        BY <2>3, <4>1, AcceptedKept
      <4> QED BY <2>3, <4>1, <4>2, <4>3 DEF WorkerMatched, RekeyStages, Matched
    <3> QED BY <3>1, <3>2, <3>3 DEF PlacesMatched
  <2> QED BY <2>3, <2>4, <2>6, <2>11 DEF SignatureVerified
<1>3. ASSUME NEW w \in Responders, RekeyPublic(w)
      PROVE  KeyInv'
  <2> DEFINE next == responder[w].next
             Yn == PtMultiply(Generator, ephemeral[next])
  <2>1. /\ responder[w].pc = "public" /\ publicY' = [publicY EXCEPT ![next] = Yn]
        /\ responder' = [responder EXCEPT ![w].pc = "switch"]
        /\ UNCHANGED <<serverKey, ephemeral, activeY, challengeCount>> /\ signed' = Unsigned
    BY <1>3 DEF RekeyPublic, Goto
  <2>2. /\ next = 1 - activeY /\ ephemeral[next] \in GeneratedKeys /\ activeY \in {0, 1} /\ next \in {0, 1}
        /\ \A v \in Responders : responder[v].pc \in {"copy", "prove"} => responder[v].thisY # next
    BY <2>1 DEF PlacesMatched, WorkerMatched, KeyTypes, KeyWorkers
  <2>3. Yn \in Int
    <3> DEFINE k == ephemeral[next]
    <3>1. k \in Int /\ CurveQ \in Nat \ {0} /\ Generator \in Int
      BY <2>2, KeyFacts DEF Generator, CurveH
    <3> HIDE DEF k
    <3>2. PtMultiply(Generator, k) \in Int
      BY <3>1, PointsAreNumbers
    <3> QED BY <3>2 DEF k
  <2> HIDE DEF Yn
  <2>4. KeyTypes'
    BY <2>1, <2>2, <2>3 DEF KeyTypes, KeyWorkers, KeyStages
  <2>5. /\ responder'[w].a = responder[w].a /\ responder'[w].pc = "switch" /\ responder'[w].next = next
        /\ \A v \in Responders \ {w} : responder'[v] = responder[v]
    BY <2>1 DEF KeyTypes, KeyWorkers
  <2>6. SingleRekey'
    BY <2>1, <2>5, SingleRekeyKept DEF RekeyStages
  <2>7. \A v \in Responders \ {w} : responder[v].pc \notin RekeyStages
    BY <2>1 DEF SingleRekey, RekeyStages
  <2>8. publicY'[next] = PtMultiply(Generator, ephemeral[next])
        /\ \A i \in {0, 1} : i # next => publicY'[i] = publicY[i]
    BY <2>1, <2>2 DEF KeyTypes, Yn
  <2>9. \A v \in Responders : responder[v].thisY \in {0, 1}
    BY DEF KeyTypes, KeyWorkers
  <2> HIDE DEF next
  <2>10. PlacesMatched'
    <3>1. Matched(activeY)'
      BY <2>1, <2>2, <2>5, <2>7, <2>8, <2>9 DEF PlacesMatched, WorkerMatched, Matched
    <3>2. WorkerMatched(w)'
      BY <2>1, <2>2, <2>5, <2>7, <2>8, <2>9 DEF PlacesMatched, WorkerMatched, Matched, RekeyStages
    <3>3. ASSUME NEW v \in Responders \ {w}
          PROVE  WorkerMatched(v)'
      BY <2>1, <2>2, <2>5, <2>7, <2>8, <2>9, AcceptedKept DEF PlacesMatched, WorkerMatched, Matched, RekeyStages
    <3> QED BY <3>1, <3>2, <3>3 DEF PlacesMatched
  <2> QED BY <2>1, <2>4, <2>6, <2>10 DEF SignatureVerified
<1>4. ASSUME NEW w \in Responders, RekeySwitch(w)
      PROVE  KeyInv'
  <2>1. /\ responder[w].pc = "switch" /\ activeY' = responder[w].next
        /\ responder' = [responder EXCEPT ![w].pc = "recount"]
        /\ UNCHANGED <<serverKey, ephemeral, publicY, challengeCount>> /\ signed' = Unsigned
    BY <1>4 DEF RekeySwitch, Goto
  <2>2. KeyTypes'
    BY <2>1 DEF KeyTypes, KeyWorkers, KeyStages
  <2>3. /\ responder'[w].a = responder[w].a /\ responder'[w].pc = "recount"
        /\ \A v \in Responders \ {w} : responder'[v] = responder[v]
    BY <2>1 DEF KeyTypes, KeyWorkers
  <2>4. SingleRekey'
    BY <2>1, <2>3, SingleRekeyKept DEF RekeyStages
  <2>5. \A v \in Responders \ {w} : responder[v].pc \notin RekeyStages
    BY <2>1 DEF SingleRekey, RekeyStages
  <2>6. PlacesMatched'
    <3>1. Matched(activeY)'
      BY <2>1, <2>3, <2>5 DEF PlacesMatched, WorkerMatched, Matched
    <3>2. WorkerMatched(w)'
      BY <2>1, <2>3, <2>5 DEF PlacesMatched, WorkerMatched, Matched, RekeyStages
    <3>3. ASSUME NEW v \in Responders \ {w}
          PROVE  WorkerMatched(v)'
      BY <2>1, <2>3, <2>5, AcceptedKept DEF PlacesMatched, WorkerMatched, Matched, RekeyStages
    <3> QED BY <3>1, <3>2, <3>3 DEF PlacesMatched
  <2> QED BY <2>1, <2>2, <2>4, <2>6 DEF SignatureVerified
<1>5. ASSUME NEW w \in Responders, RekeyDone(w)
      PROVE  KeyInv'
  <2>1. /\ responder[w].pc = "recount" /\ challengeCount' = 0
        /\ responder' = [responder EXCEPT ![w].pc = "answer"]
        /\ UNCHANGED <<serverKey, ephemeral, publicY, activeY>> /\ signed' = Unsigned
    BY <1>5 DEF RekeyDone, Goto
  <2>2. KeyTypes'
    BY <2>1 DEF KeyTypes, KeyWorkers, KeyStages
  <2>3. /\ responder'[w].a = responder[w].a /\ responder'[w].pc = "answer"
        /\ \A v \in Responders \ {w} : responder'[v] = responder[v]
    BY <2>1 DEF KeyTypes, KeyWorkers
  <2>4. \A v \in Responders \ {w} : responder[v].pc \notin RekeyStages
    BY <2>1 DEF SingleRekey, RekeyStages
  <2>5. SingleRekey'
    BY <2>1, <2>3, <2>4, KeyAgreementAssumption DEF SingleRekey, RekeyStages
  <2>6. PlacesMatched'
    <3>1. Matched(activeY)'
      BY <2>1, <2>3 DEF PlacesMatched, WorkerMatched, Matched
    <3>2. WorkerMatched(w)'
      BY <2>1, <2>3 DEF PlacesMatched, WorkerMatched, Matched
    <3>3. ASSUME NEW v \in Responders \ {w}
          PROVE  WorkerMatched(v)'
      BY <2>1, <2>3, AcceptedKept DEF PlacesMatched, WorkerMatched, Matched
    <3> QED BY <3>1, <3>2, <3>3 DEF PlacesMatched
  <2> QED BY <2>1, <2>2, <2>5, <2>6 DEF SignatureVerified
<1>6. ASSUME NEW w \in Responders, ReadActive(w)
      PROVE  KeyInv'
  <2>1. /\ responder[w].pc = "answer"
        /\ responder' = [responder EXCEPT ![w].pc = "copy", ![w].thisY = activeY]
        /\ UNCHANGED <<serverKey, ephemeral, publicY, activeY, challengeCount>> /\ signed' = Unsigned
    BY <1>6 DEF ReadActive
  <2>2. KeyTypes'
    <3> DEFINE h == [responder[w] EXCEPT !.pc = "copy", !.thisY = activeY]
    <3>1. h \in KeyWorkers
      BY DEF KeyTypes, KeyWorkers, KeyStages
    <3>2. responder' = [responder EXCEPT ![w] = h]
      BY <2>1 DEF KeyTypes, KeyWorkers
    <3> HIDE DEF h
    <3> QED BY <2>1, <3>1, <3>2, WorkerMoved DEF KeyTypes
  <2>3. /\ responder'[w].a = responder[w].a /\ responder'[w].pc = "copy" /\ responder'[w].thisY = activeY
        /\ \A v \in Responders \ {w} : responder'[v] = responder[v]
    BY <2>1 DEF KeyTypes, KeyWorkers
  <2>4. SingleRekey'
    BY <2>1, <2>3, SingleRekeyKept DEF RekeyStages
  <2>5. 1 - activeY # activeY
    BY DEF KeyTypes
  <2>6. PlacesMatched'
    <3>1. Matched(activeY)'
      BY <2>1, <2>3, <2>5 DEF PlacesMatched, WorkerMatched, Matched
    <3>2. WorkerMatched(w)'
      BY <2>1, <2>3, <2>5 DEF PlacesMatched, WorkerMatched, Matched
    <3>3. ASSUME NEW v \in Responders \ {w}
          PROVE  WorkerMatched(v)'
      <4>1. responder'[v] = responder[v] /\ WorkerMatched(v)
        BY <2>3 DEF PlacesMatched
      <4>2. responder[v].pc = "public" =>
              \A u \in Responders : responder'[u].pc \in {"copy", "prove"} => responder'[u].thisY # responder[v].next
        BY <2>3, <2>5, <4>1 DEF WorkerMatched
      <4>3. Accepted(v)' <=> Accepted(v)
        BY <2>1, <4>1, AcceptedKept
      <4> QED BY <2>1, <4>1, <4>2, <4>3 DEF WorkerMatched, Matched
    <3> QED BY <3>1, <3>2, <3>3 DEF PlacesMatched
  <2> QED BY <2>1, <2>2, <2>4, <2>6 DEF SignatureVerified
<1>7. ASSUME NEW w \in Responders, CopyY(w)
      PROVE  KeyInv'
  <2>1. /\ responder[w].pc = "copy"
        /\ responder' = [responder EXCEPT ![w].pc = "prove", ![w].Y = publicY[responder[w].thisY]]
        /\ UNCHANGED <<serverKey, ephemeral, publicY, activeY, challengeCount>> /\ signed' = Unsigned
    BY <1>7 DEF CopyY
  <2>2. KeyTypes'
    <3> DEFINE h == [responder[w] EXCEPT !.pc = "prove", !.Y = publicY[responder[w].thisY]]
    <3>1. h \in KeyWorkers
      BY DEF KeyTypes, KeyWorkers, KeyStages
    <3>2. responder' = [responder EXCEPT ![w] = h]
      BY <2>1 DEF KeyTypes, KeyWorkers
    <3> HIDE DEF h
    <3> QED BY <2>1, <3>1, <3>2, WorkerMoved DEF KeyTypes
  <2>3. /\ responder'[w].a = responder[w].a /\ responder'[w].pc = "prove"
        /\ responder'[w].thisY = responder[w].thisY /\ responder'[w].Y = publicY[responder[w].thisY]
        /\ \A v \in Responders \ {w} : responder'[v] = responder[v]
    BY <2>1 DEF KeyTypes, KeyWorkers
  <2>4. SingleRekey'
    BY <2>1, <2>3, SingleRekeyKept DEF RekeyStages
  <2>5. PlacesMatched'
    <3>1. Matched(activeY)'
      BY <2>1, <2>3 DEF PlacesMatched, WorkerMatched, Matched
    <3>2. WorkerMatched(w)'
      BY <2>1, <2>3 DEF PlacesMatched, WorkerMatched, Matched
    <3>3. ASSUME NEW v \in Responders \ {w}
          PROVE  WorkerMatched(v)'
      <4>1. responder'[v] = responder[v] /\ WorkerMatched(v)
        BY <2>3 DEF PlacesMatched
      <4>2. responder[v].pc = "public" =>
              \A u \in Responders : responder'[u].pc \in {"copy", "prove"} => responder'[u].thisY # responder[v].next
        <5> SUFFICES ASSUME responder[v].pc = "public", NEW u \in Responders,
                            responder'[u].pc \in {"copy", "prove"}
                     PROVE  responder'[u].thisY # responder[v].next
          OBVIOUS
        <5>1. responder[u].pc \in {"copy", "prove"} /\ responder'[u].thisY = responder[u].thisY
          BY <2>1, <2>3
        <5> QED BY <4>1, <5>1 DEF WorkerMatched
      <4>3. Accepted(v)' <=> Accepted(v)
        BY <2>1, <4>1, AcceptedKept
      <4> QED BY <2>1, <4>1, <4>2, <4>3 DEF WorkerMatched, Matched
    <3> QED BY <3>1, <3>2, <3>3 DEF PlacesMatched
  <2> QED BY <2>1, <2>2, <2>4, <2>5 DEF SignatureVerified
<1>8. ASSUME NEW w \in Responders, ProcessChallenge(w)
      PROVE  KeyInv'
  <2> DEFINE S(r) == HashS(ChallengeOf(w), responder[w].Y, r)
  <2>1. PICK r \in Randoms :
          /\ S(r) >= MinS
          /\ responder' = [responder EXCEPT ![w].pc = "answered", ![w].r = r,
                                            ![w].mac = AffineX(ResponderPoint(w, S(r)))]
    BY <1>8 DEF ProcessChallenge
  <2>2. /\ responder[w].pc = "prove"
        /\ UNCHANGED <<serverKey, ephemeral, publicY, activeY, challengeCount>> /\ signed' = Unsigned
    BY <1>8 DEF ProcessChallenge
  <2> DEFINE mac == AffineX(ResponderPoint(w, S(r)))
  <2>3. ProcessAnswer(responder[w].a, responder[w].Y, r, mac) /\ mac \in SUBSET Int /\ r \in Int
    BY <2>1, <2>2, AnswerAccepted, KeyAgreementAssumption DEF Scalars
  <2>4. responder' = [responder EXCEPT ![w].pc = "answered", ![w].r = r, ![w].mac = mac]
    BY <2>1
  <2> HIDE DEF mac
  <2>5. KeyTypes'
    <3> DEFINE h == [responder[w] EXCEPT !.pc = "answered", !.r = r, !.mac = mac]
    <3>1. h \in KeyWorkers
      BY <2>3 DEF KeyTypes, KeyWorkers, KeyStages
    <3>2. responder' = [responder EXCEPT ![w] = h]
      BY <2>4 DEF KeyTypes, KeyWorkers
    <3> HIDE DEF h
    <3> QED BY <2>2, <3>1, <3>2, WorkerMoved DEF KeyTypes
  <2>6. /\ responder'[w].a = responder[w].a /\ responder'[w].pc = "answered"
        /\ responder'[w].Y = responder[w].Y /\ responder'[w].r = r /\ responder'[w].mac = mac
        /\ \A v \in Responders \ {w} : responder'[v] = responder[v]
    BY <2>4 DEF KeyTypes, KeyWorkers
  <2>9. Accepted(w)'
    BY <2>2, <2>3, <2>6 DEF Accepted, ProcessAnswer, HashS, PublicB, InitiatorPoint
  <2>7. SingleRekey'
    BY <2>2, <2>6, SingleRekeyKept DEF RekeyStages
  <2>8. PlacesMatched'
    <3>1. Matched(activeY)'
      BY <2>2, <2>3, <2>6 DEF PlacesMatched, WorkerMatched, Matched
    <3>2. WorkerMatched(w)'
      BY <2>2, <2>3, <2>6, <2>9 DEF PlacesMatched, WorkerMatched, Matched
    <3>3. ASSUME NEW v \in Responders \ {w}
          PROVE  WorkerMatched(v)'
      BY <2>2, <2>3, <2>6, AcceptedKept DEF PlacesMatched, WorkerMatched, Matched
    <3> QED BY <3>1, <3>2, <3>3 DEF PlacesMatched
  <2> QED BY <2>2, <2>5, <2>7, <2>8 DEF SignatureVerified
<1>9. ASSUME NEW w \in Responders, Answered(w)
      PROVE  KeyInv'
  <2>1. /\ responder[w].pc = "answered" /\ responder' = [responder EXCEPT ![w] = KeyIdle]
        /\ UNCHANGED <<serverKey, ephemeral, publicY, activeY, challengeCount>> /\ signed' = Unsigned
    BY <1>9 DEF Answered
  <2>2. KeyTypes'
    BY <2>1 DEF KeyTypes, KeyWorkers, KeyStages, KeyIdle
  <2>3. responder'[w].pc = "idle" /\ \A v \in Responders \ {w} : responder'[v] = responder[v]
    BY <2>1 DEF KeyTypes, KeyWorkers, KeyIdle
  <2>4. SingleRekey'
    BY <2>1, <2>3, SingleRekeyKept DEF RekeyStages
  <2>5. PlacesMatched'
    <3>1. Matched(activeY)'
      BY <2>1, <2>3 DEF PlacesMatched, WorkerMatched, Matched
    <3>2. WorkerMatched(w)'
      BY <2>1, <2>3 DEF PlacesMatched, WorkerMatched, Matched
    <3>3. ASSUME NEW v \in Responders \ {w}
          PROVE  WorkerMatched(v)'
      BY <2>1, <2>3, AcceptedKept DEF PlacesMatched, WorkerMatched, Matched
    <3> QED BY <3>1, <3>2, <3>3 DEF PlacesMatched
  <2> QED BY <2>1, <2>2, <2>4, <2>5 DEF SignatureVerified
<1>10. ASSUME UNCHANGED <<serverKey, ephemeral, publicY, activeY, challengeCount, responder>>
       PROVE  KeyTypes' /\ SingleRekey' /\ PlacesMatched'
  <2>1. KeyTypes' /\ SingleRekey' /\ Matched(activeY)'
    BY <1>10 DEF KeyTypes, SingleRekey, PlacesMatched, Matched
  <2>2. ASSUME NEW v \in Responders
        PROVE  WorkerMatched(v)'
    BY <1>10, AcceptedKept DEF PlacesMatched, WorkerMatched, Matched
  <2> QED BY <2>1, <2>2 DEF PlacesMatched
<1>11. ASSUME Sign
       PROVE  KeyInv'
  <2>1. PICK m \in Messages : signed' \in Signature(serverKey, m, 0)
    BY <1>11 DEF Sign
  <2>2. m \in Int /\ serverKey \in GeneratedKeys /\ 0 \in Int
    BY KeyAgreementAssumption DEF KeyTypes
  <2>3. VerifySignature(signed')
    BY <2>1, <2>2, SignaturesVerified
  <2>4. SignatureVerified'
    BY <2>3 DEF SignatureVerified, VerifySignature
  <2> QED BY <1>10, <1>11, <2>4 DEF Sign
<1>12. ASSUME NEW w \in Responders, ProcessAnswerWithIdentity(w)
       PROVE  KeyInv'
  <2>1. PICK i \in GeneratedKeys, nonce \in Messages : signed' \in Signature(i, nonce, responder[w].r)
    BY <1>12 DEF ProcessAnswerWithIdentity
  <2>2. nonce \in Int /\ responder[w].r \in Int
    BY KeyAgreementAssumption DEF KeyTypes, KeyWorkers
  <2>3. VerifySignature(signed')
    BY <2>1, <2>2, SignaturesVerified
  <2>4. SignatureVerified'
    BY <2>3 DEF SignatureVerified, VerifySignature
  <2> QED BY <1>10, <1>12, <2>4 DEF ProcessAnswerWithIdentity
<1>13. ASSUME UNCHANGED keyVars
       PROVE  KeyInv'
  BY <1>10, <1>13 DEF keyVars, SignatureVerified, VerifySignature
<1> QED BY <1>1, <1>2, <1>3, <1>4, <1>5, <1>6, <1>7, <1>8, <1>9, <1>11, <1>12, <1>13 DEF KeyNext

LEMMA KeyInvAgrees ==
  ASSUME KeyInv
  PROVE  KeysAgree
<1>1. AnswersAccepted
  BY DEF KeyInv, PlacesMatched, WorkerMatched, Accepted, AnswersAccepted
<1> DEFINE R == {w \in Responders : responder[w].pc \in {"rekey", "public", "switch", "recount"}}
<1>2. OneRekeys
  <2>1. CASE challengeCount <= RekeyAt /\ \A v \in Responders : responder[v].pc \notin RekeyStages
    <3>1. R = {}
      BY <2>1 DEF RekeyStages
    <3>2. Cardinality(R) = 0
      BY <3>1, FS_EmptySet
    <3>3. ~(challengeCount > RekeyAt)
      BY <2>1, KeyAgreementAssumption DEF KeyInv, KeyTypes
    <3> QED BY <3>2, <3>3 DEF OneRekeys
  <2>2. ASSUME challengeCount > RekeyAt, NEW w \in Responders,
               \A v \in Responders : responder[v].pc \in RekeyStages <=> v = w
        PROVE  OneRekeys
    <3>1. R = {w}
      BY <2>2 DEF RekeyStages
    <3>2. Cardinality(R) = 1
      BY <3>1, FS_Singleton
    <3> QED BY <2>2, <3>2 DEF OneRekeys
  <2> QED BY <2>1, <2>2 DEF KeyInv, SingleRekey
<1> QED BY <1>1, <1>2 DEF KeysAgree, KeyInv

(* Every answer of the server is accepted by the initiator it is for and gives
   both ends one key, whatever workers answer and replace the ephemeral key
   meanwhile; past the limit exactly one worker replaces it; every signature
   and proof of identity is verified.  For any order of the curve, any key size
   and any number of workers, as long as none of them is so slow that its key
   is replaced twice before it is through (Prompt). *)
THEOREM KeysCorrect ==
  ASSUME Prompt
  PROVE  KeySpec => []KeysAgree
<1>1. KeyInit => KeyInv
  BY KeyInitial
<1>2. KeyInv /\ [KeyNext]_keyVars => KeyInv'
  BY KeyStep
<1>3. KeyInv => KeysAgree
  BY KeyInvAgrees
<1> QED BY <1>1, <1>2, <1>3, PTL DEF KeySpec

-----------------------------------------------------------------------------
(* The log *)

LogItems == [id : Nat, overflow : BOOLEAN]
Reading == {"swap", "output", "reset"}
LogTypes ==
  /\ list \in [Lists -> Seq(LogItems)] /\ list_writing \in Lists
  /\ reader \in [pc : {"none", "start", "wait", "woken", "check", "cleanup", "run", "ran", "dead"}
                        \cup Reading,
                 from : Lists, item : Nat]
  /\ runs \in 0 .. 2 /\ frontend \in {"setup", "direct", "thread"}
  /\ printed \in Seq(LogItems) /\ logged \in Seq(LogItems)
  /\ lost \in SUBSET Nat /\ IsFiniteSet(lost)
  /\ logger \in [Loggers -> {"idle", "start", "flag", "wake"}]

(* The thread is started once; it is in front from its start until it leaves. *)
StartedOnce ==
  /\ \A t, u \in Loggers : logger[t] = "start" /\ logger[u] = "start" => t = u
  /\ \A t \in Loggers : logger[t] = "start" => reader = NotStarted
  /\ frontend = "setup" => reader = NotStarted /\ \A t \in Loggers : logger[t] # "start"
  /\ reader.pc \in {"none", "start"} => frontend # "thread" /\ runs = 0
  /\ reader.pc \notin {"none", "start"} => frontend = (IF Leaving THEN "direct" ELSE "thread")

(* One of the lists is added to; the other is empty, or the thread writes it
   out.  Once the thread leaves, nothing is added, and its first run leaves
   nothing to the second. *)
ListsInTurn ==
  /\ reader.pc \notin {"output", "reset"} => list[1 - list_writing] = <<>>
  /\ reader.pc \in {"output", "reset"} => list_writing = 1 - reader.from
  /\ reader.pc = "swap" => list_writing = reader.from /\ reader.item = 1 /\ list[reader.from] # <<>>
  /\ reader.pc = "output" => reader.item \in 1 .. Len(list[reader.from])
  /\ reader.pc \in {"none", "start", "dead"} \/ runs = 1 \/ (runs = 2 /\ reader.pc \in {"ran"} \cup {"output", "reset"})
       => list[list_writing] = <<>>
  /\ runs > 0 => reader.pc \in {"run", "ran"} \cup Reading
  /\ runs = 1 => reader.pc \in {"run", "ran"}
  /\ reader.pc = "dead" => runs = 0

(* A full list ends with the message that says so. *)
Overflows ==
  /\ \A l \in Lists : /\ Len(list[l]) <= MaxListSize
                      /\ Len(list[l]) = MaxListSize => list[l][MaxListSize].overflow
  /\ \A n \in 1 .. Len(logged) : logged[n].id <= Len(logged) + Cardinality(lost)

LogInv == LogTypes /\ StartedOnce /\ ListsInTurn /\ Overflows /\ LogKept

(* What waits is the list that is added to, after what is left of the other. *)
UnprintedForm ==
  /\ Unprinted \in Seq(LogItems)
  /\ reader.pc # "output" => Unprinted = list[list_writing]
  /\ reader.pc = "output" =>
       Unprinted = SubSeq(list[reader.from], reader.item, Len(list[reader.from])) \o list[list_writing]

LEMMA UnprintedIs == LogTypes /\ ListsInTurn => UnprintedForm
<1> SUFFICES ASSUME LogTypes, ListsInTurn PROVE UnprintedForm
  OBVIOUS
<1> DEFINE f == reader.from
           l == list[f]
<1>0. /\ f \in Lists /\ 1 - f \in Lists /\ l \in Seq(LogItems) /\ Len(l) \in Nat
      /\ list[1 - f] \in Seq(LogItems) /\ list[list_writing] \in Seq(LogItems)
      /\ list_writing \in Lists
  BY DEF LogTypes, Lists
<1>1. CASE reader.pc \notin Reading
  <2>1. Unprinted = list[list_writing]
    BY <1>1 DEF Unprinted, Unwritten, Reading
  <2> QED BY <2>1, <1>0, <1>1 DEF UnprintedForm, Reading
<1>2. CASE reader.pc = "swap"
  <2>1. list_writing = f /\ reader.item = 1
    BY <1>2 DEF ListsInTurn
  <2>2. Unprinted = SubSeq(l, 1, Len(l))
    BY <1>2, <2>1 DEF Unprinted, Unwritten
  <2>3. SubSeq(l, 1, Len(l)) = l
    BY <1>0, SubSeqFull
  <2> QED BY <2>1, <2>2, <2>3, <1>0, <1>2 DEF UnprintedForm
<1>3. CASE reader.pc = "output"
  <2>1. list_writing = 1 - f /\ reader.item \in 1 .. Len(l) /\ 1 - f # f
    BY <1>3, <1>0 DEF ListsInTurn, Lists
  <2>2. Unprinted = SubSeq(l, reader.item, Len(l)) \o list[1 - f]
    BY <1>3, <2>1 DEF Unprinted, Unwritten
  <2>3. SubSeq(l, reader.item, Len(l)) \in Seq(LogItems)
    BY <2>1, <1>0, SubSeqProperties, ElementOfSeq
  <2>4. SubSeq(l, reader.item, Len(l)) \o list[1 - f] \in Seq(LogItems)
    BY <2>3, <1>0, ConcatProperties
  <2> QED BY <2>1, <2>2, <2>4, <1>3 DEF UnprintedForm
<1>4. CASE reader.pc = "reset"
  <2>1. list_writing = 1 - f /\ 1 - f # f
    BY <1>4, <1>0 DEF ListsInTurn, Lists
  <2>2. Unprinted = <<>> \o list[1 - f]
    BY <1>4, <2>1 DEF Unprinted, Unwritten
  <2>3. <<>> \o list[1 - f] = list[1 - f]
    BY <1>0, ConcatEmptySeq
  <2> QED BY <2>1, <2>2, <2>3, <1>0, <1>4 DEF UnprintedForm
<1> QED BY <1>1, <1>2, <1>3, <1>4 DEF Reading

LEMMA UnprintedIsNext == LogTypes' /\ ListsInTurn' => UnprintedForm'
<1>1. (LogTypes /\ ListsInTurn => UnprintedForm)'
  BY UnprintedIs, PTL
<1> QED BY <1>1

(* Sequences and what is in them. *)
LEMMA ItemsAppended ==
  ASSUME NEW s \in Seq(LogItems), NEW e \in LogItems
  PROVE  ItemsOf(Append(s, e)) = ItemsOf(s) \cup {e}
<1>1. Len(s) \in Nat /\ Len(Append(s, e)) = Len(s) + 1 /\ Append(s, e)[Len(s) + 1] = e
      /\ \A i \in 1 .. Len(s) : Append(s, e)[i] = s[i]
  BY AppendProperties
<1> QED BY <1>1 DEF ItemsOf

LEMMA ItemsJoined ==
  ASSUME NEW s \in Seq(LogItems), NEW u \in Seq(LogItems)
  PROVE  ItemsOf(s \o u) = ItemsOf(s) \cup ItemsOf(u)
<1> DEFINE m == Len(s)
           n == Len(u)
           w == s \o u
<1>1. m \in Nat /\ n \in Nat /\ Len(w) = m + n
  BY ConcatProperties, LenProperties
<1>2. \A i \in 1 .. m + n : w[i] = IF i <= m THEN s[i] ELSE u[i - m]
  BY ConcatProperties
<1>3. \A i \in 1 .. n : w[i + m] = u[i]
  BY <1>1, <1>2
<1>4. \A i \in 1 .. m : w[i] = s[i]
  BY <1>1, <1>2
<1> HIDE DEF m, n, w
<1>5. {w[i] : i \in 1 .. m + n} = {s[i] : i \in 1 .. m} \cup {u[i] : i \in 1 .. n}
  <2>1. ASSUME NEW i \in 1 .. m + n PROVE w[i] \in {s[j] : j \in 1 .. m} \cup {u[j] : j \in 1 .. n}
    <3>1. CASE i <= m
      BY <3>1, <1>1, <1>2
    <3>2. CASE ~(i <= m)
      BY <3>2, <1>1, <1>2, i - m \in 1 .. n
    <3> QED BY <3>1, <3>2
  <2>2. ASSUME NEW i \in 1 .. m PROVE s[i] \in {w[j] : j \in 1 .. m + n}
    BY <1>1, <1>4, i \in 1 .. m + n
  <2>3. ASSUME NEW i \in 1 .. n PROVE u[i] \in {w[j] : j \in 1 .. m + n}
    BY <1>1, <1>3, i + m \in 1 .. m + n
  <2> QED BY <2>1, <2>2, <2>3
<1> QED BY <1>1, <1>5 DEF ItemsOf, m, n, w

LEMMA AppendLast ==
  ASSUME NEW s \in Seq(LogItems), NEW u \in Seq(LogItems), NEW e \in LogItems
  PROVE  s \o Append(u, e) = Append(s \o u, e)
<1>1. <<e>> \in Seq(LogItems) /\ s \o u \in Seq(LogItems)
  BY ConcatProperties
<1>2. Append(u, e) = u \o <<e>> /\ Append(s \o u, e) = (s \o u) \o <<e>>
  BY <1>1, AppendIsConcat
<1> QED BY <1>1, <1>2, ConcatAssociative

LEMMA Joined ==
  ASSUME NEW a \in Seq(LogItems), NEW b \in Seq(LogItems), NEW c \in Seq(LogItems)
  PROVE  (a \o b) \o c = a \o (b \o c)
<1> DEFINE x == (a \o b) \o c
           y == a \o (b \o c)
<1>1. /\ Len(a) \in Nat /\ Len(b) \in Nat /\ Len(c) \in Nat
      /\ a \o b \in Seq(LogItems) /\ b \o c \in Seq(LogItems) /\ x \in Seq(LogItems) /\ y \in Seq(LogItems)
      /\ Len(x) = Len(a) + Len(b) + Len(c) /\ Len(y) = Len(a) + Len(b) + Len(c)
  BY ConcatProperties
<1>2. \A i \in 1 .. Len(x) : x[i] = y[i]
  OBVIOUS
<1> HIDE DEF x, y
<1>3. x = y
  BY <1>1, <1>2, SeqEqual
<1> QED BY <1>3 DEF x, y

(* One item of a list goes over to what is before it. *)
LEMMA FirstGoesOver ==
  ASSUME NEW s \in Seq(LogItems), NEW l \in Seq(LogItems), NEW u \in Seq(LogItems),
         NEW i \in 1 .. Len(l)
  PROVE  /\ l[i] \in LogItems
         /\ SubSeq(l, i + 1, Len(l)) \in Seq(LogItems)
         /\ SubSeq(l, i, Len(l)) \o u = <<l[i]>> \o (SubSeq(l, i + 1, Len(l)) \o u)
         /\ s \o (SubSeq(l, i, Len(l)) \o u) = Append(s, l[i]) \o (SubSeq(l, i + 1, Len(l)) \o u)
<1> DEFINE r == SubSeq(l, i + 1, Len(l))
           x == l[i]
<1>1. x \in LogItems /\ Len(l) \in Nat
  BY ElementOfSeq, LenProperties
<1>2. r \in Seq(LogItems)
  BY <1>1, SubSeqProperties, ElementOfSeq
<1>3. SubSeq(l, i, Len(l)) = <<x>> \o r
  BY <1>1, SubSeqRecursiveFirst, Len(l) \in i .. Len(l)
<1>4. <<x>> \in Seq(LogItems) /\ r \o u \in Seq(LogItems)
  BY <1>1, <1>2, ConcatProperties
<1> HIDE DEF r, x
<1>5. (<<x>> \o r) \o u = <<x>> \o (r \o u)
  <2> DEFINE z == <<x>>
  <2>1. z \in Seq(LogItems)
    BY <1>4
  <2> HIDE DEF z
  <2>2. (z \o r) \o u = z \o (r \o u)
    BY <1>2, <2>1, Joined
  <2> QED BY <2>2 DEF z
<1>6. s \o (<<x>> \o (r \o u)) = (s \o <<x>>) \o (r \o u)
  <2> DEFINE z == <<x>>
             g == r \o u
  <2>1. z \in Seq(LogItems) /\ g \in Seq(LogItems)
    BY <1>4
  <2> HIDE DEF z, g
  <2>3. (s \o z) \o g = s \o (z \o g)
    BY <2>1, Joined
  <2> QED BY <2>3 DEF z, g
<1>7. Append(s, x) = s \o <<x>>
  BY <1>1, AppendIsConcat
<1> QED BY <1>1, <1>2, <1>3, <1>5, <1>6, <1>7 DEF r, x

LEMMA LogStart == LogInit => LogInv
<1> SUFFICES ASSUME LogInit PROVE LogInv
  OBVIOUS
<1> USE LogAssumption DEF LogInit, NotStarted
<1>1. LogTypes
  <2>1. IsFiniteSet(lost)
    BY FS_EmptySet
  <2> QED BY <2>1 DEF LogTypes, Lists, Reading
<1>2. StartedOnce
  BY DEF StartedOnce
<1>3. ListsInTurn
  BY DEF ListsInTurn, Lists, Reading
<1>4. Overflows
  <2>1. Len(logged) = 0 /\ \A l \in Lists : Len(list[l]) = 0
    OBVIOUS
  <2> QED BY <2>1 DEF Overflows
<1>5. LogKept
  <2>1. Unprinted = <<>>
    BY <1>1, <1>3, UnprintedIs DEF UnprintedForm, Lists
  <2>2. ~Leaving
    BY DEF Leaving
  <2> QED BY <2>1, <2>2 DEF LogKept
<1> QED BY <1>1, <1>2, <1>3, <1>4, <1>5 DEF LogInv

(* A message has the next number. *)
LEMMA MessageIs ==
  ASSUME LogTypes
  PROVE  /\ Message \in LogItems /\ Message.id = Len(logged) + Cardinality(lost) + 1
         /\ Cardinality(lost) \in Nat /\ Len(logged) \in Nat
<1>1. Cardinality(lost) \in Nat /\ Len(logged) \in Nat
  BY FS_CardinalityType, LenProperties DEF LogTypes
<1> QED BY <1>1 DEF Message, LogItems

LEMMA NextNumber ==
  ASSUME LogTypes, Overflows, NEW m \in LogItems, m.id = Len(logged) + Cardinality(lost) + 1,
         logged' = Append(logged, m), lost' = lost
  PROVE  /\ logged' \in Seq(LogItems)
         /\ \A n \in 1 .. Len(logged') : logged'[n].id <= Len(logged') + Cardinality(lost')
         /\ \A n \in 1 .. Len(logged) : n \in 1 .. Len(logged') /\ logged'[n] = logged[n]
<1>0. Cardinality(lost) \in Nat /\ Len(logged) \in Nat
  BY MessageIs
<1>1. /\ Len(logged') = Len(logged) + 1 /\ logged'[Len(logged) + 1] = m
      /\ logged' \in Seq(LogItems)
      /\ \A n \in 1 .. Len(logged) : logged'[n] = logged[n] /\ logged[n] \in LogItems
  BY <1>0, AppendProperties, ElementOfSeq DEF LogTypes
<1>2. \A n \in 1 .. Len(logged) : logged[n].id \in Nat /\ logged[n].id <= Len(logged) + Cardinality(lost)
  BY <1>1 DEF Overflows, LogItems
<1> QED BY <1>0, <1>1, <1>2

(* A step that neither writes nor adds. *)
LEMMA KeptFrame ==
  ASSUME LogKept, UNCHANGED <<printed, logged, lost>>, Unprinted' = Unprinted,
         Leaving' <=> Leaving, reader'.pc = "dead" => reader.pc = "dead"
  PROVE  LogKept'
<1>1. /\ printed' = printed /\ logged' = logged /\ lost' = lost
      /\ Unprinted' = Unprinted /\ ItemsOf(printed)' = ItemsOf(printed)
      /\ ItemsOf(logged)' = ItemsOf(logged) /\ ItemsOf(Unprinted)' = ItemsOf(Unprinted)
  BY DEF ItemsOf
<1>2. CASE Leaving
  BY <1>1, <1>2 DEF LogKept
<1>3. CASE ~Leaving
  BY <1>1, <1>3 DEF LogKept
<1> QED BY <1>2, <1>3

(* A message straight to the backend: the thread is not there yet and nothing
   waits, or it leaves and the order no longer counts. *)
LEMMA DirectStep ==
  ASSUME LogInv, NEW t \in Loggers, InvokeFrontend(t),
         InvokeBackendAndSetupThreaded(t) \/ InvokeBackendAndUnlock(t)
  PROVE  LogInv'
<1>0. /\ LogTypes /\ StartedOnce /\ ListsInTurn /\ Overflows /\ LogKept
      /\ printed' = Append(printed, Message) /\ logged' = Append(logged, Message)
      /\ UNCHANGED <<list, lost, list_writing, flagged, wakeup, die, reader, runs>>
      /\ frontend # "thread"
  BY DEF LogInv, InvokeFrontend, InvokeBackendAndSetupThreaded, InvokeBackendAndUnlock, InvokeBackend
<1>1. /\ Message \in LogItems /\ Message.id = Len(logged) + Cardinality(lost) + 1
      /\ Cardinality(lost) \in Nat /\ Len(logged) \in Nat
  BY <1>0, MessageIs
<1>2. LogTypes'
  <2>1. printed' \in Seq(LogItems) /\ logged' \in Seq(LogItems)
    BY <1>0, <1>1, AppendProperties DEF LogTypes
  <2>2. /\ logger' \in [Loggers -> {"idle", "start", "flag", "wake"}]
        /\ frontend' = "direct"
    BY <1>0 DEF InvokeBackendAndSetupThreaded, InvokeBackendAndUnlock, LogTypes, LoggerGoes
  <2> QED BY <2>1, <2>2, <1>0 DEF LogTypes
<1>3. StartedOnce'
  <2>1. CASE InvokeBackendAndSetupThreaded(t)
    BY <2>1, <1>0 DEF InvokeBackendAndSetupThreaded, StartedOnce, LoggerGoes, LogTypes, Leaving, NotStarted
  <2>2. CASE InvokeBackendAndUnlock(t)
    BY <2>2, <1>0 DEF InvokeBackendAndUnlock, StartedOnce, Leaving, NotStarted
  <2> QED BY <2>1, <2>2
<1>4. ListsInTurn'
  BY <1>0 DEF ListsInTurn
<1>5. Overflows'
  <2>1. \A n \in 1 .. Len(logged') : logged'[n].id <= Len(logged') + Cardinality(lost')
    BY <1>0, <1>1, NextNumber
  <2> QED BY <2>1, <1>0 DEF Overflows
<1>6. Unprinted' = Unprinted /\ (Leaving' <=> Leaving) /\ Unprinted \in Seq(LogItems)
  BY <1>0, UnprintedIs DEF Unprinted, Unwritten, Leaving, UnprintedForm
<1>7. LogKept'
  <2>1. \A id \in lost' : \E n \in 1 .. Len(logged') : logged'[n].overflow /\ logged'[n].id < id
    <3> SUFFICES ASSUME NEW id \in lost
                 PROVE  \E n \in 1 .. Len(logged') : logged'[n].overflow /\ logged'[n].id < id
      BY <1>0
    <3>1. PICK n \in 1 .. Len(logged) : logged[n].overflow /\ logged[n].id < id
      BY <1>0 DEF LogKept
    <3>2. logged \in Seq(LogItems)
      BY <1>0 DEF LogTypes
    <3>3. Len(logged') = Len(logged) + 1 /\ logged'[n] = logged[n]
      BY <1>0, <1>1, <3>2, AppendProperties
    <3>4. n \in 1 .. Len(logged')
      BY <3>3, <1>1
    <3> QED BY <3>1, <3>3, <3>4
  <2>2. CASE Leaving
    <3>1. ItemsOf(printed') = ItemsOf(printed) \cup {Message} /\ ItemsOf(logged') = ItemsOf(logged) \cup {Message}
      BY <1>0, <1>1, ItemsAppended DEF LogTypes
    <3>2. ItemsOf(printed') \cup ItemsOf(Unprinted') = ItemsOf(logged')
      BY <3>1, <2>2, <1>0, <1>6 DEF LogKept
    <3>3. Len(printed') = Len(printed) + 1 /\ Len(logged') = Len(logged) + 1
          /\ Len(printed) \in Nat /\ Len(Unprinted) \in Nat
      BY <1>0, <1>1, <1>6, AppendProperties, LenProperties DEF LogTypes
    <3>4. Len(printed') + Len(Unprinted') = Len(logged')
      BY <3>3, <2>2, <1>0, <1>1, <1>6 DEF LogKept
    <3> QED BY <3>2, <3>4, <2>1, <2>2, <1>0, <1>6 DEF LogKept
  <2>3. CASE ~Leaving
    <3>1. reader.pc \in {"none", "start"}
      BY <2>3, <1>0 DEF StartedOnce
    <3>2. Unprinted = <<>>
      BY <3>1, <1>0, UnprintedIs DEF UnprintedForm, ListsInTurn
    <3>3. printed \o <<>> = printed /\ printed' \o <<>> = printed'
      BY <1>0, <1>2, ConcatEmptySeq DEF LogTypes
    <3>4. printed' \o Unprinted' = logged'
      BY <3>2, <3>3, <2>3, <1>0, <1>6 DEF LogKept
    <3> QED BY <3>4, <3>1, <2>1, <2>3, <1>0, <1>6 DEF LogKept
  <2> QED BY <2>2, <2>3
<1> QED BY <1>2, <1>3, <1>4, <1>5, <1>7 DEF LogInv

(* A message for the thread: it is refused, and the full list ends with one that
   says so, *)
LEMMA RefusedStep ==
  ASSUME LogInv, NEW t \in Loggers, InvokeFrontend(t), Write(t),
         Len(list[list_writing]) >= MaxListSize
  PROVE  LogInv'
<1> DEFINE w == list[list_writing]
           k == Len(logged) + Cardinality(lost) + 1
<1>0. /\ LogTypes /\ StartedOnce /\ ListsInTurn /\ Overflows /\ LogKept
      /\ lost' = lost \cup {k} /\ frontend = "thread"
      /\ UNCHANGED <<list, logged, logger, frontend, printed, list_writing, reader, runs>>
  <2>1. Marked(Message, Len(w)).id = k
    BY MessageIs DEF LogInv, Marked, LogItems
  <2> QED BY <2>1 DEF LogInv, InvokeFrontend, Write
<1>1. k \in Nat /\ Cardinality(lost) \in Nat /\ Len(logged) \in Nat
  BY <1>0, MessageIs
<1>2. IsFiniteSet(lost') /\ Cardinality(lost') \in Nat /\ Cardinality(lost') >= Cardinality(lost)
  <2>1. IsFiniteSet(lost)
    BY <1>0 DEF LogTypes
  <2>2. IsFiniteSet(lost \cup {k})
        /\ Cardinality(lost \cup {k}) = IF k \in lost THEN Cardinality(lost) ELSE Cardinality(lost) + 1
    BY <2>1, FS_AddElement
  <2> QED BY <2>2, <1>0, <1>1
<1>3. LogTypes'
  BY <1>0, <1>1, <1>2 DEF LogTypes
<1>4. StartedOnce' /\ ListsInTurn'
  BY <1>0 DEF StartedOnce, ListsInTurn, Leaving
<1>5. \A n \in 1 .. Len(logged) : logged[n].id \in Nat /\ logged[n].id <= Len(logged) + Cardinality(lost)
  <2>1. \A n \in 1 .. Len(logged) : logged[n] \in LogItems
    BY <1>0, ElementOfSeq DEF LogTypes
  <2> QED BY <2>1, <1>0 DEF Overflows, LogItems
<1>6. Overflows'
  BY <1>0, <1>1, <1>2, <1>5 DEF Overflows
<1>7. Unprinted' = Unprinted /\ (Leaving' <=> Leaving)
  BY <1>0 DEF Unprinted, Unwritten, Leaving
<1>8. \E n \in 1 .. Len(logged) : logged[n].overflow /\ logged[n].id < k
  <2>1. ~Leaving
    BY <1>0 DEF StartedOnce, Leaving
  <2>2. printed \o Unprinted = logged /\ Unprinted \in Seq(LogItems) /\ printed \in Seq(LogItems)
    BY <2>1, <1>0, UnprintedIs DEF LogKept, UnprintedForm, LogTypes
  <2>3. w \in Seq(LogItems) /\ Len(w) = MaxListSize /\ w[MaxListSize].overflow /\ Len(w) \in 1 .. Len(w)
    BY <1>0, LogAssumption DEF Overflows, LogTypes
  <2>4. Len(Unprinted) \in 1 .. Len(Unprinted) /\ Unprinted[Len(Unprinted)] = w[Len(w)]
    <3>1. CASE reader.pc # "output"
      BY <3>1, <2>3, <1>0, UnprintedIs DEF UnprintedForm
    <3>2. CASE reader.pc = "output"
      <4> DEFINE r == SubSeq(list[reader.from], reader.item, Len(list[reader.from]))
      <4>1. Unprinted = r \o w
        BY <3>2, <1>0, UnprintedIs DEF UnprintedForm
      <4>2. r \in Seq(LogItems) /\ Len(r) \in Nat
        <5>1. list[reader.from] \in Seq(LogItems) /\ reader.item \in 1 .. Len(list[reader.from])
          BY <3>2, <1>0 DEF LogTypes, ListsInTurn
        <5> QED BY <5>1, SubSeqProperties, ElementOfSeq, LenProperties
      <4> HIDE DEF r, w
      <4> QED BY <4>1, <4>2, <2>3, ConcatProperties
    <3> QED BY <3>1, <3>2
  <2>5. Len(logged) \in 1 .. Len(logged) /\ logged[Len(logged)] = Unprinted[Len(Unprinted)]
    <3> DEFINE u == Unprinted
    <3>1. Len(printed) \in Nat /\ Len(u) \in Nat
      BY <2>2, LenProperties
    <3>2. Len(printed \o u) = Len(printed) + Len(u)
          /\ \A i \in 1 .. Len(printed) + Len(u) :
               (printed \o u)[i] = IF i <= Len(printed) THEN printed[i] ELSE u[i - Len(printed)]
      BY <2>2, ConcatProperties
    <3> HIDE DEF u
    <3>3. Len(u) >= 1 /\ printed \o u = logged
      BY <2>2, <2>4, <3>1 DEF u
    <3>4. Len(logged) = Len(printed) + Len(u) /\ Len(logged) - Len(printed) = Len(u)
          /\ ~(Len(logged) <= Len(printed)) /\ Len(logged) \in 1 .. Len(printed) + Len(u)
      BY <3>1, <3>2, <3>3
    <3> QED BY <3>2, <3>3, <3>4 DEF u
  <2>6. logged[Len(logged)].overflow
    BY <2>3, <2>4, <2>5
  <2>7. logged[Len(logged)].id < k
    <3>1. logged[Len(logged)].id \in Nat /\ logged[Len(logged)].id <= Len(logged) + Cardinality(lost)
      BY <2>5, <1>5
    <3> QED BY <3>1, <1>1
  <2> HIDE DEF k
  <2> QED BY <2>5, <2>6, <2>7, Zenon
<1>9. LogKept'
  <2>1. \A id \in lost' : \E n \in 1 .. Len(logged') : logged'[n].overflow /\ logged'[n].id < id
    BY <1>0, <1>8 DEF LogKept
  <2>2. ItemsOf(printed)' = ItemsOf(printed) /\ ItemsOf(logged)' = ItemsOf(logged)
        /\ ItemsOf(Unprinted)' = ItemsOf(Unprinted)
    BY <1>0, <1>7 DEF ItemsOf
  <2>3. ~Leaving
    BY <1>0 DEF StartedOnce, Leaving
  <2> QED BY <2>1, <2>2, <2>3, <1>0, <1>7 DEF LogKept
<1> QED BY <1>3, <1>4, <1>6, <1>9 DEF LogInv

(* or it is added to the end of what waits. *)
LEMMA AddedStep ==
  ASSUME LogInv, NEW t \in Loggers, InvokeFrontend(t), Write(t),
         ~(Len(list[list_writing]) >= MaxListSize)
  PROVE  LogInv'
<1> DEFINE w == list[list_writing]
           m == Marked(Message, Len(w))
<1>0. /\ LogTypes /\ StartedOnce /\ ListsInTurn /\ Overflows /\ LogKept /\ frontend = "thread"
      /\ list' = [list EXCEPT ![list_writing] = Append(w, m)]
      /\ logged' = Append(logged, m) /\ logger' = [logger EXCEPT ![t] = "flag"]
      /\ UNCHANGED <<lost, frontend, printed, list_writing, reader, runs>>
  BY DEF LogInv, InvokeFrontend, Write, LoggerGoes
<1>1. /\ w \in Seq(LogItems) /\ Len(w) \in Nat /\ Len(w) < MaxListSize /\ list_writing \in Lists
      /\ MaxListSize \in Nat
  BY <1>0, LogAssumption DEF LogTypes
<1>2. /\ m \in LogItems /\ m.id = Len(logged) + Cardinality(lost) + 1
      /\ m.overflow = (Len(w) >= MaxListSize - 1)
  <2>1. Message \in LogItems /\ Message.id = Len(logged) + Cardinality(lost) + 1
    BY <1>0, MessageIs
  <2>2. (Len(w) >= MaxListSize - 1) \in BOOLEAN
    BY <1>1
  <2> QED BY <2>1, <2>2 DEF Marked, LogItems
<1> HIDE DEF m
<1>3. /\ Append(w, m) \in Seq(LogItems) /\ Len(Append(w, m)) = Len(w) + 1
      /\ Append(w, m)[Len(w) + 1] = m
  BY <1>1, <1>2, AppendProperties
<1>4. /\ list' \in [Lists -> Seq(LogItems)] /\ list'[list_writing] = Append(w, m)
      /\ \A l \in Lists : l # list_writing => list'[l] = list[l]
  BY <1>0, <1>1, <1>3 DEF LogTypes
<1>5. LogTypes'
  BY <1>0, <1>2, <1>4, NextNumber DEF LogTypes
<1>6. StartedOnce'
  BY <1>0 DEF StartedOnce, Leaving, LogTypes
<1>7. ~Leaving /\ reader.pc \notin {"none", "start"}
  BY <1>0 DEF StartedOnce, Leaving
<1>8. ListsInTurn'
  <2>1. reader.from \in Lists /\ 1 - list_writing \in Lists /\ 1 - list_writing # list_writing
    BY <1>0 DEF LogTypes, Lists
  <2>2. reader.pc \in {"output", "reset"} => list'[reader.from] = list[reader.from]
    BY <2>1, <1>0, <1>4 DEF ListsInTurn, Lists
  <2>3. Append(w, m) # <<>>
    BY <1>1, <1>2, AppendProperties
  <2> QED BY <2>1, <2>2, <2>3, <1>0, <1>4, <1>7 DEF ListsInTurn, Leaving, Reading
<1>9. Overflows'
  <2>1. ASSUME NEW l \in Lists
        PROVE  /\ Len(list'[l]) <= MaxListSize
               /\ Len(list'[l]) = MaxListSize => list'[l][MaxListSize].overflow
    <3>1. CASE l # list_writing
      BY <3>1, <1>0, <1>4 DEF Overflows
    <3>2. CASE l = list_writing
      <4> HIDE DEF w
      <4>1. list'[l] = Append(w, m)
        BY <3>2, <1>4
      <4>2. Len(w) + 1 = MaxListSize => m.overflow
        <5> SUFFICES ASSUME Len(w) + 1 = MaxListSize PROVE m.overflow
          OBVIOUS
        <5>1. Len(w) >= MaxListSize - 1
          BY <1>1
        <5> QED BY <5>1, <1>2, Zenon
      <4> QED BY <4>1, <4>2, <1>1, <1>3
    <3> QED BY <3>1, <3>2
  <2>2. \A n \in 1 .. Len(logged') : logged'[n].id <= Len(logged') + Cardinality(lost')
    BY <1>0, <1>2, NextNumber
  <2> QED BY <2>1, <2>2, <1>0 DEF Overflows
<1>10. LogKept'
  <2>1. Unprinted' = Append(Unprinted, m)
    <3>0. UnprintedForm /\ UnprintedForm'
      BY <1>0, <1>5, <1>8, UnprintedIs, UnprintedIsNext
    <3>1. CASE reader.pc # "output"
      BY <3>0, <3>1, <1>0, <1>4 DEF UnprintedForm
    <3>2. CASE reader.pc = "output"
      <4> DEFINE l == list[reader.from]
                 r == SubSeq(l, reader.item, Len(l))
      <4>1. reader.from \in Lists /\ reader.from # list_writing /\ l \in Seq(LogItems)
            /\ reader.item \in 1 .. Len(l)
        BY <3>2, <1>0 DEF ListsInTurn, LogTypes, Lists
      <4>2. r \in Seq(LogItems)
        BY <4>1, SubSeqProperties, ElementOfSeq, LenProperties
      <4>3. list'[reader.from] = l
        BY <4>1, <1>4
      <4>4. Unprinted = r \o w /\ Unprinted' = r \o Append(w, m)
        BY <4>3, <3>0, <3>2, <1>0, <1>4 DEF UnprintedForm
      <4> HIDE DEF r, w
      <4> QED BY <4>2, <4>4, <1>1, <1>2, AppendLast
    <3> QED BY <3>1, <3>2
  <2>2. printed' \o Unprinted' = logged'
    <3>1. Unprinted \in Seq(LogItems) /\ printed \in Seq(LogItems) /\ printed \o Unprinted = logged
      BY <1>0, <1>7, UnprintedIs DEF UnprintedForm, LogTypes, LogKept
    <3> QED BY <3>1, <2>1, <1>0, <1>2, AppendLast
  <2>3. \A id \in lost' : \E n \in 1 .. Len(logged') : logged'[n].overflow /\ logged'[n].id < id
    BY <1>0, <1>2, NextNumber DEF LogKept
  <2> QED BY <2>2, <2>3, <1>0, <1>7 DEF LogKept, Leaving
<1> QED BY <1>5, <1>6, <1>8, <1>9, <1>10 DEF LogInv

(* A step that leaves the lists alone and starts no output. *)
LEMMA ReaderMoves ==
  ASSUME LogInv, LogTypes', StartedOnce', ListsInTurn',
         UNCHANGED <<list, list_writing, printed, logged, lost>>,
         reader.pc = "output" => reader' = reader, reader'.pc = "output" => reader.pc = "output",
         Leaving' <=> Leaving
  PROVE  LogInv'
<1>1. Overflows'
  BY DEF LogInv, Overflows
<1>2. UnprintedForm /\ UnprintedForm'
  BY UnprintedIs, UnprintedIsNext DEF LogInv
<1>3. Unprinted' = Unprinted
  BY <1>2 DEF UnprintedForm
<1>4. reader'.pc = "dead" => Unprinted' = <<>>
  BY <1>2, ListsInTurn' DEF UnprintedForm, ListsInTurn
<1>5. LogKept'
  <2>1. /\ printed' = printed /\ logged' = logged /\ lost' = lost
        /\ ItemsOf(printed)' = ItemsOf(printed)
        /\ ItemsOf(logged)' = ItemsOf(logged) /\ ItemsOf(Unprinted)' = ItemsOf(Unprinted)
    BY <1>3 DEF ItemsOf
  <2>2. CASE Leaving
    BY <1>3, <1>4, <2>1, <2>2 DEF LogKept, LogInv
  <2>3. CASE ~Leaving
    BY <1>3, <1>4, <2>1, <2>3 DEF LogKept, LogInv
  <2> QED BY <2>2, <2>3
<1> QED BY <1>1, <1>5 DEF LogInv

LEMMA LoggerMoves ==
  ASSUME LogInv,
         \/ \E t \in Loggers : LoggerStep(t)
         \/ SetDie \/ WakeToDie
  PROVE  LogInv'
<1>0. LogTypes /\ StartedOnce /\ ListsInTurn
  BY DEF LogInv
<1>1. ASSUME NEW t \in Loggers, StartLogThread(t)
      PROVE  LogInv'
  <2>1. reader = NotStarted /\ frontend # "setup" /\ frontend # "thread" /\ runs = 0
    BY <1>0, <1>1 DEF StartedOnce, StartLogThread, NotStarted
  <2>2. reader' = [NotStarted EXCEPT !.pc = "start"]
    BY <2>1, <1>1 DEF StartLogThread, ReaderGoes
  <2>3. LogTypes'
    BY <2>2, <1>0, <1>1 DEF StartLogThread, LogTypes, NotStarted, Lists, LoggerGoes
  <2>4. StartedOnce'
    BY <2>1, <2>2, <1>0, <1>1 DEF StartLogThread, StartedOnce, NotStarted, LoggerGoes, LogTypes, Leaving
  <2>5. ListsInTurn'
    BY <2>1, <2>2, <1>0, <1>1 DEF StartLogThread, ListsInTurn, NotStarted, Reading
  <2>6. Leaving' <=> Leaving
    BY <2>1, <2>2, <1>1 DEF Leaving, StartLogThread, NotStarted
  <2> QED BY <2>1, <2>2, <2>3, <2>4, <2>5, <2>6, <1>1, ReaderMoves DEF StartLogThread, NotStarted
<1>2. ASSUME UNCHANGED <<frontend, list, list_writing, reader, runs, printed, logged, lost>>,
             \/ logger' = logger
             \/ \E t \in Loggers : logger' = [logger EXCEPT ![t] = "idle"] \/ logger' = [logger EXCEPT ![t] = "wake"]
      PROVE  LogInv'
  <2>1. LogTypes'
    BY <1>0, <1>2 DEF LogTypes
  <2>2. \A t \in Loggers : logger'[t] = "start" => logger[t] = "start"
    BY <1>0, <1>2 DEF LogTypes
  <2>3. StartedOnce'
    BY <2>2, <1>0, <1>2 DEF StartedOnce, Leaving
  <2>4. ListsInTurn' /\ (Leaving' <=> Leaving)
    BY <1>0, <1>2 DEF ListsInTurn, Leaving
  <2> QED BY <2>1, <2>3, <2>4, <1>2, ReaderMoves
<1>3. ASSUME NEW t \in Loggers, SetFlagged(t) \/ GiveSemaphore(t)
      PROVE  LogInv'
  BY <1>2, <1>3 DEF SetFlagged, GiveSemaphore, LoggerGoes
<1>4. CASE SetDie \/ WakeToDie
  BY <1>2, <1>4 DEF SetDie, WakeToDie
<1> QED BY <1>1, <1>3, <1>4 DEF LoggerStep

(* The thread outside of RunList(). *)
LEMMA WaitingMoves ==
  ASSUME LogInv, Entrypoint \/ WakeUp \/ Unflag \/ CheckDie
  PROVE  LogInv'
<1>0. LogTypes /\ StartedOnce /\ ListsInTurn
  BY DEF LogInv
<1>1. /\ reader.pc \in {"start", "wait", "woken", "check"}
      /\ reader'.pc \in {"wait", "woken", "check", "run", "cleanup"}
      /\ reader' = [reader EXCEPT !.pc = reader'.pc]
      /\ UNCHANGED <<list, list_writing, printed, logged, lost, logger, runs>>
  BY <1>0 DEF Entrypoint, WakeUp, Unflag, CheckDie, ReaderGoes, LogTypes
<1>2. runs = 0
  BY <1>0, <1>1 DEF ListsInTurn, LogTypes, Reading, StartedOnce
<1>3. frontend' = "thread" /\ ~Leaving /\ ~Leaving'
  BY <1>0, <1>1, <1>2 DEF Entrypoint, WakeUp, Unflag, CheckDie, StartedOnce, Leaving
<1>4. LogTypes'
  BY <1>0, <1>1, <1>3 DEF LogTypes
<1>5. \A t \in Loggers : logger[t] # "start"
  <2>1. reader.pc # "none"
    BY <1>1
  <2> QED BY <2>1, <1>0 DEF StartedOnce, NotStarted
<1>6. StartedOnce'
  BY <1>1, <1>3, <1>5 DEF StartedOnce
<1>7. ListsInTurn'
  BY <1>0, <1>1, <1>2 DEF ListsInTurn, Reading
<1> QED BY <1>1, <1>3, <1>4, <1>6, <1>7, ReaderMoves

(* It leaves: from now on the order does not count. *)
LEMMA CleanupStep ==
  ASSUME LogInv, Cleanup
  PROVE  LogInv'
<1>0. /\ LogTypes /\ StartedOnce /\ ListsInTurn /\ Overflows /\ LogKept
      /\ reader.pc = "cleanup" /\ frontend' = "direct" /\ runs' = 2
      /\ reader' = [reader EXCEPT !.pc = "run"]
      /\ UNCHANGED <<list, list_writing, logger, printed, logged, lost>>
  BY DEF LogInv, Cleanup, ReaderGoes, ResetFrontend
<1>1. ~Leaving /\ Leaving' /\ reader'.pc = "run"
  BY <1>0 DEF Leaving, ListsInTurn, LogTypes, Reading
<1>2. LogTypes'
  <2>1. runs' \in 0 .. 2 /\ frontend' \in {"setup", "direct", "thread"}
    BY <1>0
  <2> QED BY <2>1, <1>0, <1>1 DEF LogTypes
<1>3. StartedOnce'
  BY <1>0, <1>1 DEF StartedOnce, NotStarted
<1>4. ListsInTurn'
  BY <1>0, <1>1 DEF ListsInTurn, Reading
<1>5. Overflows'
  BY <1>0 DEF Overflows
<1>6. UnprintedForm /\ UnprintedForm'
  BY <1>0, <1>2, <1>4, UnprintedIs, UnprintedIsNext
<1>7. Unprinted' = Unprinted /\ Unprinted \in Seq(LogItems)
  BY <1>0, <1>1, <1>6 DEF UnprintedForm
<1>8. printed \o Unprinted = logged
  BY <1>0, <1>1 DEF LogKept
<1>9. ItemsOf(logged) = ItemsOf(printed) \cup ItemsOf(Unprinted) /\ Len(logged) = Len(printed) + Len(Unprinted)
  <2> DEFINE u == Unprinted
  <2>1. printed \in Seq(LogItems) /\ u \in Seq(LogItems) /\ printed \o u = logged
    BY <1>0, <1>7, <1>8 DEF LogTypes
  <2> HIDE DEF u
  <2>2. ItemsOf(printed \o u) = ItemsOf(printed) \cup ItemsOf(u)
    BY <2>1, ItemsJoined
  <2>3. Len(printed \o u) = Len(printed) + Len(u)
    BY <2>1, ConcatProperties
  <2> QED BY <2>1, <2>2, <2>3 DEF u
<1>10. ItemsOf(printed') = ItemsOf(printed) /\ ItemsOf(logged') = ItemsOf(logged)
       /\ ItemsOf(Unprinted') = ItemsOf(Unprinted)
  BY <1>0, <1>7
<1>11. LogKept'
  BY <1>0, <1>1, <1>7, <1>9, <1>10 DEF LogKept
<1> QED BY <1>2, <1>3, <1>4, <1>5, <1>11 DEF LogInv

(* RunList() *)
LEMMA RunListMoves ==
  ASSUME LogInv, LookAtList \/ AfterRun
  PROVE  LogInv'
<1>0. /\ LogTypes /\ StartedOnce /\ ListsInTurn
      /\ reader.pc \in {"run", "ran"}
      /\ UNCHANGED <<list, list_writing, printed, logged, lost, logger, frontend>>
  BY DEF LogInv, LookAtList, AfterRun
<1>1. \A t \in Loggers : logger[t] # "start"
  BY <1>0 DEF StartedOnce, NotStarted
<1>2. CASE LookAtList
  <2>1. \/ /\ list[list_writing] = <<>>
           /\ reader' = [pc |-> "ran", from |-> 0, item |-> 0]
        \/ /\ list[list_writing] # <<>>
           /\ reader' = [pc |-> "swap", from |-> list_writing, item |-> 1]
    BY <1>2 DEF LookAtList, RanList, NotStarted
  <2>2. runs' = runs /\ reader.pc = "run"
    BY <1>2 DEF LookAtList
  <2>3. LogTypes'
    BY <2>1, <2>2, <1>0 DEF LogTypes, Reading, Lists
  <2>4. StartedOnce'
    BY <2>1, <2>2, <1>0, <1>1 DEF StartedOnce, Leaving, NotStarted
  <2>5. ListsInTurn'
    BY <2>1, <2>2, <1>0 DEF ListsInTurn, Reading
  <2>6. (Leaving' <=> Leaving) /\ reader'.pc # "output"
    BY <2>1, <2>2 DEF Leaving
  <2> QED BY <2>2, <2>3, <2>4, <2>5, <2>6, <1>0, ReaderMoves
<1>3. CASE AfterRun
  <2>1. CASE runs > 0
    <3>1. /\ reader.pc = "ran" /\ runs' = runs - 1
          /\ reader' = [reader EXCEPT !.pc = IF runs = 1 THEN "dead" ELSE "run"]
      BY <1>3, <2>1 DEF AfterRun, ReaderGoes
    <3>2. runs \in {1, 2} /\ list[list_writing] = <<>>
      BY <2>1, <3>1, <1>0 DEF LogTypes, ListsInTurn
    <3>3. LogTypes'
      <4>1. runs' \in 0 .. 2
        BY <3>1, <3>2
      <4> QED BY <4>1, <3>1, <1>0 DEF LogTypes
    <3>4. Leaving /\ Leaving' /\ reader'.pc \in {"dead", "run"} /\ (reader'.pc = "dead" <=> runs = 1)
      BY <3>1, <3>2, <1>0 DEF Leaving, LogTypes
    <3>5. StartedOnce'
      BY <3>1, <3>4, <1>0, <1>1 DEF StartedOnce, NotStarted
    <3>6. ListsInTurn'
      BY <3>1, <3>2, <3>4, <1>0 DEF ListsInTurn, Reading
    <3> QED BY <3>1, <3>3, <3>4, <3>5, <3>6, <1>0, ReaderMoves
  <2>2. CASE ~(runs > 0)
    <3>1. /\ reader.pc = "ran" /\ runs' = runs
          /\ reader' = [reader EXCEPT !.pc = IF flagged THEN "check" ELSE "wait"]
      BY <1>3, <2>2 DEF AfterRun, ReaderGoes
    <3>2. runs = 0 /\ reader'.pc \in {"check", "wait"}
      BY <2>2, <3>1, <1>0 DEF LogTypes
    <3>3. LogTypes'
      BY <3>1, <3>2, <1>0 DEF LogTypes
    <3>4. ~Leaving /\ ~Leaving'
      BY <3>1, <3>2 DEF Leaving
    <3>5. StartedOnce'
      BY <3>1, <3>2, <3>4, <1>0, <1>1 DEF StartedOnce, NotStarted
    <3>6. ListsInTurn'
      BY <3>1, <3>2, <1>0 DEF ListsInTurn, Reading
    <3> QED BY <3>1, <3>2, <3>3, <3>4, <3>5, <3>6, <1>0, ReaderMoves
  <2> QED BY <2>1, <2>2
<1> QED BY <1>2, <1>3

(* The lists change roles: what waits is the same. *)
LEMMA SwapStep ==
  ASSUME LogInv, SwapLists
  PROVE  LogInv'
<1> DEFINE f == reader.from
           l == list[f]
<1>0. /\ LogTypes /\ StartedOnce /\ ListsInTurn /\ Overflows /\ LogKept
      /\ reader.pc = "swap" /\ list_writing' = 1 - f
      /\ reader' = [reader EXCEPT !.pc = "output"]
      /\ UNCHANGED <<list, printed, logged, lost, logger, frontend, runs>>
  BY DEF LogInv, SwapLists, Swapped, ReaderGoes
<1>1. /\ reader'.pc = "output" /\ reader'.from = f /\ reader'.item = 1
      /\ list_writing = f /\ list[1 - f] = <<>> /\ f \in Lists /\ 1 - f \in Lists
      /\ l \in Seq(LogItems) /\ l # <<>> /\ list' = list
  BY <1>0 DEF LogTypes, ListsInTurn, Lists
<1>2. Len(l) \in Nat /\ 1 \in 1 .. Len(l)
  BY <1>1, EmptySeq, LenProperties
<1>3. LogTypes'
  BY <1>0, <1>1 DEF LogTypes, Reading
<1>4. Leaving' <=> Leaving
  BY <1>0, <1>1 DEF Leaving
<1>5. StartedOnce'
  BY <1>0, <1>1, <1>4 DEF StartedOnce, NotStarted
<1>6. ListsInTurn'
  BY <1>0, <1>1, <1>2 DEF ListsInTurn, Reading
<1>7. Overflows'
  BY <1>0 DEF Overflows
<1>8. Unprinted' = Unprinted
  <2>1. UnprintedForm /\ UnprintedForm'
    BY <1>0, <1>3, <1>6, UnprintedIs, UnprintedIsNext
  <2>2. Unprinted = l
    BY <2>1, <1>0, <1>1 DEF UnprintedForm
  <2>3. Unprinted' = SubSeq(l, 1, Len(l)) \o <<>>
    BY <2>1, <1>0, <1>1 DEF UnprintedForm
  <2>4. SubSeq(l, 1, Len(l)) = l /\ l \o <<>> = l
    BY <1>1, SubSeqFull, ConcatEmptySeq
  <2> QED BY <2>2, <2>3, <2>4
<1>9. LogKept'
  BY <1>0, <1>1, <1>4, <1>8, KeptFrame
<1> QED BY <1>3, <1>5, <1>6, <1>7, <1>9 DEF LogInv

(* An item goes from what waits to what is written. *)
LEMMA OutputStep ==
  ASSUME LogInv, OutputItem
  PROVE  LogInv'
<1> DEFINE f == reader.from
           i == reader.item
           l == list[f]
           w == list[list_writing]
           r == SubSeq(l, i + 1, Len(l)) \o w
<1>0. /\ LogTypes /\ StartedOnce /\ ListsInTurn /\ Overflows /\ LogKept
      /\ reader.pc = "output" /\ printed' = Append(printed, l[i])
      /\ UNCHANGED <<list, list_writing, logged, lost, logger, frontend, runs>>
  BY DEF LogInv, OutputItem
<1>1. /\ f \in Lists /\ l \in Seq(LogItems) /\ i \in 1 .. Len(l) /\ list_writing = 1 - f
      /\ w \in Seq(LogItems) /\ printed \in Seq(LogItems) /\ Len(l) \in Nat
  BY <1>0 DEF LogTypes, ListsInTurn, Lists
<1>2. \/ i = Len(l) /\ reader' = [reader EXCEPT !.pc = "reset"]
      \/ i # Len(l) /\ reader' = [reader EXCEPT !.item = i + 1]
  BY DEF OutputItem, ReaderGoes
<1>3. /\ l[i] \in LogItems
      /\ SubSeq(l, i + 1, Len(l)) \in Seq(LogItems)
      /\ SubSeq(l, i, Len(l)) \o w = <<l[i]>> \o r
      /\ printed \o (SubSeq(l, i, Len(l)) \o w) = Append(printed, l[i]) \o r
  <2> HIDE DEF f, i, l, w
  <2> QED BY <1>1, FirstGoesOver
<1>4. r \in Seq(LogItems) /\ <<l[i]>> \in Seq(LogItems)
  <2>1. l[i] \in LogItems
    BY <1>3
  <2> HIDE DEF l, i
  <2> QED BY <1>1, <1>3, <2>1, ConcatProperties
<1>5. LogTypes'
  <2>1. printed' \in Seq(LogItems)
    BY <1>0, <1>1, <1>3, AppendProperties
  <2>2. reader' \in [pc : {"output", "reset"}, from : Lists, item : Nat]
    <3>1. reader \in [pc : {"output"}, from : Lists, item : Nat] /\ i + 1 \in Nat
      BY <1>0, <1>1 DEF LogTypes
    <3> QED BY <3>1, <1>2
  <2> QED BY <2>1, <2>2, <1>0 DEF LogTypes, Reading
<1>6. reader'.pc \in {"output", "reset"} /\ reader'.from = f /\ (Leaving' <=> Leaving)
      /\ (reader'.pc = "output" => reader'.item = i + 1 /\ i + 1 \in 1 .. Len(l))
      /\ (reader'.pc = "reset" => i = Len(l))
  BY <1>0, <1>1, <1>2 DEF LogTypes, Leaving
<1>7. StartedOnce'
  BY <1>0, <1>6 DEF StartedOnce, NotStarted
<1>8. ListsInTurn'
  BY <1>0, <1>1, <1>6 DEF ListsInTurn, Reading
<1>9. Overflows'
  BY <1>0 DEF Overflows
<1>10. Unprinted = <<l[i]>> \o r /\ printed \o Unprinted = Append(printed, l[i]) \o r
  <2>1. Unprinted = SubSeq(l, i, Len(l)) \o w
    BY <1>0, UnprintedIs DEF UnprintedForm
  <2> QED BY <2>1, <1>3
<1>11. Unprinted' = r
  <2>1. UnprintedForm'
    BY <1>5, <1>8, UnprintedIsNext
  <2>2. CASE reader'.pc = "output"
    BY <2>1, <2>2, <1>0, <1>6 DEF UnprintedForm
  <2>3. CASE reader'.pc = "reset"
    <3>1. SubSeq(l, i + 1, Len(l)) = <<>>
      BY <2>3, <1>1, <1>6, SubSeqEmpty
    <3>2. <<>> \o w = w
      BY <1>1, ConcatEmptySeq
    <3> QED BY <2>1, <2>3, <3>1, <3>2, <1>0, <1>6 DEF UnprintedForm
  <2> QED BY <2>2, <2>3, <1>6
<1>12. LogKept'
  <2> DEFINE x == l[i]
  <2>0. x \in LogItems /\ <<x>> \in Seq(LogItems)
    BY <1>3, <1>4
  <2> HIDE DEF r, x
  <2>1. CASE Leaving
    <3>1. ItemsOf(<<x>> \o r) = ItemsOf(<<x>>) \cup ItemsOf(r) /\ Len(<<x>> \o r) = 1 + Len(r)
      <4> DEFINE z == <<x>>
      <4>1. z \in Seq(LogItems) /\ Len(z) = 1
        BY <2>0
      <4> HIDE DEF z
      <4>2. ItemsOf(z \o r) = ItemsOf(z) \cup ItemsOf(r) /\ Len(z \o r) = Len(z) + Len(r)
        BY <4>1, <1>4, ItemsJoined, ConcatProperties
      <4> QED BY <4>1, <4>2 DEF z
    <3>2. ItemsOf(<<x>>) = {x}
      BY DEF ItemsOf
    <3>3. ItemsOf(printed') = ItemsOf(printed) \cup {x} /\ Len(printed') = Len(printed) + 1
          /\ Len(printed) \in Nat /\ Len(r) \in Nat
      BY <2>0, <1>0, <1>1, <1>4, ItemsAppended, AppendProperties, LenProperties DEF x
    <3>4. ItemsOf(printed) \cup ItemsOf(Unprinted) = ItemsOf(logged)
          /\ Len(printed) + Len(Unprinted) = Len(logged)
      BY <2>1, <1>0 DEF LogKept
    <3>5. Unprinted = <<x>> \o r
      BY <1>10 DEF x
    <3>6. ItemsOf(printed') \cup ItemsOf(Unprinted') = ItemsOf(logged')
      BY <3>1, <3>2, <3>3, <3>4, <3>5, <1>0, <1>11
    <3>7. Len(printed') + Len(Unprinted') = Len(logged')
      BY <3>1, <3>3, <3>4, <3>5, <1>0, <1>11
    <3> QED BY <3>6, <3>7, <2>1, <1>0, <1>6 DEF LogKept
  <2>2. CASE ~Leaving
    BY <2>2, <1>0, <1>6, <1>10, <1>11 DEF LogKept, x
  <2> QED BY <2>1, <2>2
<1> QED BY <1>5, <1>7, <1>8, <1>9, <1>12 DEF LogInv

LEMMA ResetStep ==
  ASSUME LogInv, ResetSize
  PROVE  LogInv'
<1> DEFINE f == reader.from
<1>0. /\ LogTypes /\ StartedOnce /\ ListsInTurn /\ Overflows /\ LogKept
      /\ reader.pc = "reset" /\ list' = [list EXCEPT ![f] = <<>>]
      /\ reader' = [pc |-> "ran", from |-> 0, item |-> 0]
      /\ UNCHANGED <<list_writing, printed, logged, lost, logger, frontend, runs>>
  BY DEF LogInv, ResetSize, RanList, NotStarted
<1>1. /\ f \in Lists /\ list_writing = 1 - f /\ 1 - list_writing = f /\ 1 - f \in Lists /\ 1 - f # f
      /\ list'[f] = <<>> /\ list'[list_writing] = list[list_writing]
      /\ \A g \in Lists : g # f => list'[g] = list[g]
  BY <1>0 DEF LogTypes, ListsInTurn, Lists
<1>2. LogTypes'
  <2>1. list' \in [Lists -> Seq(LogItems)]
    BY <1>0, <1>1 DEF LogTypes
  <2> QED BY <2>1, <1>0 DEF LogTypes, Lists
<1>3. Leaving' <=> Leaving
  BY <1>0 DEF Leaving
<1>4. StartedOnce'
  BY <1>0, <1>3 DEF StartedOnce, NotStarted
<1>5. ListsInTurn'
  BY <1>0, <1>1 DEF ListsInTurn, Reading
<1>6. Overflows'
  <2>1. Len(list'[f]) = 0 /\ MaxListSize \in Nat \ {0}
    BY <1>1, LogAssumption
  <2> QED BY <2>1, <1>0, <1>1 DEF Overflows
<1>7. Unprinted' = Unprinted
  <2>1. UnprintedForm /\ UnprintedForm'
    BY <1>0, <1>2, <1>5, UnprintedIs, UnprintedIsNext
  <2> QED BY <2>1, <1>0, <1>1 DEF UnprintedForm
<1>8. LogKept'
  BY <1>0, <1>3, <1>7, KeptFrame
<1> QED BY <1>2, <1>4, <1>5, <1>6, <1>8 DEF LogInv

(* Every accepted message is written once and in the order of acceptance, and
   none is refused unannounced: for any number of threads that log and any
   size of the lists. *)
THEOREM LogCorrect == LogSpec => []LogKept
<1>1. LogInv /\ [LogNext]_logVars => LogInv'
  <2> SUFFICES ASSUME LogInv, [LogNext]_logVars PROVE LogInv'
    OBVIOUS
  <2>1. ASSUME NEW t \in Loggers, InvokeFrontend(t) PROVE LogInv'
    BY <2>1, DirectStep, RefusedStep, AddedStep DEF InvokeFrontend
  <2>2. CASE (\E t \in Loggers : LoggerStep(t)) \/ SetDie \/ WakeToDie
    BY <2>2, LoggerMoves
  <2>3. CASE ReaderStep
    BY <2>3, WaitingMoves, CleanupStep, RunListMoves, SwapStep, OutputStep, ResetStep DEF ReaderStep
  <2>4. CASE UNCHANGED logVars
    <3>1. UNCHANGED <<list, list_writing, printed, logged, lost, logger, frontend, runs, reader>>
      BY <2>4 DEF logVars
    <3>2. LogTypes' /\ StartedOnce' /\ ListsInTurn' /\ (Leaving' <=> Leaving)
      BY <3>1 DEF LogInv, LogTypes, StartedOnce, ListsInTurn, Leaving
    <3> QED BY <3>1, <3>2, ReaderMoves
  <2> QED BY <2>1, <2>2, <2>3, <2>4 DEF LogNext
<1>2. LogInv => LogKept
  BY DEF LogInv
<1> QED BY <1>1, <1>2, LogStart, PTL DEF LogSpec

-----------------------------------------------------------------------------
(* The file reader *)

(* The bytes of the file from an offset on, as a half holds them, and the bytes
   that were copied: those in front of a place in the file. *)
Content(from) == [n \in 1 .. HalfSize |-> IF from + n <= file_size THEN from + n ELSE Junk]
UpTo(k) == [n \in 1 .. k |-> n]

(* The front half begins two halves before the disk's offset, the back one after it. *)
FrontFrom == disk_offset - 2 * HalfSize
BackFrom == disk_offset - HalfSize

ReaderTypes ==
  /\ file_size \in Nat /\ disk_offset \in Nat /\ disk_offset >= 2 * HalfSize
  /\ front_index \in Halves /\ half \in [Halves -> [1 .. HalfSize -> Int]]
  /\ disk_read.pc \in {"first", "front", "back", "ready", "again", "bytes", "flag", "none"}
  /\ disk_read = [pc |-> disk_read.pc, from |-> disk_read.from, halves |-> disk_read.halves]

(* The first read: nothing is copied before it is done. *)
FirstRead ==
  disk_read.pc \in {"first", "front", "back", "ready"} =>
    /\ ~front_done /\ front_index = 0 /\ disk_offset = 2 * HalfSize
    /\ disk_read.from = 0 /\ disk_read.halves = Halves
    /\ disk_read.pc # "first" => half[0] = Content(0) /\ half[1] = Content(HalfSize)
    /\ disk_read.pc \in {"back", "ready"} => back_done /\ front_bytes = Available(0, HalfSize)
    /\ disk_read.pc = "ready" => back_bytes = Available(HalfSize, HalfSize)

(* A later one: the disk has the back half alone, and Read() does not look at it
   before its bytes are there and counted. *)
LaterRead ==
  disk_read.pc \in {"again", "bytes", "flag", "none"} =>
    /\ front_done /\ half[front_index] = Content(FrontFrom)
    /\ front_bytes = Available(FrontFrom, HalfSize)
    /\ disk_read.pc # "none" => /\ disk_read.from = BackFrom
                                /\ disk_read.halves = {1 - front_index} /\ ~back_done
    /\ disk_read.pc # "again" => half[1 - front_index] = Content(BackFrom)
    /\ disk_read.pc \in {"flag", "none"} => back_bytes = Available(BackFrom, HalfSize)
    /\ disk_read.pc = "none" => back_done

(* Everything before the front half was copied, and of it what was read. *)
CopiedSoFar ==
  /\ FrontFrom <= file_size
  /\ IF front_done THEN cache_offset \in 0 .. front_bytes ELSE cache_offset = 0
  /\ copied = UpTo(FrontFrom + cache_offset)
  /\ eof => FrontFrom + cache_offset = file_size

FileInv == ReaderTypes /\ FirstRead /\ LaterRead /\ CopiedSoFar

LEMMA AvailableIs ==
  ASSUME file_size \in Nat, NEW from \in Nat, NEW n \in Nat
  PROVE  /\ Available(from, n) \in 0 .. n
         /\ from <= file_size => from + Available(from, n) <= file_size
         /\ (from <= file_size /\ Available(from, n) < n) => from + Available(from, n) = file_size
         /\ Available(from, n) # 0 => from < file_size
         /\ from + n <= file_size => Available(from, n) = n
  BY DEF Available, Smaller

LEMMA UpToIs ==
  ASSUME NEW k \in Nat
  PROVE  UpTo(k) \in Seq(Nat) /\ Len(UpTo(k)) = k /\ \A i \in 1 .. k : UpTo(k)[i] = i
  BY DEF UpTo

(* What is copied next goes on where the last copy ended. *)
LEMMA CopyOn ==
  ASSUME file_size \in Nat, NEW from \in Nat, NEW at \in Nat, NEW n \in Nat,
         at + n <= HalfSize, from + at + n <= file_size \/ n = 0
  PROVE  UpTo(from + at) \o SubSeq(Content(from), at + 1, at + n) = UpTo((from + at) + n)
<1> DEFINE k == from + at
           c == Content(from)
           t == SubSeq(c, at + 1, at + n)
           x == UpTo(k) \o t
<1>0. HalfSize \in Nat /\ k \in Nat /\ k + n \in Nat
  BY FileAssumption
<1>1. \A i \in at + 1 .. at + n : c[i] = from + i /\ c[i] \in Nat
  BY <1>0 DEF Content
<1> HIDE DEF c
<1>2. /\ t \in Seq(Nat) /\ Len(t) = n
      /\ \A i \in 1 .. n : t[i] = c[at + i]
  <2>1. at + 1 \in Int /\ at + n \in Int /\ (at + n) - (at + 1) + 1 = n
        /\ \A i \in 1 .. n : (at + 1) + i - 1 = at + i
    OBVIOUS
  <2>2. /\ t \in Seq(Nat) /\ Len(t) = IF at + 1 <= at + n THEN (at + n) - (at + 1) + 1 ELSE 0
        /\ \A i \in 1 .. (at + n) - (at + 1) + 1 : t[i] = c[(at + 1) + i - 1]
    BY <1>1, <2>1, SubSeqProperties
  <2> QED BY <2>1, <2>2
<1> HIDE DEF t
<1>3. \A i \in 1 .. n : t[i] = k + i
  <2> SUFFICES ASSUME NEW i \in 1 .. n PROVE t[i] = k + i
    OBVIOUS
  <2>1. at + i \in at + 1 .. at + n
    OBVIOUS
  <2>2. c[at + i] = from + (at + i)
    BY <2>1, <1>1
  <2> QED BY <2>2, <1>2
<1>4. UpTo(k) \in Seq(Nat) /\ Len(UpTo(k)) = k /\ \A i \in 1 .. k : UpTo(k)[i] = i
  BY <1>0, UpToIs
<1>5. UpTo(k + n) \in Seq(Nat) /\ Len(UpTo(k + n)) = k + n /\ \A i \in 1 .. k + n : UpTo(k + n)[i] = i
  BY <1>0, UpToIs
<1> HIDE DEF k
<1>6. /\ x \in Seq(Nat) /\ Len(x) = k + n
      /\ \A i \in 1 .. k + n : x[i] = IF i <= k THEN UpTo(k)[i] ELSE t[i - k]
  <2> DEFINE u == UpTo(k)
  <2> HIDE DEF u
  <2>1. u \in Seq(Nat) /\ Len(u) = k /\ x = u \o t
    BY <1>4 DEF u
  <2>2. /\ u \o t \in Seq(Nat) /\ Len(u \o t) = Len(u) + Len(t)
        /\ \A i \in 1 .. Len(u) + Len(t) : (u \o t)[i] = IF i <= Len(u) THEN u[i] ELSE t[i - Len(u)]
    BY <1>2, <2>1, ConcatProperties
  <2> QED BY <1>2, <2>1, <2>2 DEF u
<1>7. \A i \in 1 .. k + n : x[i] = i
  <2> SUFFICES ASSUME NEW i \in 1 .. k + n PROVE x[i] = i
    OBVIOUS
  <2>1. CASE i <= k
    BY <2>1, <1>0, <1>4, <1>6
  <2>2. CASE ~(i <= k)
    <3>1. i - k \in 1 .. n /\ k + (i - k) = i
      BY <2>2, <1>0
    <3> QED BY <2>2, <3>1, <1>3, <1>6
  <2> QED BY <2>1, <2>2
<1> HIDE DEF x
<1>8. x = UpTo(k + n)
  BY <1>5, <1>6, <1>7, SeqEqual
<1> QED BY <1>8 DEF x, k, t, c

LEMMA FileStart == ASSUME FrontFlag \subseteq {FALSE} PROVE FileInit => FileInv
<1> SUFFICES ASSUME FileInit PROVE FileInv
  OBVIOUS
<1>1. HalfSize \in Nat /\ file_size \in Nat /\ front_done = FALSE
  BY FileAssumption DEF FileInit
<1>2. ReaderTypes /\ FirstRead /\ LaterRead
  BY <1>1 DEF FileInit, ReaderTypes, FirstRead, LaterRead, Halves, Junks, Junk
<1>3. CopiedSoFar
  <2>1. UpTo(0) = << >>
    BY UpToIs
  <2> QED BY <1>1, <2>1 DEF FileInit, CopiedSoFar, FrontFrom
<1> QED BY <1>2, <1>3 DEF FileInv

(* A completion: what was copied, and the places of the halves, are left alone. *)
LEMMA CompletionStep ==
  ASSUME FileInv, \/ DiskDone \/ OnFirstReadFront \/ OnFirstReadBack \/ OnFirstReadDone
                  \/ OnReadBytes \/ OnReadFlag
  PROVE  FileInv'
<1>0. /\ HalfSize \in Nat /\ HalfSize # 0 /\ ReaderTypes /\ FirstRead /\ LaterRead /\ CopiedSoFar
      /\ FrontFrom \in Nat /\ BackFrom \in Nat /\ BackFrom = FrontFrom + HalfSize
  BY FileAssumption DEF FileInv, ReaderTypes, FrontFrom, BackFrom
<1>1. /\ UNCHANGED <<file_size, disk_offset, front_index, cache_offset, copied, eof>>
      /\ FrontFrom' = FrontFrom /\ BackFrom' = BackFrom
      /\ \A from : Content(from)' = Content(from)
      /\ \A from, n : Available(from, n)' = Available(from, n)
  BY DEF DiskDone, OnFirstReadFront, OnFirstReadBack, OnFirstReadDone, OnReadBytes, OnReadFlag,
         FrontFrom, BackFrom, Content, Available
<1>2. /\ disk_read' = [pc |-> disk_read'.pc, from |-> disk_read'.from, halves |-> disk_read'.halves]
      /\ disk_read'.pc \in {"front", "back", "ready", "bytes", "flag", "none"}
      /\ disk_read'.pc # "none" => disk_read'.from = disk_read.from /\ disk_read'.halves = disk_read.halves
  BY <1>0 DEF DiskDone, OnFirstReadFront, OnFirstReadBack, OnFirstReadDone, OnReadBytes, OnReadFlag,
         ReaderTypes, NoDiskRead
<1>3. CASE DiskDone /\ disk_read.pc = "first"
  <2>1. /\ half' = [h \in Halves |-> Content(h * HalfSize)] /\ disk_read'.pc = "front"
        /\ UNCHANGED <<front_bytes, front_done, back_bytes, back_done>>
    <3>1. disk_read.from = 0 /\ disk_read.halves = Halves
      BY <1>0, <1>3 DEF FirstRead
    <3>2. \A h \in Halves : Filled(h) = Content(h * HalfSize)
      BY <1>0, <1>3, <3>1 DEF Filled, Content, Halves
    <3>3. disk_read'.pc = "front"
      BY <1>0, <1>3 DEF DiskDone, ReaderTypes
    <3> QED BY <1>3, <3>1, <3>2, <3>3 DEF DiskDone
  <2>2. half'[0] = Content(0) /\ half'[1] = Content(HalfSize)
        /\ half' \in [Halves -> [1 .. HalfSize -> Int]]
    BY <1>0, <2>1 DEF Halves, Content, Junk, ReaderTypes
  <2>3. ReaderTypes' /\ FirstRead' /\ LaterRead'
    BY <1>0, <1>1, <1>2, <1>3, <2>1, <2>2 DEF ReaderTypes, FirstRead, LaterRead
  <2>4. CopiedSoFar'
    BY <1>0, <1>1, <2>1 DEF CopiedSoFar, UpTo
  <2> QED BY <2>3, <2>4 DEF FileInv
<1>4. CASE DiskDone /\ disk_read.pc # "first"
  <2>1. /\ disk_read.pc = "again" /\ disk_read'.pc = "bytes"
        /\ half' = [half EXCEPT ![1 - front_index] = Content(BackFrom)]
        /\ UNCHANGED <<front_bytes, front_done, back_bytes, back_done>>
    <3>0. disk_read.pc = "again"
      BY <1>4 DEF DiskDone
    <3>1. disk_read.from = BackFrom /\ disk_read.halves = {1 - front_index}
      BY <1>0, <3>0 DEF LaterRead
    <3>2. \A h \in Halves : Filled(h) = Content(BackFrom)
      BY <1>0, <3>0, <3>1 DEF Filled, Content
    <3>3. disk_read'.pc = "bytes"
      BY <1>0, <1>4, <3>0 DEF DiskDone, ReaderTypes
    <3>4. half' = [half EXCEPT ![1 - front_index] = Content(BackFrom)]
      BY <1>0, <1>4, <3>1, <3>2 DEF DiskDone, ReaderTypes
    <3> QED BY <1>4, <3>0, <3>3, <3>4 DEF DiskDone
  <2>2. /\ half'[front_index] = half[front_index] /\ half'[1 - front_index] = Content(BackFrom)
        /\ half' \in [Halves -> [1 .. HalfSize -> Int]]
    BY <1>0, <2>1 DEF Halves, Content, Junk, ReaderTypes
  <2>3. ReaderTypes' /\ FirstRead' /\ LaterRead'
    BY <1>0, <1>1, <1>2, <1>4, <2>1, <2>2 DEF ReaderTypes, FirstRead, LaterRead
  <2>4. CopiedSoFar'
    BY <1>0, <1>1, <2>1 DEF CopiedSoFar, UpTo
  <2> QED BY <2>3, <2>4 DEF FileInv
<1>5. CASE OnFirstReadFront \/ OnFirstReadBack
  <2>1. ReaderTypes' /\ FirstRead' /\ LaterRead'
    BY <1>0, <1>1, <1>2, <1>5 DEF ReaderTypes, FirstRead, LaterRead, OnFirstReadFront, OnFirstReadBack
  <2>2. CopiedSoFar'
    BY <1>0, <1>1, <1>5 DEF CopiedSoFar, FirstRead, UpTo, OnFirstReadFront, OnFirstReadBack
  <2> QED BY <2>1, <2>2 DEF FileInv
<1>6. CASE OnFirstReadDone
  <2>1. disk_read'.pc = "none" /\ FrontFrom = 0 /\ BackFrom = HalfSize /\ 1 - front_index = 1
        /\ front_done' = TRUE /\ UNCHANGED <<half, front_bytes, back_bytes, back_done>>
    BY <1>0, <1>6 DEF OnFirstReadDone, FirstRead, NoDiskRead, FrontFrom, BackFrom
  <2>2. ReaderTypes' /\ FirstRead' /\ LaterRead'
    BY <1>0, <1>1, <1>2, <1>6, <2>1 DEF ReaderTypes, FirstRead, LaterRead, OnFirstReadDone
  <2>3. front_bytes \in Nat /\ cache_offset = 0
    <3>1. front_bytes = Available(0, HalfSize) /\ ~front_done
      BY <1>0, <1>6 DEF OnFirstReadDone, FirstRead
    <3>2. Available(0, HalfSize) \in 0 .. HalfSize
      BY <1>0, AvailableIs DEF ReaderTypes
    <3> QED BY <1>0, <3>1, <3>2 DEF CopiedSoFar
  <2>4. CopiedSoFar'
    BY <1>0, <1>1, <2>1, <2>3 DEF CopiedSoFar, UpTo
  <2> QED BY <2>2, <2>4 DEF FileInv
<1>7. CASE OnReadBytes \/ OnReadFlag
  <2>1. ReaderTypes' /\ FirstRead' /\ LaterRead'
    BY <1>0, <1>1, <1>2, <1>7 DEF ReaderTypes, FirstRead, LaterRead, OnReadBytes, OnReadFlag, NoDiskRead
  <2>2. CopiedSoFar'
    BY <1>0, <1>1, <1>7 DEF CopiedSoFar, LaterRead, UpTo, OnReadBytes, OnReadFlag
  <2> QED BY <2>1, <2>2 DEF FileInv
<1> QED BY <1>3, <1>4, <1>5, <1>6, <1>7

(* What is known when Read() copies. *)
LEMMA ReadingFront ==
  ASSUME FileInv, front_done
  PROVE  /\ HalfSize \in Nat /\ HalfSize # 0 /\ file_size \in Nat
         /\ FrontFrom \in Nat /\ BackFrom \in Nat /\ BackFrom = FrontFrom + HalfSize
         /\ half[front_index] = Content(FrontFrom) /\ front_bytes \in 0 .. HalfSize
         /\ cache_offset \in 0 .. front_bytes
         /\ FrontFrom + front_bytes <= file_size
         /\ front_bytes < HalfSize => FrontFrom + front_bytes = file_size
         /\ copied = UpTo(FrontFrom + cache_offset)
         /\ disk_read.pc \in {"again", "bytes", "flag", "none"}
<1>1. /\ HalfSize \in Nat /\ HalfSize # 0 /\ file_size \in Nat
      /\ FrontFrom \in Nat /\ BackFrom \in Nat /\ BackFrom = FrontFrom + HalfSize
  BY FileAssumption DEF FileInv, ReaderTypes, FrontFrom, BackFrom
<1>2. disk_read.pc \in {"again", "bytes", "flag", "none"}
  BY DEF FileInv, ReaderTypes, FirstRead
<1>3. front_bytes = Available(FrontFrom, HalfSize) /\ half[front_index] = Content(FrontFrom)
  BY <1>2 DEF FileInv, LaterRead
<1>4. FrontFrom <= file_size /\ cache_offset \in 0 .. front_bytes /\ copied = UpTo(FrontFrom + cache_offset)
  BY DEF FileInv, CopiedSoFar
<1> QED BY <1>1, <1>2, <1>3, <1>4, AvailableIs

(* Bytes of the front half are copied; *)
LEMMA CopyStep ==
  ASSUME FileInv, front_done, NEW n \in Nat, cache_offset + n <= front_bytes, Copy(n),
         UNCHANGED <<file_size, half, disk_offset, front_index, front_bytes, front_done, back_bytes,
                     back_done, disk_read>>,
         eof' => FrontFrom + (cache_offset + n) = file_size
  PROVE  FileInv'
<1>1. ReaderTypes' /\ FirstRead' /\ LaterRead'
  <2>1. /\ FrontFrom' = FrontFrom /\ BackFrom' = BackFrom
        /\ \A from : Content(from)' = Content(from)
        /\ \A from, k : Available(from, k)' = Available(from, k)
    BY DEF FrontFrom, BackFrom, Content, Available
  <2> QED BY <2>1 DEF FileInv, ReaderTypes, FirstRead, LaterRead
<1>2. copied' = UpTo((FrontFrom + cache_offset) + n)
  <2>1. /\ FrontFrom \in Nat /\ cache_offset \in Nat /\ file_size \in Nat
        /\ cache_offset + n <= HalfSize /\ (FrontFrom + cache_offset) + n <= file_size
    BY ReadingFront
  <2>2. UpTo(FrontFrom + cache_offset) \o SubSeq(Content(FrontFrom), cache_offset + 1, cache_offset + n)
          = UpTo((FrontFrom + cache_offset) + n)
    BY <2>1, CopyOn
  <2> QED BY <2>2, ReadingFront DEF Copy
<1>3. (FrontFrom + cache_offset) + n = FrontFrom + (cache_offset + n) /\ cache_offset + n \in 0 .. front_bytes
  BY ReadingFront
<1>4. CopiedSoFar'
  <2>1. FrontFrom' = FrontFrom /\ cache_offset' = cache_offset + n /\ FrontFrom <= file_size
    BY DEF FrontFrom, Copy, FileInv, CopiedSoFar
  <2> QED BY <1>2, <1>3, <2>1 DEF CopiedSoFar, UpTo
<1> QED BY <1>1, <1>4 DEF FileInv

LEMMA ReadFrontStep ==
  ASSUME FileInv, NEW requested \in Requests, ReadFront(requested) \/ ReadEnd(requested)
  PROVE  FileInv'
<1>0. front_done /\ ~eof /\ requested \in Nat
  BY FileAssumption DEF ReadFront, ReadEnd
<1>1. CASE ReadFront(requested)
  <2> DEFINE n == Smaller(front_bytes - cache_offset, requested)
  <2>1. n \in Nat /\ cache_offset + n <= front_bytes
    BY <1>0, ReadingFront DEF Smaller
  <2>2. Copy(n) /\ ~eof'
        /\ UNCHANGED <<file_size, half, disk_offset, front_index, front_bytes, front_done, back_bytes,
                       back_done, disk_read>>
    BY <1>0, <1>1 DEF ReadFront
  <2> HIDE DEF n
  <2> QED BY <1>0, <2>1, <2>2, CopyStep
<1>2. CASE ReadEnd(requested)
  <2> DEFINE n == front_bytes - cache_offset
  <2>1. n \in Nat /\ cache_offset + n = front_bytes
    BY <1>0, ReadingFront
  <2>2. Copy(n)
        /\ UNCHANGED <<file_size, half, disk_offset, front_index, front_bytes, front_done, back_bytes,
                       back_done, disk_read>>
    BY <1>2 DEF ReadEnd
  <2>3. FrontFrom + front_bytes = file_size
    <3>1. back_bytes = 0 /\ back_done
      BY <1>2 DEF ReadEnd, BackReady
    <3>2. disk_read.pc = "none" /\ back_bytes = Available(BackFrom, HalfSize)
      BY <1>0, <3>1, ReadingFront DEF FileInv, LaterRead
    <3>3. file_size <= BackFrom
      BY <1>0, <3>1, <3>2, ReadingFront DEF Available, Smaller
    <3> QED BY <1>0, <3>3, ReadingFront
  <2> HIDE DEF n
  <2>4. FrontFrom + (cache_offset + n) = file_size /\ cache_offset + n <= front_bytes
    BY <1>0, <2>1, <2>3, ReadingFront
  <2> QED BY <1>0, <2>1, <2>2, <2>4, CopyStep
<1> QED BY <1>1, <1>2

(* or the rest of it, and the halves change places: there are bytes in the back
   half only if the front one was full. *)
LEMMA ReadSwapStep ==
  ASSUME FileInv, NEW requested \in Requests, ReadSwap(requested)
  PROVE  FileInv'
<1>0. front_done /\ ~eof /\ back_done /\ back_bytes # 0
  BY DEF ReadSwap, BackReady
<1>1. disk_read.pc = "none" /\ back_bytes = Available(BackFrom, HalfSize)
      /\ half[1 - front_index] = Content(BackFrom)
  BY <1>0, ReadingFront DEF FileInv, LaterRead
<1>2. BackFrom < file_size /\ back_bytes \in 0 .. HalfSize /\ front_bytes = HalfSize
  <2>1. BackFrom < file_size /\ back_bytes \in 0 .. HalfSize
    BY <1>0, <1>1, ReadingFront, AvailableIs
  <2> QED BY <1>0, <2>1, ReadingFront
<1>3. /\ front_index \in Halves /\ front_index' = 1 - front_index /\ 1 - front_index' = front_index
      /\ front_index # 1 - front_index /\ 1 - front_index \in Halves
      /\ half \in [Halves -> [1 .. HalfSize -> Int]]
      /\ half' = [half EXCEPT ![front_index] = Junks]
      /\ disk_offset \in Nat /\ disk_offset >= 2 * HalfSize /\ disk_offset' = disk_offset + HalfSize
  BY DEF ReadSwap, GivenToDisk, FileInv, ReaderTypes, Halves
<1>4. FrontFrom' = BackFrom /\ BackFrom' = disk_offset
  <2>1. HalfSize \in Nat
    BY FileAssumption
  <2> QED BY <1>3, <2>1 DEF FrontFrom, BackFrom
<1>5. /\ file_size' = file_size /\ \A from : Content(from)' = Content(from)
      /\ \A from, n : Available(from, n)' = Available(from, n)
  BY DEF ReadSwap, Content, Available
<1>6. half'[front_index'] = Content(BackFrom) /\ half' \in [Halves -> [1 .. HalfSize -> Int]]
  <2>1. Junks \in [1 .. HalfSize -> Int]
    BY DEF Junks, Junk
  <2> QED BY <1>1, <1>3, <2>1
<1>7. /\ disk_read' = [pc |-> "again", from |-> disk_offset, halves |-> {front_index}]
      /\ front_bytes' = back_bytes /\ cache_offset' = 0 /\ ~back_done' /\ front_done' /\ ~eof'
  BY <1>0 DEF ReadSwap, GivenToDisk
<1>8. ReaderTypes' /\ FirstRead' /\ LaterRead'
  <2>1. ReaderTypes'
    <3>1. HalfSize \in Nat /\ file_size \in Nat
      BY FileAssumption DEF FileInv, ReaderTypes
    <3>2. disk_offset' \in Nat /\ disk_offset' >= 2 * HalfSize
      BY <1>3, <3>1
    <3> QED BY <1>3, <1>5, <1>6, <1>7, <3>1, <3>2 DEF ReaderTypes
  <2>2. FirstRead' /\ LaterRead'
    BY <1>1, <1>3, <1>4, <1>5, <1>6, <1>7 DEF FirstRead, LaterRead
  <2> QED BY <2>1, <2>2
<1>9. copied' = UpTo(BackFrom)
  <2> DEFINE n == front_bytes - cache_offset
  <2>1. n \in Nat /\ cache_offset + n = front_bytes /\ cache_offset \in Nat
        /\ (FrontFrom + cache_offset) + n = BackFrom
    BY <1>0, <1>2, ReadingFront
  <2>2. copied' = copied \o SubSeq(half[front_index], cache_offset + 1, cache_offset + n)
    BY <2>1 DEF ReadSwap
  <2> HIDE DEF n
  <2>3. cache_offset + n <= HalfSize /\ (FrontFrom + cache_offset) + n <= file_size
    BY <1>0, <1>2, <2>1, ReadingFront
  <2>4. UpTo(FrontFrom + cache_offset) \o SubSeq(Content(FrontFrom), cache_offset + 1, cache_offset + n)
          = UpTo((FrontFrom + cache_offset) + n)
    <3>1. FrontFrom \in Nat /\ file_size \in Nat
      BY <1>0, ReadingFront
    <3> QED BY <2>1, <2>3, <3>1, CopyOn
  <2> QED BY <1>0, <2>1, <2>2, <2>4, ReadingFront
<1>10. CopiedSoFar'
  <2>1. BackFrom + 0 = BackFrom /\ 0 \in 0 .. back_bytes /\ BackFrom <= file_size
    BY <1>0, <1>2, ReadingFront
  <2> QED BY <1>4, <1>5, <1>7, <1>9, <2>1 DEF CopiedSoFar, UpTo
<1> QED BY <1>8, <1>10 DEF FileInv

(* Read() copies the bytes of the file in their order, none twice, none skipped
   and none that the disk has still to write, however the completions on another
   thread fall between its turns; when it says that the end was found, all was
   copied: for any size of the file and of the buffers and any requests, when the
   flag of the front half is clear as the file is opened (PolledFileReader.cpp). *)
THEOREM FileCorrect ==
  ASSUME FrontFlag \subseteq {FALSE}
  PROVE  FileSpec => []ReadInOrder
<1>1. FileInv /\ [FileNext]_fileVars => FileInv'
  <2> SUFFICES ASSUME FileInv, [FileNext]_fileVars PROVE FileInv'
    OBVIOUS
  <2>1. CASE FileNext
    <3>1. CASE \E n \in Requests : ReadFront(n) \/ ReadEnd(n) \/ ReadSwap(n)
      BY <3>1, ReadFrontStep, ReadSwapStep
    <3> QED BY <2>1, <3>1, CompletionStep DEF FileNext
  <2>2. CASE UNCHANGED fileVars
    BY <2>2 DEF fileVars, FileInv, ReaderTypes, FirstRead, LaterRead, CopiedSoFar, FrontFrom, BackFrom,
                Content, Available, UpTo
  <2> QED BY <2>1, <2>2
<1>2. FileInv => ReadInOrder
  <2> SUFFICES ASSUME FileInv PROVE ReadInOrder
    OBVIOUS
  <2>1. file_size \in Nat /\ FrontFrom + cache_offset \in Nat /\ FrontFrom + cache_offset <= file_size
    <3>1. CASE front_done
      BY <3>1, ReadingFront
    <3>2. CASE ~front_done
      BY <3>2, FileAssumption DEF FileInv, ReaderTypes, CopiedSoFar, FrontFrom
    <3> QED BY <3>1, <3>2
  <2> DEFINE k == FrontFrom + cache_offset
  <2>2. copied = UpTo(k) /\ (eof => k = file_size)
    BY DEF FileInv, CopiedSoFar
  <2> HIDE DEF k
  <2>3. k \in Nat /\ k <= file_size
    BY <2>1 DEF k
  <2>4. Len(copied) = k
    BY <2>2, <2>3, UpToIs
  <2> QED BY <2>2, <2>3, <2>4 DEF ReadInOrder, UpTo
<1> QED BY <1>1, <1>2, FileStart, PTL DEF FileSpec
=============================================================================

------------------------------ MODULE CookieJar ------------------------------
(***************************************************************************)
(* The cookies of the handshake (src/src/crypt/cookie/CookieJar.cpp).  The  *)
(* server keeps no list of them: a cookie is the low bits of the epoch it   *)
(* was made in and a keyed hash over the client's address and the epoch.    *)
(* The model keeps the address and the epoch where the code keeps the hash. *)
(***************************************************************************)
EXTENDS Integers

CONSTANTS BinCount,    \* BIN_COUNT, a power of 2
          Epochs,      \* epochs until the 32-bit millisecond clock wraps
          EpochWord,   \* 2^32: the width of the epoch arithmetic
          FirstEpoch,  \* the epoch at the start
          LastTime,    \* bound on the epochs that pass
          CookieAddrs  \* client addresses

ASSUME CookieAssumption ==
  /\ BinCount \in Nat \ {0} /\ Epochs \in Nat \ {0} /\ EpochWord \in Nat
  /\ EpochWord >= Epochs + BinCount /\ LastTime \in 0 .. Epochs - 1
  /\ FirstEpoch \in 0 .. Epochs - 1

VARIABLES jarTime, cookies
jarVars == <<jarTime, cookies>>

JarInit == jarTime = 0 /\ cookies = {}

GetEpoch == (FirstEpoch + jarTime) % Epochs
Bin(e) == e % BinCount

\* Mutant: a bin past the current one is taken for this interval's.
ReconstructEpochAhead(bin) == GetEpoch - Bin(GetEpoch) + bin

(* The epoch of this interval with the cookie's bin, or the one before it. *)
ReconstructEpoch(bin) ==
  LET e == GetEpoch - Bin(GetEpoch) + bin IN
  IF bin > Bin(GetEpoch) THEN (e - BinCount) % EpochWord ELSE e

CookieTime == /\ jarTime < LastTime
              /\ jarTime' = jarTime + 1
              /\ UNCHANGED cookies

(* Cookies are independent of each other: the model follows the last one. *)
Generate(a) ==
  /\ cookies' = {[addr |-> a, epoch |-> GetEpoch, bin |-> Bin(GetEpoch),
                   made |-> jarTime]}
  /\ UNCHANGED jarTime

Verify(a, c) == c.addr = a /\ ReconstructEpoch(c.bin) = c.epoch

JarNext == CookieTime \/ \E a \in CookieAddrs : Generate(a)
JarSpec == JarInit /\ [][JarNext]_jarVars

(* A cookie is good for the address it was made for, exactly while fewer than
   BinCount bins have passed: an expired one is never taken for a new one of
   the same bin, and a fresh one is refused only across a wrap of the clock. *)
CookiesExpire ==
  \A c \in cookies, a \in CookieAddrs :
    LET young == c.addr = a /\ jarTime - c.made < BinCount IN
    /\ Verify(a, c) => young
    /\ young /\ c.epoch <= GetEpoch => Verify(a, c)
=============================================================================

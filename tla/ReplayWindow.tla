----------------------------- MODULE ReplayWindow -----------------------------
(***************************************************************************)
(* The IVs of the datagrams of one direction of a tunnel and the sliding   *)
(* window that keeps a datagram from being accepted twice                  *)
(* (AuthenticatedEncryption).                                              *)
(*                                                                         *)
(* Several threads encrypt: each grabs a range of IVs under a lock and     *)
(* uses it up one datagram at a time.  The network keeps every datagram    *)
(* and offers it in any order, any number of times.  Decrypt() runs on one *)
(* thread.  The MAC, keyed with the IV, holds only for the IV the datagram *)
(* was encrypted with (external).                                          *)
(***************************************************************************)
EXTENDS BitMath, FiniteSets

CONSTANTS Threads,       \* threads that encrypt
          MaxRange,      \* bound: IVs grabbed at once
          FirstIv,       \* initial IV, derived from the session key
          MaxIv,         \* bound: last IV
          WordBits,      \* bits of a word of iv_bitmap, 64
          Words,         \* BITMAP_WORDS
          IvMod,         \* IV_MSB: range of the truncated IV
          ShiftByWidth   \* what x >> 64 may give: {TRUE} for x, {FALSE} for 0

Bits == WordBits * Words  \* BITMAP_BITS

ASSUME WindowAssumption ==
    /\ WordBits \in Nat \ {0} /\ Words \in Nat \ {0}
    /\ IvMod \in Nat \ {0} /\ IvMod % 2 = 0
    /\ FirstIv \in Nat /\ MaxIv \in Nat /\ MaxRange \in Nat
    /\ ShiftByWidth \subseteq BOOLEAN

VARIABLES
    localIv,    \* local_iv of the sender
    range,      \* the IVs each thread has still to use, from and up to
    sent,       \* how often each IV was used to encrypt a datagram
    remoteIv,   \* remote_iv of the receiver
    bitmap,     \* iv_bitmap: the bits set in each word
    inOrder,    \* ~_accept_out_of_order
    accepted    \* history: how often the datagram of each IV was accepted

senderVars == <<localIv, range, sent>>
vars == <<senderVars, remoteIv, bitmap, inOrder, accepted>>

Ivs == FirstIv .. MaxIv

------------------------------------------------------------------------------
(***************************************************************************)
(* Sender                                                                  *)
(***************************************************************************)

\* Mutant: the last IV of the range is given out again.
GrabIVRangeShort(t, n) ==
    /\ range[t].from = range[t].to
    /\ localIv + n - 1 <= MaxIv
    /\ range' = [range EXCEPT ![t] = [from |-> localIv, to |-> localIv + n]]
    /\ localIv' = localIv + n - 1
    /\ UNCHANGED <<sent, remoteIv, bitmap, inOrder, accepted>>

\* A thread takes the next n IVs, under _local_iv_lock.
GrabIVRange(t, n) ==
    /\ range[t].from = range[t].to
    /\ localIv + n - 1 <= MaxIv
    /\ range' = [range EXCEPT ![t] = [from |-> localIv, to |-> localIv + n]]
    /\ localIv' = localIv + n
    /\ UNCHANGED <<sent, remoteIv, bitmap, inOrder, accepted>>

\* The thread encrypts its next datagram with the next IV of its range.
Encrypt(t) ==
    /\ range[t].from < range[t].to
    /\ sent' = [sent EXCEPT ![range[t].from] = @ + 1]
    /\ range' = [range EXCEPT ![t].from = @ + 1]
    /\ UNCHANGED <<localIv, remoteIv, bitmap, inOrder, accepted>>

------------------------------------------------------------------------------
(***************************************************************************)
(* Receiver                                                                *)
(***************************************************************************)

\* The bit that stands for the IV d before the newest one.
Marked(map, d) == (d % WordBits) \in map[d \div WordBits]

\* Mutant: an IV too old for the window is let through.
IsValidIVAnyAge(iv) ==
    LET delta == remoteIv - iv
    IN  delta >= 0 => /\ ~inOrder
                      /\ delta < Bits => ~Marked(bitmap, delta)

\* Newer than everything so far, or in the window and not seen.
IsValidIV(iv) ==
    LET delta == remoteIv - iv
    IN  delta >= 0 => /\ ~inOrder
                      /\ delta < Bits
                      /\ ~Marked(bitmap, delta)

ShiftLeft(word, n) == {p \in 0 .. (WordBits - 1) : p - n \in word}

\* x >> n; a shift by the whole width is undefined in C.
ShiftRight(word, n, wraps) ==
    IF n < WordBits THEN {p \in 0 .. (WordBits - 1) : p + n \in word}
    ELSE IF wraps THEN word ELSE {}

\* Mutant: the bits that cross a word boundary are lost.
ShiftedNoCarry(map, delta, wraps) ==
    LET w == delta \div WordBits
        b == delta % WordBits
    IN  [i \in 0 .. (Words - 1) |->
           (IF i >= w THEN ShiftLeft(map[i-w], b) ELSE {}) \union (IF i = 0 THEN {0} ELSE {})]

\* The window moved on by delta, with the bit of the newest IV set.
Shifted(map, delta, wraps) ==
    LET w == delta \div WordBits
        b == delta % WordBits
    IN  [i \in 0 .. (Words - 1) |->
           (IF i >= w THEN ShiftLeft(map[i-w], b) ELSE {})
           \union (IF i > w THEN ShiftRight(map[i-w-1], WordBits - b, wraps) ELSE {})
           \union (IF i = 0 THEN {0} ELSE {})]

\* Mutant: the bits of the IVs left behind are not cleared.
RestartedKept == [bitmap EXCEPT ![0] = @ \union {0}]

\* The window with nothing but the newest IV.
Restarted == [i \in 0 .. (Words - 1) |-> IF i = 0 THEN {0} ELSE {}]

\* Mutant: the bit is not reduced to its place in the word.
WithBitUnmasked(map, d) == [map EXCEPT ![d \div WordBits] = @ \union {d}]

\* The window with the bit of an older IV set.
WithBit(map, d) == [map EXCEPT ![d \div WordBits] = @ \union {d % WordBits}]

AcceptIV(iv) ==
    LET delta == iv - remoteIv
    IN  IF delta > 0
        THEN /\ remoteIv' = iv
             /\ IF delta >= Bits THEN bitmap' = Restarted
                ELSE \E wraps \in ShiftByWidth : bitmap' = Shifted(bitmap, delta, wraps)
        ELSE /\ bitmap' = WithBit(bitmap, -delta)
             /\ UNCHANGED remoteIv

\* A datagram arrives that was encrypted with iv.  The receiver rebuilds the
\* IV; with another one the MAC does not hold.
Decrypt(iv) ==
    /\ sent[iv] > 0
    /\ ReconstructCounter(IvMod, remoteIv, LowBits(iv, IvMod)) = iv
    /\ IsValidIV(iv)
    /\ AcceptIV(iv)
    /\ accepted' = [accepted EXCEPT ![iv] = @ + 1]
    /\ UNCHANGED <<senderVars, inOrder>>

AllowOutOfOrder(allowed) ==
    /\ inOrder' = ~allowed
    /\ UNCHANGED <<senderVars, remoteIv, bitmap, accepted>>

Init ==
    /\ localIv = FirstIv
    /\ range = [t \in Threads |-> [from |-> FirstIv, to |-> FirstIv]]
    /\ sent = [iv \in Ivs |-> 0]
    /\ remoteIv = FirstIv
    /\ bitmap = [i \in 0 .. (Words - 1) |-> {}]
    /\ inOrder = FALSE
    /\ accepted = [iv \in Ivs |-> 0]

Next ==
    \/ \E t \in Threads : Encrypt(t) \/ \E n \in 1 .. MaxRange : GrabIVRange(t, n)
    \/ \E iv \in Ivs : Decrypt(iv)
    \/ \E allowed \in BOOLEAN : AllowOutOfOrder(allowed)

Spec == Init /\ [][Next]_vars

------------------------------------------------------------------------------
(***************************************************************************)
(* Properties                                                              *)
(***************************************************************************)

\* Every variable has its type.
TypeOK ==
    /\ localIv \in Nat /\ remoteIv \in Nat /\ inOrder \in BOOLEAN
    /\ range \in [Threads -> [from : Nat, to : Nat]]
    /\ sent \in [Ivs -> Nat] /\ accepted \in [Ivs -> Nat]
    /\ bitmap \in [0 .. (Words - 1) -> SUBSET (0 .. (WordBits - 1))]

\* No datagram is accepted twice, however often and late the network repeats
\* it, and whatever an undefined shift yields (IsValidIV, AcceptIV).
AcceptedOnce == \A iv \in Ivs : accepted[iv] <= 1

\* Two threads never encrypt with the same IV (GrabIVRange, Encrypt).
IvUsedOnce == \A iv \in Ivs : sent[iv] <= 1

\* A bit of the window is set only for an IV that was accepted: no datagram is
\* turned away as a repetition when it is none.
MarkedIsAccepted ==
    \A d \in 0 .. (Bits - 1) :
        Marked(bitmap, d) => /\ remoteIv - d \in Ivs
                             /\ accepted[remoteIv - d] > 0

\* Everything accepted is behind the window or marked in it.
WindowInv ==
    \A iv \in Ivs : accepted[iv] > 0 =>
        /\ iv <= remoteIv
        /\ remoteIv - iv < Bits => Marked(bitmap, remoteIv - iv)

\* What each thread has to use is below local_iv, apart from what the others
\* have, and unused.
RangeInv ==
    /\ FirstIv <= localIv
    /\ \A iv \in Ivs : iv >= localIv => sent[iv] = 0
    /\ \A t \in Threads :
         /\ FirstIv <= range[t].from /\ range[t].from <= range[t].to
         /\ range[t].to <= localIv
         /\ \A iv \in Ivs : range[t].from <= iv /\ iv < range[t].to => sent[iv] = 0
    /\ \A t, u \in Threads : t # u =>
         \A iv \in Ivs : ~(/\ range[t].from <= iv /\ iv < range[t].to
                           /\ range[u].from <= iv /\ iv < range[u].to)

\* The inductive invariant.
IInv == TypeOK /\ AcceptedOnce /\ WindowInv /\ IvUsedOnce /\ RangeInv
==============================================================================

----------------------------- MODULE ClockSync -----------------------------
(***************************************************************************)
(* The clock of the server as a client estimates it from pings and pongs,   *)
(* and the timestamps of 16 bits that both sides decode with it             *)
(* (src/src/sphynx/Client.cpp, Connexion.cpp, Client.hpp, BitMath.hpp).     *)
(* Clocks are 32-bit counters of milliseconds: they are taken modulo        *)
(* ClockSize, and a difference of two of them is read as a signed number.   *)
(* Pings may overlap, get lost and come back in any order: a sample depends *)
(* only on its own trips.                                                  *)
(***************************************************************************)
EXTENDS BitMath, Sequences, SequencesExt

CONSTANTS ClockSize,       \* 2^32
          StampSize,       \* 2^16
          Tolerance,       \* TS_COMPRESS_FUTURE_TOLERANCE
          TS_MAX_SAMPLES, TS_MIN_SAMPLES,
          BestShare,       \* 4: one of so many samples is used
          ClockOffsets,         \* server clock minus client clock, modulo ClockSize
          Clocks,          \* times of the client's clock
          Trips,           \* one-way trip times, and times a pong is prepared
          Ages             \* how long a message with a timestamp takes

ASSUME SyncAssumption ==
  /\ StampSize \in Nat \ {0} /\ ClockSize % (2 * StampSize) = 0
  /\ TS_MAX_SAMPLES \in Nat \ {0} /\ TS_MIN_SAMPLES \in 1 .. TS_MAX_SAMPLES
  /\ BestShare \in Nat \ {0} /\ Tolerance \in 0 .. StampSize
  /\ Trips \subseteq Nat /\ Ages \subseteq Nat /\ ClockOffsets \subseteq Nat

VARIABLES offset,       \* server clock minus client clock
          ts_samples,   \* by index, what is in the array
          ts_next_index,
          ts_delta
syncVars == <<offset, ts_samples, ts_next_index, ts_delta>>

SyncInit == /\ offset \in ClockOffsets
            /\ ts_samples = <<>> /\ ts_next_index = 1
            /\ ts_delta = 0

Clock(t) == t % ClockSize
Signed(t) == LET c == Clock(t) IN IF c >= ClockSize \div 2 THEN c - ClockSize ELSE c
Abs(n) == IF n < 0 THEN 0 - n ELSE n
(* Division of C: towards zero. *)
Quotient(n, d) == IF n < 0 THEN 0 - ((0 - n) \div d) ELSE n \div d

-----------------------------------------------------------------------------
(* Samples *)

(* IOP_S2C_TIME_PONG: the ping left at t, took there, the server answered
   after busy, and the pong took back. *)
Sample(t, there, busy, back) ==
  LET ping_recv == Clock(t + there + offset)
      pong_send == Clock(t + there + busy + offset)
      pong_recv == Clock(t + there + busy + back)
      first_leg == Signed(ping_recv - t)
      second_leg == Signed(pong_send - pong_recv)
  IN  [rtt |-> Clock(pong_recv - t - (pong_send - ping_recv)),
       delta |-> Quotient(first_leg + second_leg, 2)]

(* While places are free a sample takes one. *)
SamplesFilled(b, s, i) ==
  [used |-> Append(b.used, i), sum |-> b.sum + s[i].delta,
   highest |-> IF s[i].rtt > s[b.used[b.highest]].rtt THEN Len(b.used) + 1 ELSE b.highest]

(* The last place, from place n on, of a strictly higher round trip. *)
HighestOf(used, s, n) ==
  FoldLeft(LAMBDA h, j : IF s[used[j]].rtt > s[used[h]].rtt THEN j ELSE h,
           n, [j \in 1 .. Len(used) |-> j])

\* Mutant: the place of the highest round trip is not looked for again.
ReplacedOnce(b, s, i) ==
  IF s[i].rtt >= s[b.used[b.highest]].rtt THEN b
  ELSE [used |-> [b.used EXCEPT ![b.highest] = i], highest |-> b.highest,
        sum |-> b.sum - s[b.used[b.highest]].delta + s[i].delta]
(* Then it fights for the place of the highest round trip. *)
Replaced(b, s, i) ==
  IF s[i].rtt >= s[b.used[b.highest]].rtt THEN b
  ELSE LET used == [b.used EXCEPT ![b.highest] = i]
       IN  [used |-> used, highest |-> HighestOf(used, s, b.highest),
            sum |-> b.sum - s[b.used[b.highest]].delta + s[i].delta]

NumSamples(count) == LET n == count \div BestShare
                     IN  IF n < TS_MIN_SAMPLES THEN TS_MIN_SAMPLES ELSE n

(* The loops over the array. *)
BestSamples(s) ==
  FoldLeft(LAMBDA b, i : IF Len(b.used) < NumSamples(Len(s)) THEN SamplesFilled(b, s, i)
                         ELSE Replaced(b, s, i),
           [used |-> <<1>>, sum |-> s[1].delta, highest |-> 1],
           [k \in 1 .. Len(s) - 1 |-> k + 1])

(* UpdateTimeSynch() *)
UpdateTimeSynch(sample) ==
  /\ ts_samples' = IF Len(ts_samples) < TS_MAX_SAMPLES THEN Append(ts_samples, sample)
                   ELSE [ts_samples EXCEPT ![ts_next_index] = sample]
  /\ ts_next_index' = (ts_next_index % TS_MAX_SAMPLES) + 1
  /\ LET best == BestSamples(ts_samples')
     IN  ts_delta' = Clock(Quotient(best.sum, Len(best.used)))

OnTimePong ==
  /\ \E sample \in {Sample(t, there, busy, back) :
                       t \in Clocks, there \in Trips, busy \in Trips, back \in Trips} :
       UpdateTimeSynch(sample)
  /\ UNCHANGED offset

-----------------------------------------------------------------------------
(* Timestamps *)

toServerTime(t) == Clock(t + ts_delta)
fromServerTime(t) == Clock(t - ts_delta)

\* Mutant: the window is placed around the present.
BiasedNot(now, future, low) == Clock(ReconstructCounter(StampSize, now, low))
(* BiasedReconstructCounter<16>() *)
BiasedReconstructCounter(now, future, low) ==
  Clock(ReconstructCounter(StampSize, Clock(now - StampSize \div 2 + future), low))

Error == Signed(ts_delta - offset)

(* encodeServerTimestamp() at the client's time t, decodeServerTimestamp() age
   later: the client's time is read.  (How far it is ahead of the reader's clock,
   what was meant and what is read.) *)
ServerStamp(t, age) ==
  LET low == LowBits(Clock(t + offset), StampSize)
  IN  [ahead |-> 0 - Error - age, sent |-> Clock(t - Error),
       read |-> fromServerTime(BiasedReconstructCounter(toServerTime(Clock(t + age)), Tolerance, low))]

(* encodeClientTimestamp(), decodeClientTimestamp(): the server's time is read. *)
ClientStamp(t, age) ==
  LET low == LowBits(toServerTime(t), StampSize)
  IN  [ahead |-> Error - age, sent |-> toServerTime(t),
       read |-> BiasedReconstructCounter(Clock(t + age + offset), Tolerance, low)]

SyncNext == OnTimePong
SyncSpec == SyncInit /\ [][SyncNext]_syncVars

-----------------------------------------------------------------------------
(* The estimate is the mean of the samples with the shortest round trips, as
   many as the share asks for, whatever order they came in and whichever old
   ones they replaced; and it is off by at most half of the longest of these
   round trips.  (Client.cpp:841-914; for offsets whose legs do not reach half
   of the clock's range, where the two legs have different signs.) *)
EstimateSound ==
  ts_samples # <<>> =>
    LET n == Len(ts_samples)
        k == IF NumSamples(n) < n THEN NumSamples(n) ELSE n
        Sum(S) == FoldLeft(LAMBDA a, i : a + IF i \in S THEN ts_samples[i].delta ELSE 0,
                           0, [i \in 1 .. n |-> i])
    IN  \E S \in SUBSET (1 .. n) :
          /\ \A i \in S, j \in (1 .. n) \ S : ts_samples[i].rtt <= ts_samples[j].rtt
          /\ Cardinality(S) = k
          /\ Signed(ts_delta) = Quotient(Sum(S), k)
          /\ \E i \in S : 2 * Abs(Error) <= ts_samples[i].rtt + 2

(* A timestamp of 16 bits is read as the time that was sent, also where a clock
   or the low bits go round, if it is not older than the bits tell apart and
   the clocks do not disagree by more than the tolerance.  (BitMath.hpp:124,
   Client.hpp:134, Connexion.hpp:91) *)
StampsRead ==
  \A t \in Clocks, age \in Ages : \A stamp \in {ServerStamp(t, age), ClientStamp(t, age)} :
    (stamp.ahead <= Tolerance /\ 0 - stamp.ahead < StampSize - Tolerance)
      => stamp.read = stamp.sent

SyncRight == EstimateSound /\ StampsRead
=============================================================================

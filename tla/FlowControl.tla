---------------------------- MODULE FlowControl ----------------------------
(***************************************************************************)
(* The bandwidth account and the round-trip estimate of a transport         *)
(* (src/src/sphynx/FlowControl.cpp), with the callers that read the clock,  *)
(* ask for bandwidth, choose what to send and report it afterwards           *)
(* (Transport.cpp), and one reliable message that may be sent again before   *)
(* it is acknowledged.                                                     *)
(***************************************************************************)
EXTENDS Integers, Sequences, FiniteSetsExt

CONSTANTS LowLimit, HighLimit,  \* _bandwidth_low_limit, _bandwidth_high_limit
          Second,               \* milliseconds to a second
          BurstShare,           \* a burst is this part of a second's bytes
          RTT_FUZZ,
          InitialRtt,
          RttWeight,            \* 10: the share of a sample in the estimate
          MinIncrement,         \* MIN_AIMD_INCREMENT
          Flushers,             \* threads that call FlushWrites()
          SendSizes,            \* bytes of datagrams beside what is metered
          Prompt,               \* no millisecond passes between reading the clock and asking
          MaxTrip,              \* longest round trip, unless the datagram is lost
          MaxDebt,              \* bound on what is sent without asking
          MaxGoodput,           \* bound on the bytes acknowledged in a period
          MaxNow                \* bound on the clock

ASSUME FlowAssumption ==
  /\ {LowLimit, HighLimit, Second, BurstShare, RTT_FUZZ, RttWeight, MinIncrement,
      MaxTrip} \subseteq Nat \ {0}
  /\ LowLimit <= HighLimit /\ {InitialRtt, MaxDebt, MaxGoodput, MaxNow} \subseteq Nat
  /\ SendSizes \subseteq Nat /\ Prompt \in BOOLEAN

VARIABLES flow,     \* the members of FlowControl
          time,     \* the clock
          asked,    \* by flusher: idle, the time read, or the bytes granted
          pending,  \* the reliable message: when it was sent first and last
          level     \* bytes sent and not yet drained at HighLimit, times Second
flowVars == <<flow, time, asked, pending, level>>

FlowIdle == [step |-> "idle", value |-> 0]
Nothing == [first |-> 0, last |-> 0]

FlowInit ==
  /\ flow = [bps |-> LowLimit, available |-> 0, last_bw |-> 0, rtt |-> InitialRtt,
             last_stats |-> 0, loss |-> 0, goodput |-> 0]
  /\ time = 0 /\ asked = [f \in Flushers |-> FlowIdle]
  /\ pending = Nothing /\ level = 0

(* The clock; the bucket drains at the highest rate. *)
FlowTime ==
  /\ time < MaxNow /\ time' = time + 1
  /\ Prompt => \A t \in Flushers : asked[t].step # "read"
  /\ level' = Max({0, level - HighLimit})
  /\ UNCHANGED <<flow, asked, pending>>

-----------------------------------------------------------------------------
(* The account *)

TickMax(f) == f.bps \div BurstShare

\* Mutant: what was not used while the line was idle is kept.
RefillAll(f, now) ==
  [f EXCEPT !.last_bw = now, !.available = @ + ((now - f.last_bw) * f.bps) \div Second]
\* Mutant: the time of the last update stays.
RefillAgain(f, now) ==
  LET bytes == Min({((now - f.last_bw) * f.bps) \div Second, TickMax(f)})
  IN  [f EXCEPT !.available = Min({@ + bytes, TickMax(f)})]

(* GetRemainingBytes(): a clock that was read before the last update makes
   the elapsed time wrap, and any wrapped time fills the account. *)
Refilled(f, now) ==
  LET bytes == IF now < f.last_bw THEN TickMax(f)
               ELSE Min({((now - f.last_bw) * f.bps) \div Second, TickMax(f)})
  IN  [f EXCEPT !.last_bw = now, !.available = Min({@ + bytes, TickMax(f)})]

(* WriteQueuedReliable(): read the clock, then ask. *)
ReadClock(t) ==
  /\ asked[t] = FlowIdle
  /\ asked' = [asked EXCEPT ![t] = [step |-> "read", value |-> time]]
  /\ UNCHANGED <<flow, time, pending, level>>
GetRemainingBytes(t) ==
  /\ asked[t].step = "read"
  /\ flow' = Refilled(flow, asked[t].value)
  /\ asked' = [asked EXCEPT ![t] =
       IF flow'.available < 0 THEN FlowIdle
       ELSE [step |-> "granted", value |-> flow'.available]]
  /\ UNCHANGED <<time, pending, level>>

(* OnPacketSend() *)
Spent(bytes) == /\ flow' = [flow EXCEPT !.available = @ - bytes]
                /\ level' = level + bytes * Second
(* The grant is used, at most; what else is in the cluster goes with it. *)
FlushSends(t) ==
  /\ asked[t].step = "granted"
  /\ \E b \in {0, asked[t].value}, other \in SendSizes : Spent(b + other)
  /\ asked' = [asked EXCEPT ![t] = FlowIdle]
  /\ UNCHANGED <<time, pending>>
(* PostMTUProbe(), PostHugeZeroCopy(): sent without asking. *)
SendUnasked == /\ flow.available >= 0 - MaxDebt
               /\ \E b \in SendSizes : Spent(b)
               /\ UNCHANGED <<time, asked, pending>>

-----------------------------------------------------------------------------
(* Round trips and statistics *)

HeadTimeout == (flow.rtt + RTT_FUZZ) * 2
(* A message goes out, and is sent again by RetransmitLost(). *)
SendMessage ==
  /\ pending = Nothing /\ time > 0
  /\ pending' = [first |-> time, last |-> time]
  /\ UNCHANGED <<flow, time, asked, level>>
SendAgain ==
  /\ pending # Nothing
  /\ time - pending.last >= HeadTimeout + Min({pending.last - pending.first, 4 * HeadTimeout})
  /\ pending' = [pending EXCEPT !.last = time]
  /\ flow' = [flow EXCEPT !.loss = @ + 1]
  /\ UNCHANGED <<time, asked, level>>

\* Mutant: the round trip of a message that was sent again counts.
AckedAlways(f, m, now) ==
  [f EXCEPT !.rtt = (@ * (RttWeight - 1) + (now - m.first)) \div RttWeight]
(* OnACK(): no retransmission, so the answer is to the only copy. *)
Acked(f, m, now) ==
  IF m.first # m.last THEN f
  ELSE [f EXCEPT !.rtt = (@ * (RttWeight - 1) + (now - m.first)) \div RttWeight]
(* An acknowledgement of some copy arrives (of the last one, if of any that is
   not lost), and OnACKDone(). *)
OnACK ==
  /\ pending # Nothing /\ time - pending.last <= MaxTrip
  /\ flow.goodput <= MaxGoodput
  /\ \E bytes \in SendSizes : flow' = [Acked(flow, pending, time) EXCEPT !.goodput = @ + bytes]
  /\ pending' = Nothing
  /\ UNCHANGED <<time, asked, level>>

\* Mutant: the limits are left to the increments.
AdaptedFreely(f, goodrate) ==
  IF f.loss >= 2 THEN f.bps \div 2
  ELSE IF goodrate * 5 >= f.bps * 4 THEN f.bps + Max({goodrate \div 20, MinIncrement})
  ELSE f.bps
(* FlowControl::OnTick(): fewer bytes after a loss, more while they are used. *)
Adapted(f, goodrate) ==
  IF f.loss >= 2 THEN Max({f.bps \div 2, LowLimit})
  ELSE IF goodrate * 5 >= f.bps * 4
    THEN Min({f.bps + Max({goodrate \div 20, MinIncrement}), HighLimit})
  ELSE f.bps
FlowTick ==
  LET elapsed == time - flow.last_stats
  IN  /\ elapsed >= (flow.rtt + RTT_FUZZ) * 4
      /\ flow' = [flow EXCEPT !.last_stats = time, !.loss = 0, !.goodput = 0,
                    !.bps = Adapted(flow, (flow.goodput * Second) \div elapsed)]
      /\ UNCHANGED <<time, asked, pending, level>>

FlowNext ==
  \/ FlowTime \/ SendUnasked \/ SendMessage \/ SendAgain \/ OnACK \/ FlowTick
  \/ \E t \in Flushers : ReadClock(t) \/ GetRemainingBytes(t) \/ FlushSends(t)
FlowSpec == FlowInit /\ [][FlowNext]_flowVars

-----------------------------------------------------------------------------
(* What the account offers, together with what was sent and a bucket drained
   at the highest rate still holds, is at most two bursts: however sends, idle
   times and changes of the rate follow each other, the line never carries
   more than the high limit and two bursts.  (One burst is what may be saved
   up; the other is what datagrams sent without asking find, since the account
   is filled only when somebody asks.  FlowControl.cpp:58-83; for Prompt
   flushers: one that read the clock before another asked fills the account.) *)
RateKept == Second * flow.available + level <= 2 * Second * (HighLimit \div BurstShare)

(* The estimate of the round trip stays within the trips the network makes and
   the value it starts with: answers to messages that were sent again, which
   may belong to any copy, do not move it.  (FlowControl.cpp:162-179) *)
RttSound == flow.rtt <= Max({InitialRtt, MaxTrip})

(* The rate is within its limits, also when the statistics cover a period
   in which it was changed. *)
RateBounded == flow.bps >= LowLimit /\ flow.bps <= HighLimit

FlowRight == RateKept /\ RttSound /\ RateBounded
=============================================================================

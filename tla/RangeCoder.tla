----------------------------- MODULE RangeCoder -----------------------------
(***************************************************************************)
(* The range coder, src/src/codec/RangeCoder.cpp: statistics of a text are   *)
(* collected and turned into a table of frequencies, and a message of bits,  *)
(* fields and texts is encoded and decoded again.  A byte has ByteBits bits, *)
(* and everything else keeps its size in bytes: a word has eight of them.    *)
(***************************************************************************)
EXTENDS Integers, Sequences, FiniteSets

CONSTANTS ByteBits,
          Letters,         \* the characters but '\0', which is 0
          TallyLimit,      \* 2^24
          Tallied,         \* the frequencies a text seen so far has left
          MaxTallies,      \* bound: characters tallied on top of them
          LogTotal,        \* log2 of 1, 2, ... in thousandths
          BitChances, FieldTotals,  \* frequencies of bits, totals of fields
          Limits,          \* bytes of the output buffer
          MaxFields, MaxText        \* bound: fields of a message, letters of a text

Characters == Letters \cup {0}
Bytes(n) == 2 ^ (n * ByteBits)
CodeWord == Bytes(8)
Top == Bytes(7)
MaxRange == Bytes(6)

VARIABLES stats,       \* [freq, seen, last] of TextStatsCollector
          tallies, coder_table, encoder_state, decoder_state,
          message, decoded
rangeVars == <<stats, tallies, coder_table, encoder_state, decoder_state, message, decoded>>
None == [phase |-> "none"]

(* '\0' is always present. *)
RangeInit ==
  /\ \E f \in Tallied : stats = [freq |-> f, seen |-> {0} \cup {c \in Letters : \E d \in Characters : f[d][c] > 0},
                                last |-> 0]
  /\ tallies = 0 /\ coder_table = None /\ encoder_state = None /\ decoder_state = None
  /\ message = <<>> /\ decoded = <<>>

(* A count at its limit halves the counts of its row. *)
Halved(row) == [c \in Characters |-> IF row[c] > 1 THEN row[c] \div 2 ELSE row[c]]
Tally(x) ==
  LET row == [stats.freq[stats.last] EXCEPT ![x] = @ + 1]
  IN  /\ coder_table = None /\ tallies < MaxTallies
      /\ stats' = [freq |-> [stats.freq EXCEPT ![stats.last] = IF row[x] >= TallyLimit THEN Halved(row) ELSE row],
                   seen |-> stats.seen \cup {x}, last |-> x]
      /\ tallies' = tallies + 1
      /\ UNCHANGED <<coder_table, encoder_state, decoder_state, message, decoded>>

-----------------------------------------------------------------------------
(* The table: of each symbol the cumulative frequencies, out of 2^16, of the   *)
(* symbols that follow it; base[j] is where symbol j + 1 starts.               *)
Symbols(seen) == CHOOSE s \in [0 .. Cardinality(seen) - 1 -> seen] :
                   \A i, j \in DOMAIN s : i < j => s[i] < s[j]

(* The cumulative frequency of a symbol, scaled; all of it wraps to 0. *)
Normalized(part, whole) == (((part * Bytes(4)) \div whole) % Bytes(4)) \div Bytes(2)

(* Each is more than the one before it.  Mutant: not less. *)
MonotonicNot(previous, next) == IF previous > next THEN previous ELSE next
Monotonic(previous, next) == IF previous >= next THEN previous + 1 ELSE next

(* Symbols of no frequency at the end may run over 2^16: what they run over by
   is taken from all that start at 2^8 or later. *)
Borrowed(stored, most) ==
  LET count == most - (Bytes(2) - 1)
      rich(j) == \E k \in 0 .. j : stored[k] >= Bytes(1)
  IN  [j \in DOMAIN stored |-> IF rich(j) THEN (stored[j] - count) % Bytes(2) ELSE stored[j]]

CumulativeRow(row, symbols) ==
  LET total == Cardinality(DOMAIN symbols)
      work[j \in 0 .. total - 1] == row[symbols[j]] + (IF j = 0 THEN 0 ELSE work[j - 1])
      smax == work[total - 1]
      share(j) == IF smax > 0 THEN Normalized(work[j], smax) ELSE Normalized(j + 1, total)
      adjcum[j \in 0 .. total - 2] == Monotonic(IF j = 0 THEN 0 ELSE adjcum[j - 1], share(j))
      stored == [j \in 0 .. total - 2 |-> adjcum[j] % Bytes(2)]
  IN  IF adjcum[total - 2] >= Bytes(2) THEN Borrowed(stored, adjcum[total - 2]) ELSE stored

(* By the high byte of a frequency, the symbols it can be of. *)
LookupTable(base) ==
  LET last == Cardinality(DOMAIN base)
      Past(symbol, slot) == CHOOSE n \in symbol .. last :
                              /\ n = last \/ base[n] \div Bytes(1) > slot
                              /\ \A k \in symbol .. n - 1 : base[k] \div Bytes(1) <= slot
      symbol[slot \in 0 .. Bytes(1) - 1] == Past(IF slot = 0 THEN 0 ELSE symbol[slot - 1], slot)
      high == [slot \in 0 .. Bytes(1) - 1 |-> IF symbol[slot] = 0 THEN 0 ELSE symbol[slot] - 1]
  IN  [high |-> high, low |-> [slot \in DOMAIN high |-> IF slot = 0 THEN 0 ELSE high[slot - 1]]]

GenerateMinimalStaticTable ==
  LET symbols == Symbols(stats.seen)
      base == [i \in DOMAIN symbols |-> CumulativeRow(stats.freq[symbols[i]], symbols)]
  IN  /\ coder_table = None /\ Cardinality(stats.seen) > 1
      /\ coder_table' = [phase |-> "made", symbols |-> symbols, base |-> base,
                         lut |-> [i \in DOMAIN symbols |-> LookupTable(base[i])]]
      /\ UNCHANGED <<stats, tallies, encoder_state, decoder_state, message, decoded>>

TotalOf(t) == Cardinality(DOMAIN t.symbols)
VerifyTableIntegrity(t) ==
  \A i \in DOMAIN t.symbols :
    /\ \A j \in DOMAIN t.base[i] : t.base[i][j] > (IF j = 0 THEN 0 ELSE t.base[i][j - 1])
    /\ \A s \in DOMAIN t.lut[i].low : /\ t.lut[i].low[s] <= t.lut[i].high[s]
                                      /\ t.lut[i].high[s] < TotalOf(t) - 1

-----------------------------------------------------------------------------
(* The top byte of the interval is known, or it is too small: then it is cut *)
(* at the next multiple of MaxRange.  Mutant: it is not cut.                 *)
TopKnown(low, range) == low \div Top = ((low + range) % CodeWord) \div Top
Due(s) == TopKnown(s.low, s.range) \/ s.range < MaxRange
CutRangeNot(s) == s.range
CutRange(s) == IF TopKnown(s.low, s.range) THEN s.range ELSE (-s.low) % MaxRange
Shifted(s) == [s EXCEPT !.low = (@ * Bytes(1)) % CodeWord, !.range = (CutRange(s) * Bytes(1)) % CodeWord]
TopByte(low) == low \div Top

RECURSIVE EncoderNormalize(_)
EncoderNormalize(e) ==
  IF ~Due(e) THEN e
  ELSE IF e.remaining = 0 THEN [e EXCEPT !.failed = TRUE, !.range = CutRange(e)]
  ELSE EncoderNormalize([Shifted(e) EXCEPT !.remaining = @ - 1, !.output = Append(@, TopByte(e.low))])

RECURSIVE DecoderNormalize(_)
DecoderNormalize(d) ==
  IF ~Due(d) THEN d
  ELSE DecoderNormalize([Shifted(d) EXCEPT
         !.code = (@ * Bytes(1) + (IF d.input = <<>> THEN 0 ELSE Head(d.input))) % CodeWord,
         !.input = IF @ = <<>> THEN @ ELSE Tail(@)])

(* The interval becomes the part of it from start on, of width units. *)
Narrowed(s, unit, start, width) == [s EXCEPT !.low = (@ + start * unit) % CodeWord, !.range = width * unit]
(* The first symbol finds no interval. *)
Whole(s, unit, start, width) == [s EXCEPT !.low = start * unit, !.range = width * unit]

EncoderBiasedBit(e, b, frequency) ==
  LET start == IF b = 1 THEN frequency ELSE 0
      width == IF b = 1 THEN Bytes(4) - frequency ELSE frequency
      n == EncoderNormalize(e)
  IN  IF e.range = 0 THEN Whole(e, Bytes(4), start, width)
      ELSE Narrowed(n, n.range \div Bytes(4), start, width)
EncoderRange(e, symbol, total) ==
  LET n == EncoderNormalize(e)
  IN  IF e.range = 0 THEN Whole(e, (CodeWord - 1) \div total, symbol, 1)
      ELSE Narrowed(n, n.range \div total, symbol, 1)

(* Where a symbol starts and how wide it is, after symbol last. *)
Char2Index(t, c) == CHOOSE i \in DOMAIN t.symbols : t.symbols[i] = c
SymbolLow(t, last, s) == IF s = 0 THEN 0 ELSE t.base[last][s - 1]
SymbolRange(t, last, s) ==
  (IF s = TotalOf(t) - 1 THEN Bytes(2) ELSE t.base[last][s]) - SymbolLow(t, last, s)

EncodeSymbol(t, e, last, s) ==
  LET n == EncoderNormalize(e)
  IN  Narrowed(n, n.range \div Bytes(2), SymbolLow(t, last, s), SymbolRange(t, last, s))
RECURSIVE WithStatistics(_, _, _, _)
WithStatistics(t, e, last, text) ==
  IF text = <<>> THEN e
  ELSE LET s == Char2Index(t, Head(text)) IN WithStatistics(t, EncodeSymbol(t, e, last, s), s, Tail(text))
RECURSIVE WithoutStatistics(_, _, _)
WithoutStatistics(t, e, text) ==
  LET n == EncoderNormalize(e)
  IN  IF text = <<>> THEN e
      ELSE WithoutStatistics(t, Narrowed(n, n.range \div TotalOf(t), Char2Index(t, Head(text)), 1), Tail(text))

(* The text ends with its '\0'.  Tables that take as much room as none are    *)
(* not used: the state is restored.                                          *)
Uniform == Bytes(4) - Bytes(3)     \* 0xFF000000: how often it is not
EncoderText(t, e, text) ==
  LET with == WithStatistics(t, EncoderBiasedBit(e, 0, Uniform), 0, text)
  IN  IF e.remaining - with.remaining >= (Len(text) * LogTotal[TotalOf(t)]) \div (1000 * ByteBits)
      THEN WithoutStatistics(t, EncoderBiasedBit(e, 1, Uniform), text)
      ELSE with

(* The final bytes: as many as it takes to name a point of the interval.
   Mutant: always one. *)
FinalBytesOne(low, range) == <<TopByte(low)>>
FinalBytesOf(low, range) == IF range < Top THEN <<TopByte(low), TopByte((low * Bytes(1)) % CodeWord)>>
                            ELSE <<TopByte(low)>>
EncoderFinish(e) ==
  LET n == EncoderNormalize(e)
      bytes == FinalBytesOf((n.low + n.range - 1) % CodeWord, n.range)
  IN  IF n.low = 0 THEN n
      ELSE IF n.remaining < Len(bytes) THEN [n EXCEPT !.failed = TRUE]
      ELSE [n EXCEPT !.output = @ \o bytes, !.remaining = @ - Len(bytes)]

-----------------------------------------------------------------------------
CodePadded(bytes) == bytes \o [i \in 1 .. 8 |-> 0]
RangeDecoder(bytes) ==
  LET code[i \in 0 .. 8] == IF i = 0 THEN 0 ELSE code[i - 1] * Bytes(1) + CodePadded(bytes)[i]
  IN  [phase |-> "decode", code |-> code[8], low |-> 0, range |-> 0,
       input |-> IF Len(bytes) < 8 THEN <<>> ELSE SubSeq(bytes, 9, Len(bytes))]

(* Which unit of the interval the code lies in. *)
CodeAt(d, unit) == ((d.code - d.low) % CodeWord) \div unit
FoundValue(symbol, d) == [symbol |-> symbol, d |-> d]

DecoderBiasedBit(d, frequency) ==
  LET n == IF d.range = 0 THEN d ELSE DecoderNormalize(d)
      unit == IF d.range = 0 THEN Bytes(4) ELSE n.range \div Bytes(4)
  IN  IF CodeAt(n, unit) < frequency THEN FoundValue(0, Narrowed(n, unit, 0, frequency))
      ELSE FoundValue(1, Narrowed(n, unit, frequency, Bytes(4) - frequency))
DecoderRange(d, total) ==
  LET n == IF d.range = 0 THEN d ELSE DecoderNormalize(d)
      unit == IF d.range = 0 THEN (CodeWord - 1) \div total ELSE n.range \div total
      symbol == CodeAt(n, unit)
  IN  FoundValue(symbol, Narrowed(n, unit, symbol, 1))

(* The binary search between the two ends that the lookup table gives. *)
RECURSIVE SearchSymbol(_, _, _, _)
SearchSymbol(base, freq, below, above) ==
  LET pivot == (above - below + 1) \div 2 + below
  IN  IF below = above THEN below
      ELSE IF freq >= base[pivot] THEN SearchSymbol(base, freq, pivot, above)
      ELSE SearchSymbol(base, freq, below, pivot - 1)
(* Symbol 0 is not listed. *)
Unlisted(base, below, freq) == below = 0 /\ freq < base[0]
TableSymbol(t, last, freq) ==
  LET base == t.base[last]
      slot == freq \div Bytes(1)
      below == SearchSymbol(base, freq, t.lut[last].low[slot], t.lut[last].high[slot])
  IN  IF Unlisted(base, below, freq) THEN 0 ELSE below + 1

(* A text ends with symbol 0; the buffer is taken to be large enough. *)
RECURSIVE TextWith(_, _, _, _)
TextWith(t, d, last, text) ==
  LET n == DecoderNormalize(d)
      unit == n.range \div Bytes(2)
      s == TableSymbol(t, last, CodeAt(n, unit) % Bytes(2))
      next == Narrowed(n, unit, SymbolLow(t, last, s), SymbolRange(t, last, s))
  IN  IF s = 0 THEN FoundValue(text \o <<0>>, next) ELSE TextWith(t, next, s, Append(text, t.symbols[s]))
RECURSIVE TextWithout(_, _, _)
TextWithout(t, d, text) ==
  LET n == DecoderNormalize(d)
      unit == n.range \div TotalOf(t)
      s == CodeAt(n, unit)
      next == Narrowed(n, unit, s, 1)
  IN  IF t.symbols[s] = 0 THEN FoundValue(text \o <<0>>, next) ELSE TextWithout(t, next, Append(text, t.symbols[s]))
DecoderText(t, d) ==
  LET b == DecoderBiasedBit(d, Uniform)
  IN  IF b.symbol = 1 THEN TextWithout(t, b.d, <<>>) ELSE TextWith(t, b.d, 0, <<>>)

-----------------------------------------------------------------------------
(* A message: bits, fields, and texts of characters the statistics have seen. *)
StartEncoder(limit) ==
  /\ coder_table # None /\ encoder_state = None
  /\ encoder_state' = [phase |-> "encode", output |-> <<>>, remaining |-> limit, low |-> 0, range |-> 0,
                       failed |-> FALSE]
  /\ UNCHANGED <<stats, tallies, coder_table, decoder_state, message, decoded>>

EncodeField(field) ==
  /\ encoder_state # None /\ encoder_state.phase = "encode" /\ Len(message) < MaxFields
  /\ message' = Append(message, field)
  /\ encoder_state' =
       CASE field.kind = "bit" -> EncoderBiasedBit(encoder_state, field.value, field.of)
         [] field.kind = "field" -> EncoderRange(encoder_state, field.value, field.of)
         [] field.kind = "text" -> EncoderText(coder_table, encoder_state, field.value)
  /\ UNCHANGED <<stats, tallies, coder_table, decoder_state, decoded>>
Texts == {s \o <<0>> : s \in UNION {[1 .. n -> stats.seen \ {0}] : n \in 0 .. MaxText}}
EncodeSome ==
  \/ \E f \in BitChances, b \in {0, 1} : EncodeField([kind |-> "bit", value |-> b, of |-> f])
  \/ \E n \in FieldTotals : \E v \in 0 .. n - 1 : EncodeField([kind |-> "field", value |-> v, of |-> n])
  \/ coder_table # None /\ VerifyTableIntegrity(coder_table) /\ \E t \in Texts : EncodeField([kind |-> "text", value |-> t, of |-> 0])

(* The encoder finishes, and the decoder is given its bytes if it has not failed. *)
FinishEncoder ==
  /\ encoder_state # None /\ encoder_state.phase = "encode" /\ message # <<>>
  /\ LET e == EncoderFinish(encoder_state)
     IN  /\ encoder_state' = [e EXCEPT !.phase = "done"]
         /\ decoder_state' = IF e.failed THEN None ELSE RangeDecoder(e.output)
  /\ UNCHANGED <<stats, tallies, coder_table, message, decoded>>

DecodeField ==
  /\ decoder_state # None /\ Len(decoded) < Len(message)
  /\ LET field == message[Len(decoded) + 1]
         r == CASE field.kind = "bit" -> DecoderBiasedBit(decoder_state, field.of)
                [] field.kind = "field" -> DecoderRange(decoder_state, field.of)
                [] field.kind = "text" -> DecoderText(coder_table, decoder_state)
     IN  decoder_state' = r.d /\ decoded' = Append(decoded, r.symbol)
  /\ UNCHANGED <<stats, tallies, coder_table, encoder_state, message>>

RangeNext == \/ \E x \in Characters : Tally(x)
             \/ GenerateMinimalStaticTable
             \/ \E n \in Limits : StartEncoder(n)
             \/ EncodeSome \/ FinishEncoder \/ DecodeField
RangeSpec == RangeInit /\ [][RangeNext]_rangeVars

-----------------------------------------------------------------------------
(* "Interprets buffers produced by RangeEncoder" (RangeCoder.hpp): whatever was
   encoded, cut intervals and fallen-back texts included, is decoded; and a table
   whose frequencies did not have to be borrowed passes its own verification. *)
RangeRoundTrip == \A i \in 1 .. Len(decoded) : decoded[i] = message[i].value
TableMadeRight ==
  coder_table # None /\ (\A c \in stats.seen, d \in stats.seen : stats.freq[c][d] < Bytes(1)) =>
    VerifyTableIntegrity(coder_table)
RangeCoderRight == RangeRoundTrip /\ TableMadeRight
=============================================================================

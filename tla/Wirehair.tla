------------------------------ MODULE Wirehair ------------------------------
(***************************************************************************)
(* The Wirehair erasure code, src/src/fec/Wirehair.cpp: an encoder that      *)
(* solves for recovery blocks, a channel that loses and repeats blocks, and  *)
(* a decoder that peels the rows it is fed, solves the rest by Gaussian      *)
(* elimination and rebuilds the message.                                     *)
(*                                                                           *)
(* A block is a vector of coefficients over the symbols of the message: the  *)
(* first BlockCount of them are the symbols of the block's first bytes, the  *)
(* others those of the bytes that the final block lacks.  Every operation of *)
(* the codec is linear, so that what holds of these vectors holds of every   *)
(* message.  GF(4) stands for GF(256).  A binary row is the set of the       *)
(* columns whose bit is set.                                                 *)
(***************************************************************************)
EXTENDS Integers, Sequences, FiniteSets, SequencesExt, Functions

CONSTANTS BlockCount,          \* _block_count
          DenseCount,          \* _dense_count
          BlockPrime, MixPrime, \* _block_next_prime, _mix_next_prime
          HeavyRows,           \* CAT_HEAVY_ROWS
          HeavyMaxCols,        \* CAT_HEAVY_MAX_COLS
          ExtraRows,           \* CAT_MAX_EXTRA_ROWS
          RefListMax,          \* CAT_REF_LIST_MAX
          UnderWindows,        \* CAT_UNDER_WIN_THRESH_7..4: widths, columns left
          AboveWindows,        \* CAT_ABOVE_WIN_THRESH_7..4: widths, last pivot
          Seeds,               \* the values of _p_seed
          Prng(_, _, _),       \* Prng(seed, stream, n): the n-th number drawn
          LastId,              \* bound: the ids sent are 0..LastId
          MaxRepeats,          \* bound: blocks the channel repeats
          MaxAfter             \* bound: blocks decoded after a failed solve

MixCount == DenseCount + HeavyRows
WhRows == 0 .. BlockCount - 1
WhColumns == 0 .. BlockCount - 1
ListTerm == -1

(* "Assumes this is higher than CAT_HEAVY_MAX_COLS": no window under the     *)
(* diagonal reaches the heavy columns.                                        *)
ASSUME WindowsEndBeforeHeavy ==
  \A n \in 1 .. Len(UnderWindows) : UnderWindows[n].at - UnderWindows[n].w >= HeavyMaxCols

VARIABLES p_seed, encoder, decoder, encodeResult, decodeResult, output, sentId,
          repeats, solves
wirehairVars == <<p_seed, encoder, decoder, encodeResult, decodeResult, output,
                  sentId, repeats, solves>>

-----------------------------------------------------------------------------
(* ChooseMatrix: square roots, primes and the number of dense rows, at their  *)
(* real sizes.                                                                *)
Isqrt(x) == CHOOSE r \in 0 .. 256 : r * r <= x /\ x < (r + 1) * (r + 1)
SQQ_TABLE == [i \in 0 .. 255 |-> Isqrt(256 * i)]
SquareRoot16(x) ==
  LET r == CASE x >= 16384 -> SQQ_TABLE[x \div 256] + 1
             [] 4096 <= x /\ x < 16384 -> SQQ_TABLE[x \div 64] \div 2 + 1
             [] 1024 <= x /\ x < 4096 -> SQQ_TABLE[x \div 16] \div 4 + 1
             [] x < 1024 -> SQQ_TABLE[x \div 4] \div 8 + 1
  IN  IF x < 256 THEN SQQ_TABLE[x] \div 16 ELSE IF r * r > x THEN r - 1 ELSE r

LeastOf(S) == CHOOSE x \in S : \A y \in S : x <= y
(* The distance to the next number without a factor 2, 3, 5 or 7. *)
SieveSize == 2 * 3 * 5 * 7
SIEVE_TABLE == [n \in 0 .. SieveSize - 1 |->
                  LeastOf({k \in 0 .. 9 : \A p \in {2, 3, 5, 7} : (n + k) % p # 0})]
PrimesUnder256 == {p \in 11 .. 255 : \A d \in 2 .. 15 : d < p => p % d # 0}

(* The root grows with the numbers tried.  Mutant: it stays. *)
NextRootKept(p_max, n) == p_max
NextRoot(p_max, n) == IF p_max * p_max < n THEN p_max + 1 ELSE p_max
RECURSIVE TryFrom(_, _, _)
TryFrom(n, offset, p_max) ==
  LET o == offset % SieveSize
      next == n + SIEVE_TABLE[o] + 1
  IN  IF \A p \in PrimesUnder256 : p <= p_max => n % p # 0 THEN n
      ELSE TryFrom(next, o + SIEVE_TABLE[o] + 1, NextRoot(p_max, next))
NextPrime16(n) ==
  LET first == n + SIEVE_TABLE[n % SieveSize]
  IN  CASE n <= 1 -> 1
        [] n \in {2, 3, 5, 7} -> n
        [] n \in {4, 6} -> n + 1
        [] OTHER -> TryFrom(first, (n % SieveSize) + SIEVE_TABLE[n % SieveSize] + 1, SquareRoot16(first))

MaxN == 64000                           \* CAT_WIREHAIR_MAX_N
DenseFitted(n) ==
  CASE n = 2 -> 2
    [] n = 3 -> 6
    [] 3 < n /\ n < 256 -> 10 + SquareRoot16(n) \div 2 + n \div 50
    [] 256 <= n /\ n <= 4096 -> 11 + SquareRoot16(n) + n \div 300
    [] 4096 < n /\ n <= 32768 -> 22 + n \div 100
    [] 32768 < n /\ n <= 44000 -> 26 + n \div 114
    [] 44000 < n /\ n <= 52500 -> 74 + n \div 128
    [] 52500 < n -> 880 - n \div 128
(* Rounded up to 2 modulo 4.  Mutant: odd counts are rounded by one. *)
DenseRoundedEven(n) == LET d == DenseFitted(n) IN d + <<2, 1, 0, 1>>[(d % 4) + 1]
DenseRounded(n) == LET d == DenseFitted(n) IN d + <<2, 1, 0, 3>>[(d % 4) + 1]
(* There is a seed for the count. *)
DenseSeedFound(d) == d \in {2, 6} \/ (14 <= d /\ d <= 486)

BlockNextPrime == NextPrime16(BlockCount)
MixNextPrime == NextPrime16(MixCount)
ASSUME PrimesChosen == BlockPrime = BlockNextPrime /\ MixPrime = MixNextPrime

-----------------------------------------------------------------------------
(* GF(4) with logarithms: 1, 2, 3 are the powers of the generator 2. *)
GfAdd(x, y) == IF x = y THEN 0 ELSE IF x * y = 0 THEN x + y ELSE 6 - x - y
GfMultiply(x, y) == IF x = 0 \/ y = 0 THEN 0 ELSE 1 + ((x + y - 2) % 3)
GfDivide(x, y) == IF x = 0 THEN 0 ELSE 1 + ((x - y) % 3)

(* A block: lo and hi are the symbols whose coefficient has bit 0 and bit 1.  *)
Xor(S, T) == (S \ T) \cup (T \ S)
Block(lo, hi) == [lo |-> lo, hi |-> hi]
ZeroBlock == Block({}, {})
memxor(b, c) == Block(Xor(b.lo, c.lo), Xor(b.hi, c.hi))
Times(x, b) == CASE x = 0 -> ZeroBlock
                 [] x = 1 -> b
                 [] x = 2 -> Block(b.hi, Xor(b.lo, b.hi))
                 [] x = 3 -> Block(Xor(b.lo, b.hi), b.lo)
MemMulAdd(dest, x, src) == memxor(dest, Times(x, src))
MemDivide(dest, x) == Times(GfDivide(1, x), dest)
SumOf(I, blocks) == FoldFunctionOnSet(memxor, ZeroBlock, blocks, I)

(* The symbols of the first bytes of a block, and of those a final block lacks. *)
Heads == 0 .. BlockCount - 1
Tails == BlockCount .. 2 * BlockCount - 1
JunkBlock == Block(Heads \cup Tails, Heads \cup Tails)
(* Only the first bytes are copied; the rest is zero, or what lay there. *)
FinalBytes(b) == Block(b.lo \cap Heads, b.hi \cap Heads)
JunkTail(b) == memxor(FinalBytes(b), Block(Tails, Tails))

(* The message: block i is its own symbols, the final one has no tail. *)
MessageBlock(i) == Block(IF i = BlockCount - 1 THEN {i} ELSE {i, BlockCount + i}, {})

(* The exclusive or of the rows f[i], i in I. *)
XorOf(I, f) == {x \in UNION {f[i] : i \in I} : Cardinality({i \in I : x \in f[i]}) % 2 = 1}

-----------------------------------------------------------------------------
(* The row generator. *)
IterateNextColumn(x, b, p, a) ==
  LET y == (x + a) % p
  IN  IF y < b THEN y
      ELSE IF a >= p - y THEN a - (p - y) ELSE (a * 65536 - (p - y)) % a

RowColumns(weight, x0, b, p, a) ==
  LET x[n \in 1 .. weight] == IF n = 1 THEN x0 ELSE IterateNextColumn(x[n - 1], b, p, a)
  IN  x

GeneratePeelRow(seed, id) ==
  LET draw(n) == Prng(seed, id, n)
      weight == 1 + (draw(1) % 3)
      most == BlockCount \div 2
      peel_a == 1 + (draw(2) % (BlockCount - 1))
      peel_x0 == draw(3) % BlockCount
      mix_a == 1 + (draw(4) % (MixCount - 1))
      mix_x0 == draw(5) % MixCount
  IN  [peel |-> RowColumns(IF weight > most THEN most ELSE weight, peel_x0,
                           BlockCount, BlockPrime, peel_a),
       mix  |-> Range(RowColumns(3, mix_x0, MixCount, MixPrime, mix_a))]

PeelColumns(c, r) == GeneratePeelRow(p_seed, c.id[r]).peel
MixColumns(c, r) == GeneratePeelRow(p_seed, c.id[r]).mix

-----------------------------------------------------------------------------
(* Peeling.  unmarked[r] is the union of the last two unmarked columns with   *)
(* <<peel_column, is_copied>>; ref[x] the union of w2_refs, peel_row and      *)
(* ge_column.                                                                 *)
PeelColumn(c, r) == c.unmarked[r][1]
IsCopied(c, r) == c.unmarked[r][2] = 1
Todo(c, columns) == SelectSeq(columns, LAMBDA x : c.mark[x] = "todo")
DeferRow(c, r) == [c EXCEPT !.deferRows = <<r>> \o @]

RECURSIVE Peel(_, _, _)
RECURSIVE PeelAvalanche(_, _)

(* A row that solves a column, or none, is not to be looked at again. *)
Exhausted(c, r) == [c EXCEPT !.unmarked_count[r] = 0]

(* A column is solved by one row.  Mutant: by every row that could. *)
CanSolveAny(c, x) == TRUE
CanSolve(c, x) == c.mark[x] = "todo"

(* A row loses one unmarked column: it may now solve its last one. *)
UnmarkedLess(c, r, column) ==
  LET left == (c.unmarked_count[r] - 1) % 65536
      d == [c EXCEPT !.unmarked_count[r] = left]
      other == IF c.unmarked[r][1] # column THEN c.unmarked[r][1] ELSE c.unmarked[r][2]
      found == Todo(c, PeelColumns(c, r))
      e == [d EXCEPT !.unmarked[r] = found \o SubSeq(@, Len(found) + 1, 2),
                     !.ref = [x \in WhColumns |-> IF x \in Range(found) THEN @[x] + 1 ELSE @[x]]]
  IN  CASE left = 1 -> IF CanSolve(c, other) THEN Peel(d, r, other) ELSE DeferRow(d, r)
        [] left = 2 /\ Len(found) = 2 -> e
        [] left = 2 /\ Len(found) = 1 -> Peel(Exhausted(e, r), r, found[1])
        [] left = 2 /\ Len(found) = 0 -> DeferRow(Exhausted(e, r), r)
        [] OTHER -> d

PeelAvalanche(c, column) ==
  FoldLeft(LAMBDA s, r : UnmarkedLess(s, r, column), c, c.refs[column])

Peel(c, r, column) ==
  LET d == [c EXCEPT !.mark[column] = "peel", !.unmarked[r] = <<column, 0>>,
                     !.peeled = Append(@, r)]
  IN  [PeelAvalanche(d, column) EXCEPT !.ref[column] = r]

(* A row that finds a reference list full is taken back. *)
RowFits(c, columns) == \A n \in 1 .. Len(columns) : Len(c.refs[columns[n]]) < RefListMax

OpportunisticPeeling(c, r, id) ==
  LET named == [c EXCEPT !.id[r] = id]
      columns == PeelColumns(named, r)
      found == Todo(c, columns)
      d == [named EXCEPT !.unmarked_count[r] = Len(found),
                         !.refs = [x \in WhColumns |-> IF x \in Range(columns)
                                                       THEN Append(@[x], r) ELSE @[x]]]
  IN  CASE ~RowFits(c, columns) -> named
        [] RowFits(c, columns) /\ Len(found) = 0 -> DeferRow(d, r)
        [] RowFits(c, columns) /\ Len(found) = 1 -> Peel(d, r, found[1])
        [] RowFits(c, columns) /\ Len(found) = 2 ->
             [d EXCEPT !.unmarked[r] = found, !.ref[found[1]] = @ + 1, !.ref[found[2]] = @ + 1]
        [] OTHER -> d

(* Columns are deferred until all are marked: the one with the most weight-2 *)
(* references first, then with the most rows, the last one of equals.        *)
BetterColumn(c, x, y) ==
  LET w(z) == c.ref[z]
      n(z) == Len(c.refs[z])
  IN  \/ w(x) > w(y)
      \/ w(x) = w(y) /\ n(x) > n(y)
      \/ w(x) = w(y) /\ n(x) = n(y) /\ x >= y

RECURSIVE GreedyColumns(_)
GreedyColumns(c) ==
  LET open == {x \in WhColumns : c.mark[x] = "todo"}
      best == CHOOSE x \in open : \A y \in open : BetterColumn(c, x, y)
      d == [c EXCEPT !.mark[best] = "defer", !.deferCols = <<best>> \o @]
  IN  IF open = {} THEN c ELSE GreedyColumns(PeelAvalanche(d, best))

GreedyPeeling(c) == GreedyColumns([c EXCEPT !.deferCols = <<>>])

-----------------------------------------------------------------------------
(* Compression.  GE columns: the deferred ones, then the mixing ones. *)
DeferCount(c) == Len(c.deferCols)
GeColumns(c) == DeferCount(c) + MixCount
GeColMap(c, g) == IF g < DeferCount(c) THEN c.deferCols[g + 1]
                  ELSE BlockCount + g - DeferCount(c)
MixBits(c, r) == {DeferCount(c) + x : x \in MixColumns(c, r)}

SetDeferredColumns(c) ==
  [c EXCEPT !.compress = [r \in WhRows |-> {g \in 0 .. DeferCount(c) - 1 :
                                             r \in Range(c.refs[GeColMap(c, g)])}],
            !.ref = [x \in WhColumns |-> IF x \in Range(c.deferCols)
                                         THEN CHOOSE g \in 0 .. DeferCount(c) - 1 : GeColMap(c, g) = x
                                         ELSE @[x]]]

SetMixingColumnsForDeferredRows(c) ==
  LET deferred == Range(c.deferRows)
  IN  [c EXCEPT !.unmarked = [r \in WhRows |-> IF r \in deferred THEN <<ListTerm, @[r][2]>> ELSE @[r]],
                !.compress = [r \in WhRows |-> IF r \in deferred THEN Xor(@[r], MixBits(c, r))
                                               ELSE @[r]]]

(* The input block of a row: of the encoder's final row only the bytes of the
   message are read.  Mutant: a whole block. *)
InputBlockWhole(c, r) == c.input[r]
InputBlock(c, r) == IF r = BlockCount - 1 /\ c.shortInput THEN FinalBytes(c.input[r]) ELSE c.input[r]

(* A peeled row is added to the rows that refer to its column. *)
PeelRow(c, p) ==
  LET column == PeelColumn(c, p)
      row == Xor(c.compress[p], MixBits(c, p))
      block == IF IsCopied(c, p) THEN c.recovery[column] ELSE InputBlock(c, p)
      others == Range(c.refs[column]) \ {p}
      peeled == {r \in others : PeelColumn(c, r) # ListTerm}
      Value(r) == memxor(block, IF IsCopied(c, r) THEN c.recovery[PeelColumn(c, r)]
                                ELSE InputBlock(c, r))
  IN  [c EXCEPT !.compress = [r \in WhRows |-> IF r = p THEN row
                                               ELSE IF r \in others THEN Xor(@[r], row) ELSE @[r]],
                !.unmarked = [r \in WhRows |-> IF r \in peeled THEN <<@[r][1], 1>> ELSE @[r]],
                !.recovery = [x \in DOMAIN @ |->
                    IF \E r \in peeled : PeelColumn(c, r) = x
                    THEN Value(CHOOSE r \in peeled : PeelColumn(c, r) = x)
                    ELSE IF x = column THEN block ELSE @[x]]]

PeelDiagonal(c) == FoldLeft(PeelRow, c, c.peeled)

(* The dense rows, by blocks of DenseCount columns: of each a first row with *)
(* half of the columns and then, from row to row, two columns flipped; rows  *)
(* and columns are taken in the order of shuffled decks.                     *)
ShuffleDeck16(block, n) ==
  LET Deal(deck, ii) == LET jj == Prng(0, 100 + 4 * block + n, ii) % ii
                        IN  Append([deck EXCEPT ![jj + 1] = ii], deck[jj + 1])
  IN  FoldLeft(Deal, <<0>>, [ii \in 1 .. DenseCount - 1 |-> ii])

DenseFlips(block) ==
  LET set_count == (DenseCount + 1) \div 2
      loop_count == DenseCount \div 2
      deck(n) == ShuffleDeck16(block, n)
      pair(n, ii) == {deck(n)[ii], deck(n)[set_count + ii]}
  IN  [k \in 1 .. DenseCount |->
         IF k = 1 THEN {deck(1)[ii] : ii \in 1 .. set_count}
         ELSE IF k <= loop_count + 1 THEN pair(2, k - 1) ELSE pair(3, k - 1 - loop_count)]

DenseBlocks == 0 .. (BlockCount - 1) \div DenseCount
(* The columns of dense row d. *)
DenseColumns(d) ==
  {x \in WhColumns :
     LET block == x \div DenseCount
         k == CHOOSE k \in 1 .. DenseCount : ShuffleDeck16(block, 0)[k] = d
         flips == DenseFlips(block)
     IN  Cardinality({j \in 1 .. k : x % DenseCount \in flips[j]}) % 2 = 1}

(* What a column is in terms of the GE columns. *)
ColumnBits(c) ==
  [x \in WhColumns |-> IF c.mark[x] = "peel" THEN c.compress[c.ref[x]] ELSE {c.ref[x]}]

(* Any invertible matrix: unit upper triangular. *)
InvertibleRow(d) == {d} \cup {x \in 0 .. DenseCount - 1 : x > d /\ Prng(0, 200, d + x) % 2 = 1}

MultiplyDenseRows(c, d) == XorOf(DenseColumns(d), ColumnBits(c))
AddInvertibleGF2Matrix(c, d) == {DeferCount(c) + x : x \in InvertibleRow(d)}

HeavyColumns == IF MixCount < HeavyMaxCols THEN MixCount ELSE HeavyMaxCols
HeavyRow(i) == [k \in 0 .. HeavyColumns - 1 |->
                  IF k < HeavyColumns - HeavyRows THEN Prng(p_seed, 300 + i, k) % 4
                  ELSE IF k - (HeavyColumns - HeavyRows) = i THEN 1 ELSE 0]

-----------------------------------------------------------------------------
(* Gaussian elimination.  A matrix m has the binary rows ge (dense, then      *)
(* deferred), the heavy ones, and the pivots.                                 *)
FirstHeavyColumn(c) == GeColumns(c) - HeavyColumns
FirstHeavyRow(c) == DeferCount(c) + DenseCount
(* The extra rows lie between the binary and the heavy ones. *)
HeavyIndex(c, i) == FirstHeavyRow(c) + c.extra + i

(* A GE row that no deferred row was copied to is zero. *)
CopyDeferredRows(c, g) == IF g - DenseCount < Len(c.deferRows)
                          THEN c.compress[c.deferRows[g - DenseCount + 1]] ELSE {}

CompressedMatrix(c) ==
  [ge |-> [g \in 0 .. FirstHeavyRow(c) - 1 |->
             IF g < DenseCount THEN Xor(MultiplyDenseRows(c, g), AddInvertibleGF2Matrix(c, g))
             ELSE CopyDeferredRows(c, g)],
   heavy |-> [g \in {HeavyIndex(c, i) : i \in 0 .. HeavyRows - 1} |->
                HeavyRow(g - HeavyIndex(c, 0))],
   pivots |-> [i \in 0 .. FirstHeavyRow(c) - 1 |-> i],
   firstHeavyPivot |-> FirstHeavyRow(c),
   solvable |-> TRUE]

InsertHeavyRows(c, m) ==
  LET count == FirstHeavyRow(c)
  IN  [m EXCEPT !.firstHeavyPivot = count,
                !.pivots = [i \in 0 .. count + HeavyRows - 1 |->
                              IF i < count THEN @[i] ELSE HeavyIndex(c, i - count)]]

SwapPivots(pivots, i, j) == [pivots EXCEPT ![i] = pivots[j], ![j] = pivots[i]]
PivotCount(m) == Cardinality(DOMAIN m.pivots)
LightCount(m) == IF m.firstHeavyPivot < PivotCount(m) THEN m.firstHeavyPivot ELSE PivotCount(m)

(* The light row at pivot j solves column i: its later bits are added to the  *)
(* later rows that have bit i, which they keep.                               *)
LightPivot(c, m, i, j) ==
  LET row == m.ge[m.pivots[j]]
      later == {x \in row : x > i}
      k == {m.pivots[n] : n \in j + 1 .. PivotCount(m) - 1}
      hc == i - FirstHeavyColumn(c)
      Eliminated(h) == [x \in DOMAIN h |->
        IF x + FirstHeavyColumn(c) \in later THEN GfAdd(h[x], h[hc]) ELSE h[x]]
  IN  [m EXCEPT !.pivots = SwapPivots(@, i, j),
                !.ge = [g \in DOMAIN @ |-> IF g \in k /\ i \in @[g] THEN Xor(@[g], later) ELSE @[g]],
                !.heavy = [g \in DOMAIN @ |-> IF g \in k THEN Eliminated(@[g]) ELSE @[g]]]

(* What a heavy row is multiplied by to eliminate a value.  Mutant: as if the
   pivot were one. *)
EliminatorOne(value, pivot) == value
Eliminator(value, pivot) == GfDivide(value, pivot)

(* The heavy row at pivot j solves column i: a light row it displaces goes to *)
(* the place of the first heavy pivot.                                        *)
HeavyPivot(c, m, i, j) ==
  LET row == m.heavy[m.pivots[j]]
      hc == i - FirstHeavyColumn(c)
      swapped == SwapPivots(m.pivots, i, j)
      k == {m.pivots[n] : n \in j + 1 .. PivotCount(m) - 1}
      Eliminated(h) == LET x == Eliminator(h[hc], row[hc])
                       IN  [y \in DOMAIN h |-> IF y = hc THEN x
                                               ELSE IF y > hc THEN GfAdd(h[y], GfMultiply(x, row[y]))
                                               ELSE h[y]]
  IN  [m EXCEPT !.pivots = IF i < m.firstHeavyPivot
                           THEN SwapPivots(swapped, m.firstHeavyPivot, j) ELSE swapped,
                !.firstHeavyPivot = IF i < @ THEN @ + 1 ELSE @,
                !.heavy = [g \in DOMAIN @ |-> IF g \in k THEN Eliminated(@[g]) ELSE @[g]]]

TriangleColumn(c, m, i) ==
  LET light == {j \in i .. LightCount(m) - 1 : i \in m.ge[m.pivots[j]]}
      from == IF i < m.firstHeavyPivot THEN m.firstHeavyPivot ELSE i
      heavy == {j \in from .. PivotCount(m) - 1 :
                  m.heavy[m.pivots[j]][i - FirstHeavyColumn(c)] # 0}
  IN  CASE ~m.solvable -> m
        [] m.solvable /\ light # {} -> LightPivot(c, m, i, LeastOf(light))
        [] m.solvable /\ light = {} /\ heavy # {} -> HeavyPivot(c, m, i, LeastOf(heavy))
        [] OTHER -> [m EXCEPT !.solvable = FALSE]

(* The heavy rows come in at the first heavy column. *)
TriangleStep(c, m, i) ==
  TriangleColumn(c, IF i = FirstHeavyColumn(c) THEN InsertHeavyRows(c, m) ELSE m, i)

Triangle(c, m) ==
  FoldLeft(LAMBDA t, i : TriangleStep(c, t, i), m, [n \in 1 .. GeColumns(c) |-> n - 1])

-----------------------------------------------------------------------------
(* Substitution. *)
(* The GE column that stands for a column, and the row that solves it. *)
IsGeColumn(c, x) == x >= BlockCount \/ x \in Range(c.deferCols)
SolvingRow(c, m, x) == m.pivots[CHOOSE i \in 0 .. GeColumns(c) - 1 : GeColMap(c, i) = x]
PeeledAmong(c, columns) == {x \in columns : c.mark[x] = "peel"}

(* Dense and heavy rows sum to zero; of a deferred row the peeled part goes. *)
ColumnValue(c, g) ==
  LET row == c.deferRows[g - DenseCount + 1]
  IN  IF g < DenseCount \/ g >= FirstHeavyRow(c) THEN ZeroBlock
      ELSE memxor(InputBlock(c, row),
                  SumOf(PeeledAmong(c, Range(PeelColumns(c, row))), c.recovery))
InitializeColumnValues(c, m) ==
  [c EXCEPT !.recovery = [x \in DOMAIN @ |->
     IF IsGeColumn(c, x) THEN ColumnValue(c, SolvingRow(c, m, x)) ELSE @[x]]]

(* A dense row that solves a column gets the peeled values. *)
MultiplyDenseValues(c, m) ==
  [c EXCEPT !.recovery = [x \in DOMAIN @ |->
     IF IsGeColumn(c, x) /\ SolvingRow(c, m, x) < DenseCount
     THEN memxor(@[x], SumOf(PeeledAmong(c, DenseColumns(SolvingRow(c, m, x))), @))
     ELSE @[x]]]

(* The coefficient of column x in the row of pivot i. *)
Coefficient(c, m, i, x) ==
  IF m.pivots[i] \in DOMAIN m.heavy
  THEN IF x >= FirstHeavyColumn(c) THEN m.heavy[m.pivots[i]][x - FirstHeavyColumn(c)] ELSE 0
  ELSE IF x \in m.ge[m.pivots[i]] THEN 1 ELSE 0

AddTo(c, i, x, k) == [c EXCEPT !.recovery[GeColMap(c, i)] =
                        MemMulAdd(@, k, c.recovery[GeColMap(c, x)])]
Ascending(i, j) == [n \in 1 .. j - i + 1 |-> i + n - 1]

(* Windows of w columns.  The sums of the blocks of a window's columns go to a *)
(* table, which lies in the blocks of the first peeled columns; of one column  *)
(* the block itself is used.                                                   *)
PeeledSpace(c) == SetToSortSeq(PeeledAmong(c, WhColumns), LAMBDA x, y : x < y)
BitsOf(n, w) == {k \in 0 .. w - 1 : (n \div 2^k) % 2 = 1}
(* Mutant: the table holds the first column of each window's entry. *)
TableOfFirst(c, space, first, w) ==
  [c EXCEPT !.recovery = [x \in DOMAIN @ |->
     IF \E n \in 1 .. 2^w - 1 : space[n] = x /\ Cardinality(BitsOf(n, w)) > 1
     THEN @[GeColMap(c, first)] ELSE @[x]]]
TableMade(c, space, first, w) ==
  [c EXCEPT !.recovery = [x \in DOMAIN @ |->
     IF \E n \in 1 .. 2^w - 1 : space[n] = x /\ Cardinality(BitsOf(n, w)) > 1
     THEN SumOf({GeColMap(c, first + k) : k \in BitsOf(CHOOSE n \in 1 .. 2^w - 1 : space[n] = x, w)}, @)
     ELSE @[x]]]
AddTable(c, m, space, first, w, i) ==
  LET bits == {k \in 0 .. w - 1 : first + k \in m.ge[m.pivots[i]]}
      entry == IF Cardinality(bits) = 1 THEN GeColMap(c, first + LeastOf(bits))
               ELSE space[CHOOSE n \in 1 .. 2^w - 1 : BitsOf(n, w) = bits]
  IN  IF bits = {} THEN c
      ELSE [c EXCEPT !.recovery[GeColMap(c, i)] = memxor(@, c.recovery[entry])]
IsHeavyPivot(m, i) == m.pivots[i] \in DOMAIN m.heavy

(* Under the diagonal: within the window, then the table for the rows below. *)
(* Mutant: nothing within the window. *)
UnderWindowOnlyBelow(c, m, space, first, w) ==
  FoldLeft(LAMBDA t, i : AddTable(t, m, space, first, w, i), TableMade(c, space, first, w),
           SelectSeq(Ascending(first + w, GeColumns(c) - 1), LAMBDA i : ~IsHeavyPivot(m, i)))
UnderWindow(c, m, space, first, w) ==
  LET last == first + w - 1
      Small(s, i) == FoldLeft(LAMBDA t, d : AddTo(t, d, i, Coefficient(c, m, d, i)), s, Ascending(i + 1, last))
      below == SelectSeq(Ascending(last + 1, GeColumns(c) - 1), LAMBDA i : ~IsHeavyPivot(m, i))
  IN  FoldLeft(LAMBDA t, i : AddTable(t, m, space, first, w, i),
               TableMade(FoldLeft(Small, c, Ascending(first, last - 1)), space, first, w), below)
(* Windows narrow as fewer columns are left, which is only looked at from the *)
(* column check on.                                                           *)
WindowAt(windows, left) ==
  LET open == {n \in 2 .. Len(windows) : left >= windows[n].at}
  IN  IF open = {} THEN [w |-> 0, at |-> 0] ELSE windows[LeastOf(open)]
RECURSIVE UnderFrom(_, _, _, _, _, _)
UnderNext(c, m, space, next, w, check, left, window) ==
  CASE next < check -> UnderFrom(c, m, space, next, w, check)
    [] next >= check /\ window.w > 0 -> UnderFrom(c, m, space, next, window.w, left - window.at)
    [] OTHER -> [codec |-> c, pivot |-> next]
UnderFrom(c, m, space, i, w, check) ==
  UnderNext(UnderWindow(c, m, space, i, w), m, space, i + w, w, check,
            GeColumns(c) - (i + w), WindowAt(UnderWindows, GeColumns(c) - (i + w)))
(* No window for few columns, or when the table finds no room. *)
WindowedUnder(c, m) ==
  LET n == LeastOf({n \in 1 .. Len(UnderWindows) : GeColumns(c) >= UnderWindows[n].at})
      space == PeeledSpace(c)
  IN  IF GeColumns(c) < UnderWindows[Len(UnderWindows) - 1].at \/ Len(space) < 2^UnderWindows[n].w - 1
      THEN [codec |-> c, pivot |-> 0]
      ELSE UnderFrom(c, m, space, 0, UnderWindows[n].w, GeColumns(c) - UnderWindows[n].at)

(* The row of pivot u, one coefficient at a time. *)
AddHeavy(c, m, first, top, u) ==
  FoldLeft(LAMBDA t, x : AddTo(t, u, x, Coefficient(c, m, u, x)), c, Ascending(first, top))
AddSubdiagonalValues(c, m) ==
  LET AfterWindows(under) ==
        FoldLeft(LAMBDA t, i : AddHeavy(t, m, IF IsHeavyPivot(m, i) THEN FirstHeavyColumn(c)
                                              ELSE under.pivot, i - 1, i),
                 under.codec, Ascending(under.pivot + 1, GeColumns(c) - 1))
  IN  AfterWindows(WindowedUnder(c, m))

(* Above the diagonal: within the window, from its last column; the heavy rows *)
(* above it one coefficient at a time, and the table for the others.           *)
Normalized(c, m, i) == [c EXCEPT !.recovery[GeColMap(c, i)] = MemDivide(@, Coefficient(c, m, i, i))]
Up(c, m, i, first) == FoldLeft(LAMBDA t, u : AddTo(t, u, i, Coefficient(c, m, u, i)), Normalized(c, m, i),
                               Ascending(first, i - 1))
(* Mutant: the heavy rows above the window are left out. *)
AboveWindowLight(c, m, space, top, w) ==
  LET first == top - w + 1
      small == FoldLeft(LAMBDA t, n : Up(t, m, top + 1 - n, first), c, Ascending(1, w))
  IN  FoldLeft(LAMBDA t, u : AddTable(t, m, space, first, w, u), TableMade(small, space, first, w),
               SelectSeq(Ascending(0, first - 1), LAMBDA u : ~IsHeavyPivot(m, u)))
AboveWindow(c, m, space, top, w) ==
  LET first == top - w + 1
      small == FoldLeft(LAMBDA t, n : Up(t, m, top + 1 - n, first), c, Ascending(1, w))
      Singly(u) == top >= FirstHeavyColumn(c) /\ IsHeavyPivot(m, u)
      heavy == SelectSeq(Ascending(0, first - 1), Singly)
      others == SelectSeq(Ascending(0, first - 1), LAMBDA u : ~Singly(u))
  IN  FoldLeft(LAMBDA t, u : AddTable(t, m, space, first, w, u),
               FoldLeft(LAMBDA t, u : AddHeavy(t, m, first, top, u), TableMade(small, space, first, w), heavy),
               others)
(* Mutant: the plain loop starts at the last window's first column. *)
AboveFromAgain(c, m, space, i, w, check) ==
  [codec |-> AboveWindow(c, m, space, i, w), pivot |-> i - w + 1]
RECURSIVE AboveFrom(_, _, _, _, _, _)
AboveNext(c, m, space, next, w, check, window) ==
  CASE next >= check -> AboveFrom(c, m, space, next, w, check)
    [] next < check /\ window.w > 0 -> AboveFrom(c, m, space, next, window.w, window.at)
    [] OTHER -> [codec |-> c, pivot |-> next]
AboveFrom(c, m, space, i, w, check) ==
  AboveNext(AboveWindow(c, m, space, i, w), m, space, i - w, w, check, WindowAt(AboveWindows, i - w))
WindowedAbove(c, m) ==
  LET top == GeColumns(c) - 1
      n == LeastOf({n \in 1 .. Len(AboveWindows) : top >= AboveWindows[n].at})
      space == PeeledSpace(c)
  IN  IF top < AboveWindows[Len(AboveWindows) - 1].at \/ Len(space) < 2^AboveWindows[n].w - 1
      THEN [codec |-> c, pivot |-> top]
      ELSE AboveFrom(c, m, space, top, AboveWindows[n].w, AboveWindows[n].at)

BackSubstituteAboveDiagonal(c, m) ==
  LET AfterWindows(above) == FoldLeft(LAMBDA t, n : Up(t, m, above.pivot + 1 - n, 0),
                                      above.codec, Ascending(1, above.pivot + 1))
  IN  AfterWindows(WindowedAbove(c, m))

(* The mixing blocks of a row. *)
MixBlocks(c, mix) == SumOf({BlockCount + x : x \in mix}, c.recovery)

SubstituteRow(c, r) ==
  LET column == PeelColumn(c, r)
      others == Range(PeelColumns(c, r)) \ {column}
  IN  [c EXCEPT !.recovery[column] =
         memxor(memxor(InputBlock(c, r), MixBlocks(c, MixColumns(c, r))), SumOf(others, c.recovery))]

Substitute(c) == FoldLeft(SubstituteRow, c, c.peeled)

-----------------------------------------------------------------------------
CompressedCodec(c) == PeelDiagonal(SetMixingColumnsForDeferredRows(SetDeferredColumns(GreedyPeeling(c))))

GenerateRecoveryBlocks(c, m) ==
  Substitute(BackSubstituteAboveDiagonal(
    AddSubdiagonalValues(MultiplyDenseValues(InitializeColumnValues(c, m), m), m), m))

(* SolveMatrix and, when it wins, the recovery blocks. *)
Solved(c) ==
  LET Outcome(d, m) == IF m.solvable THEN [result |-> "win", codec |-> GenerateRecoveryBlocks(d, m)]
                       ELSE [result |-> "more", codec |-> d]
      Compressed(d) == Outcome(d, Triangle(d, CompressedMatrix(d)))
  IN  Compressed(CompressedCodec(c))

(* A row of the code, from the recovery blocks. *)
Combine(c, id) ==
  LET row == GeneratePeelRow(p_seed, id)
  IN  memxor(SumOf(Range(row.peel), c.recovery), MixBlocks(c, row.mix))

(* BlockCount symbols are copied, the final block without its tail. *)
Encode(id) == IF id < BlockCount - 1 THEN encoder.input[id]
              ELSE IF id = BlockCount - 1 THEN JunkTail(encoder.input[id])
              ELSE Combine(encoder, id)

NewCodec(shortInput, extra, input) ==
  [row_count |-> 0, all_original |-> TRUE, shortInput |-> shortInput, extra |-> extra,
   id |-> [r \in WhRows |-> 0], unmarked_count |-> [r \in WhRows |-> 0],
   unmarked |-> [r \in WhRows |-> <<0, 0>>],
   mark |-> [x \in WhColumns |-> "todo"], ref |-> [x \in WhColumns |-> 0],
   refs |-> [x \in WhColumns |-> <<>>], compress |-> [r \in WhRows |-> {}],
   peeled |-> <<>>, deferRows |-> <<>>, deferCols |-> <<>>,
   input |-> input, recovery |-> [x \in 0 .. BlockCount + MixCount - 1 |-> JunkBlock]]

NoMessage == [i \in {} |-> ZeroBlock]

NoCodec == [row_count |-> 0]

WirehairInit ==
  /\ p_seed \in Seeds
  /\ encoder = NoCodec /\ encodeResult = "none"
  /\ decoder = NoCodec /\ decodeResult = "none" /\ output = NoMessage
  /\ sentId = -1 /\ repeats = 0 /\ solves = 0

(* The rows are fed in turn until one is refused; row_count counts them. *)
EncodeRow(c, id) ==
  LET fits == RowFits(c, GeneratePeelRow(p_seed, id).peel)
  IN  IF c.row_count < id THEN c
      ELSE [OpportunisticPeeling(c, id, id) EXCEPT !.row_count = IF fits THEN @ + 1 ELSE @]

(* InitializeEncoder(), the message lying in a buffer that goes on after it. *)
InitializeEncoder ==
  NewCodec(TRUE, 0, [r \in WhRows |-> IF r = BlockCount - 1 THEN JunkTail(MessageBlock(r))
                                      ELSE MessageBlock(r)])

(* Encoder::BeginEncode(): EncodeFeed() on the new codec. *)
EncodeFeed ==
  /\ encodeResult = "none"
  /\ \E fed \in {FoldLeft(EncodeRow, InitializeEncoder, [n \in 1 .. BlockCount |-> n - 1])} :
       IF fed.row_count < BlockCount THEN encoder' = fed /\ encodeResult' = "bad_seed"
       ELSE \E s \in {Solved(fed)} :
              /\ encoder' = s.codec
              /\ encodeResult' = IF s.result = "win" THEN "win" ELSE "bad_seed"
  /\ UNCHANGED <<p_seed, decoder, decodeResult, output, sentId, repeats, solves>>

(* Decoder::BeginDecode(): the input blocks are not initialised. *)
InitializeDecoder ==
  /\ encodeResult = "win" /\ decodeResult = "none"
  /\ decoder' = NewCodec(FALSE, ExtraRows, [r \in WhRows |-> JunkBlock])
  /\ decodeResult' = "more"
  /\ UNCHANGED <<p_seed, encoder, encodeResult, output, sentId, repeats, solves>>

(* DecodeFeed stores the block of a row that was taken. *)
DecodeFeed(c, id) ==
  LET d == OpportunisticPeeling([c EXCEPT !.all_original = @ /\ id < BlockCount], c.row_count, id)
  IN  IF c.row_count >= BlockCount THEN c
      ELSE IF RowFits(c, GeneratePeelRow(p_seed, id).peel)
      THEN [d EXCEPT !.input[c.row_count] = IF id = BlockCount - 1 THEN FinalBytes(Encode(id)) ELSE Encode(id),
                     !.row_count = @ + 1]
      ELSE d

IsAllOriginalData(c) == {c.id[r] : r \in 0 .. c.row_count - 1} = WhRows

(* With no more than BlockCount rows it is always the matrix that is solved. *)
DecodeSolve(c) == IF c.all_original /\ IsAllOriginalData(c) THEN [result |-> "win", codec |-> c]
                  ELSE Solved(c)

ReconstructOutput(c) ==
  [i \in WhRows |->
     LET got == {r \in 0 .. c.row_count - 1 : c.id[r] = i}
         block == IF got # {} THEN c.input[CHOOSE r \in got : \A q \in got : r >= q] ELSE Combine(c, i)
     IN  IF i = BlockCount - 1 THEN FinalBytes(block) ELSE block]

(* Decoder::Decode: feed, then solve. *)
Decode(id) ==
  /\ decodeResult = "more"
  /\ sentId' = id
  /\ \E fed \in {DecodeFeed(decoder, id)} :
       IF fed.row_count < BlockCount
       THEN decoder' = fed /\ decodeResult' = "more" /\ UNCHANGED <<output, solves>>
       ELSE \E s \in {DecodeSolve(fed)} :
              /\ decoder' = s.codec /\ decodeResult' = s.result /\ solves' = solves + 1
              /\ output' = IF s.result = "win" THEN ReconstructOutput(s.codec) ELSE output
  /\ UNCHANGED <<p_seed, encoder, encodeResult>>

Arrives == /\ \E id \in sentId + 1 .. LastId : Decode(id)
           /\ UNCHANGED repeats
ArrivesAgain == /\ sentId >= 0 /\ repeats < MaxRepeats
                /\ repeats' = repeats + 1
                /\ Decode(sentId)

WirehairNext ==
  EncodeFeed \/ InitializeDecoder \/ (solves <= MaxAfter /\ (Arrives \/ ArrivesAgain))
WirehairSpec == WirehairInit /\ [][WirehairNext]_wirehairVars

-----------------------------------------------------------------------------
(* Peeling is right: every row is on exactly one of the two lists, the columns
   are peeled by one row or deferred, as many rows are deferred as columns, and
   the peeled rows are in an order in which each can be solved from earlier
   ones.  (What compression relies on at the sizes of AllocateMatrix.) *)
Position(c, r) == CHOOSE n \in 1 .. Len(c.peeled) : c.peeled[n] = r
PeeledRight(c) ==
  /\ IsInjective(c.peeled) /\ IsInjective(c.deferRows)
  /\ Range(c.peeled) \cup Range(c.deferRows) = WhRows
  /\ Range(c.peeled) \cap Range(c.deferRows) = {}
  /\ Len(c.deferRows) = Len(c.deferCols)
  /\ \A x \in WhColumns : c.mark[x] = "peel" <=> \E r \in Range(c.peeled) : PeelColumn(c, r) = x
  /\ \A r \in Range(c.peeled) : \A x \in Range(PeelColumns(c, r)) \ {PeelColumn(c, r)} :
       c.mark[x] = "peel" => Position(c, c.ref[x]) < Position(c, r)
HasSolved(c) == c # NoCodec /\ \E r \in WhRows : c.compress[r] # {}

(* The encoder's recovery blocks satisfy the rows of the message. *)
EncoderRight == encodeResult = "win" => \A i \in WhRows : Combine(encoder, i) = MessageBlock(i)

(* "Return R_WIN when message has been reconstructed" (Wirehair.hpp): whatever
   blocks were lost or repeated, a decoder that wins has the message. *)
DecodedIsMessage == output # NoMessage => output = [i \in WhRows |-> MessageBlock(i)]

(* The matrix of every size of message: the roots and primes that the tables
   give are the true ones (up to where the roots have been stepped over a
   square), and each of the 63 999 sizes finds a dense seed, its count being 2
   modulo 4 as the shuffle codes need. *)
RootsRight == \A r \in 0 .. 255, d \in 0 .. 1 : r * r > d => SquareRoot16(r * r - d) = Isqrt(r * r - d)
IsPrime(n) == n > 1 /\ \A d \in 2 .. Isqrt(n) : n % d # 0
PrimesRight == \A n \in 2 .. 3000 : /\ IsPrime(NextPrime16(n)) /\ NextPrime16(n) >= n
                                    /\ \A k \in n .. NextPrime16(n) - 1 : ~IsPrime(k)
SeedsFound == \A n \in 2 .. MaxN : DenseSeedFound(DenseRounded(n)) /\ DenseRounded(n) % 4 = 2

(* Peeling, elimination and substitution are right on both sides, as long as
   the decoder wins or gives up at its first attempt. *)
CodecRight == /\ RootsRight /\ PrimesRight /\ SeedsFound
              /\ EncoderRight
              /\ solves = 1 => DecodedIsMessage
              /\ HasSolved(encoder) => PeeledRight(encoder)
              /\ HasSolved(decoder) /\ solves = 1 => PeeledRight(decoder)
=============================================================================

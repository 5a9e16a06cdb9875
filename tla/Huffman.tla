------------------------------ MODULE Huffman ------------------------------
(***************************************************************************)
(* The Huffman coder, src/src/codec/Huffman.cpp: a heap of trees, merged     *)
(* code_symbols at a time until one is left.  A tree is its probability and, *)
(* of each letter, the encoding that leads to it from the root.  Which of    *)
(* equally probable trees the heap gives first is left open.                 *)
(***************************************************************************)
EXTENDS Integers, Sequences, FiniteSets, FiniteSetsExt

CONSTANTS HuffLetters, Probabilities,
          CodeSymbols      \* the values of code_symbols
VARIABLES huff_heap, huff_branch, huff_tree, huff_weights, code_symbols
huffVars == <<huff_heap, huff_branch, huff_tree, huff_weights, code_symbols>>

NoTree == [p |-> 0, codes |-> <<>>]
HuffInit == /\ huff_heap = {} /\ huff_branch = <<>> /\ huff_tree = NoTree
            /\ huff_weights = <<>> /\ code_symbols = 0    \* BuildTree is not called yet

(* A letter is added once. *)
AddSymbol(letter, p) ==
  /\ code_symbols = 0 /\ letter \notin DOMAIN huff_weights
  /\ huff_heap' = huff_heap \cup {[p |-> p, codes |-> [x \in {letter} |-> <<>>]]}
  /\ huff_weights' = [x \in DOMAIN huff_weights \cup {letter} |->
                        IF x = letter THEN p ELSE huff_weights[x]]
  /\ UNCHANGED <<huff_branch, huff_tree, code_symbols>>

(* Any of the least probable ones.  Mutant: any. *)
TopAny(heap) == heap
TopOf(heap) == {n \in heap : \A o \in heap : n.p <= o.p}

(* FillEncodings: the letters of child i get the symbol i in front.  Mutant:
   all but the first child get the same. *)
FilledAlike(children) ==
  [x \in UNION {DOMAIN children[i].codes : i \in DOMAIN children} |->
     LET i == CHOOSE i \in DOMAIN children : x \in DOMAIN children[i].codes
     IN  <<IF i = 1 THEN 0 ELSE 1>> \o children[i].codes[x]]
CodesFilled(children) ==
  [x \in UNION {DOMAIN children[i].codes : i \in DOMAIN children} |->
     LET i == CHOOSE i \in DOMAIN children : x \in DOMAIN children[i].codes
     IN  <<i - 1>> \o children[i].codes[x]]
SumOfTrees(children) == FoldFunction(LAMBDA n, s : n.p + s, 0, children)

(* BuildTree is called, with at least one letter. *)
StartTree(n) == /\ code_symbols = 0 /\ huff_heap # {}
                /\ code_symbols' = n
                /\ UNCHANGED <<huff_heap, huff_branch, huff_tree, huff_weights>>
(* BuildTree: the next child of the branch is taken from the heap; a branch with
   all its children, or with the last tree there was, goes back to the heap. *)
BuildTree ==
  /\ code_symbols > 0 /\ Cardinality(huff_heap) + Len(huff_branch) > 1
  /\ \E top \in TopOf(huff_heap) :
       LET branch == Append(huff_branch, top)
           rest == huff_heap \ {top}
       IN  IF Len(branch) = code_symbols \/ rest = {}
           THEN /\ huff_heap' = rest \cup {[p |-> SumOfTrees(branch), codes |-> CodesFilled(branch)]}
                /\ huff_branch' = <<>>
           ELSE huff_heap' = rest /\ huff_branch' = branch
  /\ UNCHANGED <<huff_tree, huff_weights, code_symbols>>
(* The last one is the tree. *)
InitializeTree ==
  /\ code_symbols > 0 /\ huff_branch = <<>> /\ Cardinality(huff_heap) = 1
  /\ huff_tree' = CHOOSE n \in huff_heap : TRUE
  /\ huff_heap' = {}
  /\ UNCHANGED <<huff_branch, huff_weights, code_symbols>>

HuffNext == \/ \E l \in HuffLetters, p \in Probabilities : AddSymbol(l, p)
            \/ \E n \in CodeSymbols : StartTree(n)
            \/ BuildTree \/ InitializeTree
HuffSpec == HuffInit /\ [][HuffNext]_huffVars

-----------------------------------------------------------------------------
Coded == DOMAIN huff_tree.codes
IsPrefixOf(s, t) == Len(s) <= Len(t) /\ SubSeq(t, 1, Len(s)) = s
WeightedLength(lengths) == FoldFunctionOnSet(+, 0, [x \in DOMAIN lengths |-> lengths[x] * huff_weights[x]],
                                             DOMAIN lengths)
(* Lengths a binary prefix code can have (Kraft). *)
KraftHolds(lengths) ==
  LET n == Cardinality(DOMAIN lengths)
  IN  FoldFunctionOnSet(+, 0, [x \in DOMAIN lengths |-> 2 ^ (n - lengths[x])], DOMAIN lengths) <= 2 ^ n

(* A message can only be read in one way: every letter that was added has an
   encoding, and none is the beginning of another's; and with two code symbols
   no prefix code gives the letters a smaller expected length, whatever the heap
   does with equal probabilities. *)
HuffmanRight ==
  huff_tree # NoTree =>
    /\ Coded = DOMAIN huff_weights
    /\ \A x \in Coded, y \in Coded :
         IsPrefixOf(huff_tree.codes[x], huff_tree.codes[y]) => x = y
    /\ code_symbols = 2 /\ Cardinality(Coded) > 1 =>
         LET mine == WeightedLength([x \in Coded |-> Len(huff_tree.codes[x])])
         IN  \A other \in [Coded -> 1 .. Cardinality(Coded) - 1] :
               KraftHolds(other) => mine <= WeightedLength(other)
=============================================================================

---------------------------- MODULE RagdollFile ----------------------------
(***************************************************************************)
(* The settings file (src/src/io/RagdollFile.cpp): reading it, overriding  *)
(* it with another, changing settings, and writing the file again with     *)
(* what was changed, in place.                                             *)
(*                                                                         *)
(* The text is a sequence of tokens, for each line its name with its depth *)
(* and then its value; an offset is a number of tokens, so the end of the  *)
(* key of line i is 2i - 1 and its end of line 2i.  The key of a line is   *)
(* the path of names that leads to it.  Items are linked by _sort_next in  *)
(* lists of modified and of new items, which Write() takes apart and puts  *)
(* together again while it walks along them.                               *)
(***************************************************************************)
EXTENDS Integers, Sequences, FiniteSets
LOCAL INSTANCE SequencesExt
LOCAL INSTANCE TLC

CONSTANTS
  Files,       \* the files that are read first: sequences of tokens
  Overrides,   \* the files that may override the first
  SettingKeys,        \* keys the program uses: sequences of names
  Values,      \* values it sets; 0 is the empty string
  Wordy,       \* the values that begin with a letter
  Short,       \* the names of one letter
  MaxChanges   \* bound: settings changed and files read over it

ASSUME RagdollAssumption == MaxChanges \in Nat /\ \A k \in SettingKeys : Len(k) > 0

NoItem == <<>>
Unset == -100   \* a field that the code leaves uninitialised

VARIABLES
  text,       \* the file
  table,      \* _table: the item of each key
  newest,     \* _newest, _modded, _eof_head: the first key of each list
  modded,
  eof_head,
  visiting,   \* the item Write() comes to in the list of new items
  writing,    \* where Write() is
  changes

ragdollVars == <<text, table, newest, modded, eof_head, visiting, writing, changes>>

-----------------------------------------------------------------------------
\* Mutant: a line is the child of the line before it that is deeper or equal.
ParentLineFlat(lines, i) == {j \in 1 .. i - 1 : lines[j].depth <= lines[i].depth}
(* ReadTokens(): the lines before it that line i may be nested in. *)
ParentLine(lines, i) == {j \in 1 .. i - 1 : lines[j].depth < lines[i].depth}

(* NextLine(): the lines of a text.  FindSecondTokenEnd() returns the start of
   the value, which is so read again as a line of its own, of depth 0; it is
   skipped like a comment unless it begins with a letter. *)
LinesOf(t) == FoldLeft(LAMBDA ls, i :
                 ls \o <<[depth |-> t[2*i - 1].depth, name |-> t[2*i - 1].name,
                          value |-> t[2*i], at |-> i]>>
                    \o IF t[2*i] \in Wordy
                       THEN <<[depth |-> 0, name |-> t[2*i], value |-> 0, at |-> i]>> ELSE <<>>,
                 <<>>, [i \in 1 .. Len(t) \div 2 |-> i])

(* The key of every line: its parent is the last of the lines that are less
   deep, however deep they are. *)
KeysOf(lines) ==
  LET key[i \in 1 .. Len(lines)] ==
        LET above == ParentLine(lines, i)
        IN  IF above = {} THEN <<lines[i].name>>
            ELSE Append(key[CHOOSE j \in above : \A n \in above : n <= j], lines[i].name)
  IN  key

(* ReadTokens(): one line goes into the table; a key that is there already is
   put on the list of modified items. *)
Enlist(f, k) == IF f.table[k].enlisted THEN f
                ELSE [f EXCEPT !.table[k].enlisted = TRUE, !.table[k].next = f.modded,
                               !.modded = k]
ReadLine(f, k, line, override) ==
  LET new == [value |-> line.value, depth |-> line.depth,
              offset |-> Unset, eol |-> Unset, enlisted |-> override,
              next |-> IF override THEN f.newest ELSE NoItem]
      g == IF k \in DOMAIN f.table THEN Enlist(f, k)
           ELSE [f EXCEPT !.table = [q \in DOMAIN @ \cup {k} |-> IF q = k THEN new ELSE @[q]],
                          !.newest = IF override THEN k ELSE @]
      h == [g EXCEPT !.table[k].value = line.value, !.table[k].depth = line.depth]
  IN  IF override THEN h
      ELSE [h EXCEPT !.table[k].offset = 2 * line.at - 1, !.table[k].eol = 2 * line.at]

(* Parser::Read(). *)
ReadFile(f, t, override) ==
  LET lines == LinesOf(t)
      keys == KeysOf(lines)
  IN  FoldLeft(LAMBDA g, i : ReadLine(g, keys[i], lines[i], override), f,
               [i \in 1 .. Len(lines) |-> i])
EmptyFile == [table |-> [k \in {} |-> NoItem], newest |-> NoItem, modded |-> NoItem]
FileIs(f) == table' = f.table /\ newest' = f.newest /\ modded' = f.modded

RagdollInit ==
  /\ text \in Files
  /\ LET f == ReadFile(EmptyFile, text, FALSE)
     IN  table = f.table /\ newest = f.newest /\ modded = f.modded
  /\ eof_head = NoItem /\ visiting = NoItem /\ writing = "open" /\ changes = 0

Changed == writing = "open" /\ changes < MaxChanges /\ changes' = changes + 1

(* File::Override(). *)
Override(t) == /\ Changed
               /\ FileIs(ReadFile([table |-> table, newest |-> newest, modded |-> modded], t, TRUE))
               /\ UNCHANGED <<text, eof_head, visiting, writing>>

(* File::Set() of a key that is there. *)
SetItem(k, v) ==
  /\ Changed /\ k \in DOMAIN table
  /\ LET f == Enlist([table |-> table, newest |-> newest, modded |-> modded], k)
     IN  FileIs([f EXCEPT !.table[k].value = v])
  /\ UNCHANGED <<text, eof_head, visiting, writing>>

(* File::Set() of a new key, or Get() with this default. *)
AddItem(k, v) ==
  /\ Changed /\ k \notin DOMAIN table
  /\ table' = [q \in DOMAIN table \cup {k} |->
                 IF q # k THEN table[q]
                 ELSE [value |-> v, depth |-> Unset, offset |-> Unset, eol |-> Unset,
                       enlisted |-> TRUE, next |-> newest]]
  /\ newest' = k
  /\ UNCHANGED <<text, modded, eof_head, visiting, writing>>

-----------------------------------------------------------------------------
(* File::Write(), up to its loop over the new items. *)
WriteStart == /\ writing = "open"
              /\ writing' = "new" /\ visiting' = newest /\ eof_head' = NoItem
              /\ UNCHANGED <<text, table, newest, modded, changes>>

(* WriteNewKey(): the lengths of the sections it looks for above a key. *)
Sections(k) == {n \in 1 .. Len(k) - 1 : n > 1 \/ k[1] \notin Short}
\* Mutant: a new item goes after its parent, on a list or not.
AfterParentAlways(p) == TRUE
(* Whether new items are inserted after their parent, or on the modified list. *)
AfterParent(p) == table[p].enlisted
(* Where the items under a parent are placed: after its line, or with it if it
   is new itself. *)
PlaceUnder(p) == IF table[p].eol # 0 THEN table[p].eol ELSE table[p].offset

(* WriteNewKey() for one item of the list: it goes after the nearest section
   that is in the table, with new items for the sections in between. *)
VisitNew ==
  /\ writing = "new" /\ visiting # NoItem
  /\ LET k == visiting
         there == {n \in Sections(k) : SubSeq(k, 1, n) \in DOMAIN table}
         p == IF there = {} THEN 0 ELSE CHOOSE n \in there : \A j \in there : j <= n
         parent == SubSeq(k, 1, p)
         chain == {n \in Sections(k) : n > p} \cup {Len(k)}   \* lengths of the new keys
         first == CHOOSE n \in chain : \A j \in chain : n <= j
         front == SubSeq(k, 1, first)
         base == IF p = 0 THEN -1 ELSE table[parent].depth
         after == IF p = 0 THEN eof_head
                  ELSE IF AfterParent(parent) THEN table[parent].next ELSE modded
         made(n) == [value |-> IF n = Len(k) THEN table[k].value ELSE 0,
                     depth |-> base + 1 + (n - first),
                     offset |-> IF p = 0 THEN 0 ELSE PlaceUnder(parent), eol |-> 0,
                     enlisted |-> TRUE,
                     next |-> IF n = Len(k) THEN after ELSE SubSeq(k, 1, n + 1)]
     IN  /\ table' = [q \in DOMAIN table \cup {SubSeq(k, 1, n) : n \in chain} |->
                        IF \E n \in chain : q = SubSeq(k, 1, n) THEN made(Len(q))
                        ELSE IF p # 0 /\ q = parent /\ AfterParent(parent)
                        THEN [table[q] EXCEPT !.next = front] ELSE table[q]]
         /\ eof_head' = IF p = 0 THEN front ELSE eof_head
         /\ modded' = IF p # 0 /\ ~AfterParent(parent) THEN front ELSE modded
         /\ visiting' = table[k].next
  /\ UNCHANGED <<text, newest, writing, changes>>

(* The items of a list, as far as there may be. *)
ListOf(head) ==
  LET list[n \in 0 .. Cardinality(DOMAIN table) + 1] ==
        IF n = 0 THEN <<head>>
        ELSE IF Last(list[n - 1]) = NoItem THEN list[n - 1]
        ELSE Append(list[n - 1], table[Last(list[n - 1])].next)
  IN  Front(list[Cardinality(DOMAIN table) + 1])

\* Mutant: a sort that turns equal items round.
SortedUnstable(s) ==
  LET at == SortSeq([n \in 1 .. Len(s) |-> n],
                    LAMBDA a, b : \/ table[s[a]].offset < table[s[b]].offset
                                  \/ table[s[a]].offset = table[s[b]].offset /\ a > b)
  IN  [n \in 1 .. Len(s) |-> s[at[n]]]
(* HashItem::MergeSort(): by offset, and stable (module MergeSort). *)
SortedByOffset(s) ==
  LET at == SortSeq([n \in 1 .. Len(s) |-> n],
                    LAMBDA a, b : \/ table[s[a]].offset < table[s[b]].offset
                                  \/ table[s[a]].offset = table[s[b]].offset /\ a < b)
  IN  [n \in 1 .. Len(s) |-> s[at[n]]]

(* WriteItem(): a line of its own. *)
LineOf(k) == <<[depth |-> table[k].depth, name |-> Last(k)], table[k].value>>

(* Write()'s loop over the modified items: the text up to the item, and its
   value or its line. *)
WriteModded(out, k) ==
  LET it == table[k]
  IN  [text |-> out.text \o SubSeq(text, out.from + 1, it.offset)
                \o IF it.eol # 0 THEN <<it.value>> ELSE LineOf(k),
       from |-> IF it.eol # 0 THEN it.eol ELSE it.offset]

(* The rest of Write(): modified items, what is left of the text, new items at
   the end; the lists are empty then. *)
WriteOut ==
  /\ writing = "new" /\ visiting = NoItem
  /\ LET out == FoldLeft(WriteModded, [text |-> <<>>, from |-> 0], SortedByOffset(ListOf(modded)))
         ends == ListOf(eof_head)
     IN  text' = out.text \o SubSeq(text, out.from + 1, Len(text))
                   \o FoldLeft(LAMBDA t, k : t \o LineOf(k), <<>>, ends)
  /\ table' = [k \in DOMAIN table |-> [table[k] EXCEPT !.enlisted = FALSE]]
  /\ newest' = NoItem /\ modded' = NoItem /\ writing' = "written"
  /\ UNCHANGED <<eof_head, visiting, changes>>

(* The file is read again by a new File. *)
Reopen ==
  /\ writing = "written"
  /\ FileIs(ReadFile(EmptyFile, text, FALSE))
  /\ eof_head' = NoItem /\ visiting' = NoItem /\ writing' = "open"
  /\ UNCHANGED <<text, changes>>

RagdollNext == \/ \E k \in SettingKeys, v \in Values : SetItem(k, v) \/ AddItem(k, v)
               \/ \E t \in Overrides : Override(t)
               \/ WriteStart \/ VisitNew \/ WriteOut \/ Reopen
RagdollSpec == RagdollInit /\ [][RagdollNext]_ragdollVars

-----------------------------------------------------------------------------
(* What is written is read back: the new file has the keys of the table and
   their values, whatever was changed, overridden and added, in whatever order
   sections and the keys in them came; a key that was new has one line. *)
WrittenIsRead ==
  writing = "written" =>
    LET again == ReadFile(EmptyFile, text, FALSE).table
    IN  /\ DOMAIN again = DOMAIN table
        /\ \A k \in DOMAIN table :
             /\ again[k].value = table[k].value
             /\ table[k].eol = 0 => /\ again[k].depth = table[k].depth
                                    /\ ~again[k].enlisted

(* The lists end, and each holds an item at most once, with a place in the file. *)
ListsWhole ==
  writing = "new" /\ visiting = NoItem =>
    LET all == ListOf(modded) \o ListOf(eof_head) IN
      /\ IsInjective(all)
      /\ \A k \in Range(all) : table[k].offset \in 0 .. Len(text) /\ table[k].depth >= 0
      /\ \A k \in DOMAIN table : table[k].enlisted => k \in Range(all)

SettingsKept == WrittenIsRead /\ ListsWhole
=============================================================================

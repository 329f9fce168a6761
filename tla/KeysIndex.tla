------------------------------- MODULE KeysIndex -------------------------------
(* The index of the keys database and its entries as db.c keeps them: an      *)
(* index is a sequence of terms, each a value with the names of the entries   *)
(* that have it; an entry is a sequence of fields.  A character is a number,  *)
(* and Upper more than another number is that letter in upper case; of the    *)
(* name of a field only matters whether it begins with "pass", so there are   *)
(* two, as short as they can be.  Counts, names of entries and characters are *)
(* one cell each in memory; sizes are in bytes.                               *)
EXTENDS Naturals, Sequences, SequencesExt, Functions

Upper == 100
Lower(c) == IF c > Upper THEN c - Upper ELSE c

\* The characters of a text that mean something, and what stands for a key.
Space == 90
Colon == 91
Newline == 92
PassKey == <<80, 81, 83, 83>>
PlainKey == <<82>>

IdLen == 16     \* ID_LEN
TermSize == 24  \* sizeof(term): two counts and two pointers of 8 bytes

-------------------------------------------------------------------------------
\* Finding

(* strncasecmp of the value with every part of the term of its length.        *)
TermContains(str, value) ==
  \E i \in 0..Len(str) - Len(value) :
    \A k \in DOMAIN value : Lower(str[i + k]) = Lower(value[k])

\* Mutant of SearchIndex: only the first entry of each matching term is taken.
SearchFirstOnly(index, value, limit) ==
  LET found == FlattenSeq([i \in DOMAIN index |->
                 IF TermContains(index[i].str, value) THEN <<Head(index[i].ids)>> ELSE <<>>])
  IN SubSeq(found, 1, IF Len(found) < limit THEN Len(found) ELSE limit)

(* The names under every matching term, term by term, up to the limit: an     *)
(* entry comes as often as its values match.                                  *)
SearchIndex(index, value, limit) ==
  LET found == FlattenSeq([i \in DOMAIN index |->
                 IF Len(index[i].str) >= Len(value) /\ TermContains(index[i].str, value)
                 THEN index[i].ids ELSE <<>>])
  IN SubSeq(found, 1, IF Len(found) < limit THEN Len(found) ELSE limit)

(* The names under all terms, each once, where it comes first.                *)
UniqueIds(index) ==
  LET all == FlattenSeq([i \in DOMAIN index |-> index[i].ids])
      first(k) == \A j \in 1..(k - 1) : all[j] # all[k]
  IN FlattenSeq([k \in DOMAIN all |-> IF first(k) THEN <<all[k]>> ELSE <<>>])

-------------------------------------------------------------------------------
\* Updating

(* A value is written once, and not for the fields named pass....             *)
ScanAttrs(entry) ==
  LET first(i) == \A j \in 1..(i - 1) : entry[j].pass \/ entry[j].val # entry[i].val
  IN [k \in DOMAIN entry |-> IF ~ entry[k].pass /\ first(k) THEN "WRITE" ELSE "SKIP"]

Written(entry) ==
  LET flags == ScanAttrs(entry)
      vals  == [k \in DOMAIN entry |-> IF flags[k] = "WRITE" THEN <<entry[k].val>> ELSE <<>>]
  IN FlattenSeq(vals)

\* Mutant of WriteTerm: an entry that has lost a value stays under it.
WriteTermKeeping(term, id, append) ==
  [term EXCEPT !.ids = IF append /\ ~ Contains(@, id) THEN Append(@, id) ELSE @]

(* The entry is appended to the names under a value it has, if it is not      *)
(* among them, and taken out of the others.                                   *)
WriteTerm(term, id, append) ==
  [term EXCEPT !.ids =
     IF ~ append THEN FlattenSeq([k \in DOMAIN @ |-> IF @[k] = id THEN <<>> ELSE <<@[k]>>])
     ELSE IF Contains(@, id) THEN @ ELSE Append(@, id)]

(* update_index: every old term is written with or without the entry, but not *)
(* one that has no other; the values of the entry that are left follow as     *)
(* terms of their own.                                                        *)
UpdateIndex(index, id, entry) ==
  LET vals == Written(entry)
      appends(i) == Contains(vals, index[i].str) /\ \A k \in 1..(i - 1) : index[k].str # index[i].str
      old(i) == IF ~ appends(i) /\ index[i].ids = <<id>> THEN <<>>
                ELSE <<WriteTerm(index[i], id, appends(i))>>
      isNew(val) == \A i \in DOMAIN index : index[i].str # val
      new(val) == IF isNew(val) THEN <<[str |-> val, ids |-> <<id>>]>> ELSE <<>>
  IN FlattenSeq([i \in DOMAIN index |-> old(i)]) \o FlattenSeq([j \in DOMAIN vals |-> new(vals[j])])

-------------------------------------------------------------------------------
\* In memory

Total(sizes) ==
  LET sum[n \in 0..Len(sizes)] == IF n = 0 THEN 0 ELSE sum[n - 1] + sizes[n]
  IN sum[Len(sizes)]

SizeOf(term) == 8 + Len(term.str) + Len(term.ids) * IdLen
IndexSize(index) == 4 + Total([i \in DOMAIN index |-> SizeOf(index[i])])

(* The size of the file is computed before the index is written: for the old  *)
(* index, and for a term of its own for every value.                          *)
UpdateSize(index, entry) ==
  LET vals == Written(entry)
  IN IndexSize(index) + Total([j \in DOMAIN vals |-> TermSize + Len(vals[j]) + IdLen])

\* The cells of an index as write_term leaves them.
IndexCells(index) ==
  <<Len(index)>> \o FlattenSeq([i \in DOMAIN index |->
     <<Len(index[i].ids), Len(index[i].str)>> \o index[i].str \o index[i].ids])

\* Where the parts of cells are: each is two counts and as many cells, after the
\* one before it.
PartsAt(cells) ==
  LET at[n \in 1..cells[1]] ==
        IF n = 1 THEN 2 ELSE LET last == at[n - 1] IN last + 2 + cells[last] + cells[last + 1]
  IN at

(* load_index: the terms are found by the counts before them.                 *)
LoadIndex(cells) ==
  LET at == PartsAt(cells)
      str(n) == at[n] + 2
      ids(n) == str(n) + cells[at[n] + 1]
  IN [n \in 1..cells[1] |-> [str |-> SubSeq(cells, str(n), ids(n) - 1),
                             ids |-> SubSeq(cells, ids(n), ids(n) + cells[at[n]] - 1)]]

-------------------------------------------------------------------------------
\* An entry as cells and as text

(* write_entry: the counts of a field and its key and value, in turn.         *)
KeyOf(field) == IF field.pass THEN PassKey ELSE PlainKey
WriteEntry(entry) ==
  <<Len(entry)>> \o FlattenSeq([i \in DOMAIN entry |->
     <<Len(KeyOf(entry[i])), Len(entry[i].val)>> \o KeyOf(entry[i]) \o entry[i].val])

ReadEntry(cells) ==
  LET at == PartsAt(cells)
      key(n) == at[n] + 2
      val(n) == key(n) + cells[at[n]]
  IN [n \in 1..cells[1] |-> [pass |-> SubSeq(cells, key(n), val(n) - 1) = PassKey,
                             val  |-> SubSeq(cells, val(n), val(n) + cells[at[n] + 1] - 1)]]

(* print_entry: a line for each field, the keys to the right of a column as   *)
(* wide as the last that was wider than the column before.                    *)
PrintEntry(entry) ==
  LET max[n \in 0..Len(entry)] ==
        IF n = 0 THEN 0
        ELSE LET width == Len(KeyOf(entry[n])) IN IF width > max[n - 1] THEN width + 1 ELSE max[n - 1]
      column == max[Len(entry)]
      padded(key) == [n \in 1..(IF column > Len(key) THEN column - Len(key) ELSE 0) |-> Space] \o key
  IN FlattenSeq([i \in DOMAIN entry |->
       padded(KeyOf(entry[i])) \o <<Colon, Space>> \o entry[i].val \o <<Newline>>])

Invalid == <<>>         \* no entry is empty
Overrun == <<Invalid>>  \* what a write past the end of memory does

\* The fields parse_entry has memory for: a byte of name and value in eight.
Slots(text) == (Len(text) \div 4) \div 2 + 1

\* A text as parse_entry leaves it: there is one, on one line, with no colon and
\* no white space around it.
IsText(str) ==
  /\ str # <<>> /\ str[1] # Space /\ Last(str) # Space
  /\ Range(str) \cap {Colon, Newline} = {}

Text == {str \in Seq(Nat) : IsText(str)}
Field == [pass : BOOLEAN, val : Text]
EntryText == Seq(Field)

(* parse_entry: a key ends at a colon and a value at the end of its line, the *)
(* white space around them does not count.  A colon in a value and a line     *)
(* without one are errors; an empty value is not there at all, so that the    *)
(* next key is taken for it.  More names than there is memory for are written *)
(* past its end.                                                              *)
ParseEntry(text) ==
  LET IsSpace(c) == c \in {Space, Newline}
      Trimmed(str) ==
        LET ends == {n \in DOMAIN str : ~ IsSpace(str[n])}
        IN SubSeq(str, 1, CHOOSE n \in ends : \A m \in ends : m <= n)
      Ended(at, str) ==
        IF at.key = <<>> THEN [at EXCEPT !.key = Trimmed(str), !.str = <<>>]
        ELSE [at EXCEPT !.attrs = Append(@, [pass |-> at.key = PassKey, val |-> Trimmed(str)]),
                        !.key = <<>>, !.str = <<>>]
      Step(at, i) ==
        LET c == text[i]
        IN IF ~ at.ok \/ (IsSpace(c) /\ at.str = <<>>) THEN at
           ELSE IF \/ c = Colon /\ (at.key # <<>> \/ at.str = <<>>)
                   \/ c = Newline /\ at.key = <<>>
           THEN [at EXCEPT !.ok = FALSE]
           ELSE IF c \in {Colon, Newline} THEN Ended(at, at.str)
           ELSE IF i < Len(text) THEN [at EXCEPT !.str = Append(@, c)]
           ELSE Ended(at, Append(at.str, c))
      parsed[i \in 0..Len(text)] ==
        IF i = 0 THEN [ok |-> TRUE, key |-> <<>>, str |-> <<>>, attrs |-> <<>>]
        ELSE Step(parsed[i - 1], i)
      end == parsed[Len(text)]
      names == Len(end.attrs) + (IF end.key = <<>> THEN 0 ELSE 1)
  IN IF names > Slots(text) THEN Overrun
     ELSE IF end.ok /\ end.key = <<>> /\ end.str = <<>> THEN end.attrs ELSE Invalid

-------------------------------------------------------------------------------
\* What an index says, as sets

ListedUnder(index, str) == UNION {Range(index[i].ids) : i \in {k \in DOMAIN index : index[k].str = str}}
ListedIds(index) == UNION {Range(index[i].ids) : i \in DOMAIN index}
ValuesOf(entry) == {entry[k].val : k \in {j \in DOMAIN entry : ~ entry[j].pass}}
===============================================================================

------------------------------- MODULE QRSource -------------------------------
(* How the QR encoder turns the text of a symbol into data code words         *)
(* (CQR_Encode::EncodeSourceData and what it calls): the text is cut into     *)
(* blocks of one mode each, neighbouring blocks are joined where one block    *)
(* needs fewer bits than two, and every block is written as a mode indicator, *)
(* a count and its characters.  A character is its byte; the arrays of block  *)
(* modes and lengths are one sequence of records, so that moving everything   *)
(* behind a joined block one place forward is what Join does.                 *)
EXTENDS QRTables, FiniteSets

QR_MODE_NUMERAL == 0
QR_MODE_ALPHABET == 1
QR_MODE_8BIT == 2
QR_MODE_KANJI == 3

\* The nine signs of the alphanumeric mode besides digits and capitals, in the
\* order of their codes 36..44: space $ % * + - . / :
AlphabetSigns == <<32, 36, 37, 42, 43, 45, 46, 47, 58>>

IsNumeralData(c) == c \in 48..57
IsCapital(c) == c \in 65..90
IsAlphabetData(c) ==
  \/ IsNumeralData(c)
  \/ IsCapital(c)
  \/ \E i \in DOMAIN AlphabetSigns : AlphabetSigns[i] = c
IsKanjiData(c1, c2) ==
  /\ c1 \in 129..159 \cup 224..235
  /\ c2 >= 64
  /\ ~ (c1 = 159 /\ c2 > 252)
  /\ ~ (c1 = 235 /\ c2 > 191)

AlphabetToBinaly(c) ==
  CASE IsNumeralData(c) -> c - 48
    [] IsCapital(c) -> c - 55
    [] OTHER -> 35 + (CHOOSE i \in DOMAIN AlphabetSigns : AlphabetSigns[i] = c)

KanjiToBinaly(wc) ==
  LET w == wc - (IF wc \in 33088..40956 THEN 33088 ELSE 49472)
  IN (w \div 256) * 192 + (w % 256)

-------------------------------------------------------------------------------
\* The blocks

\* The mode of the character at i (a lead byte takes the one behind it along).
ModeAt(src, i) ==
  IF i < Len(src) /\ IsKanjiData(src[i], src[i + 1]) THEN QR_MODE_KANJI
  ELSE IF IsNumeralData(src[i]) THEN QR_MODE_NUMERAL
  ELSE IF IsAlphabetData(src[i]) THEN QR_MODE_ALPHABET
  ELSE QR_MODE_8BIT

\* The runs of one mode from character i on, appended to the blocks found.
RECURSIVE ScanBlocks(_, _, _)
ScanBlocks(src, i, blocks) ==
  IF i > Len(src) THEN blocks
  ELSE LET mode == ModeAt(src, i)
           step == IF mode = QR_MODE_KANJI THEN 2 ELSE 1
           last == Len(blocks)
       IN ScanBlocks(src, i + step,
            IF last > 0 /\ blocks[last].mode = mode
            THEN [blocks EXCEPT ![last].len = @ + step]
            ELSE Append(blocks, [mode |-> mode, len |-> step]))

GetBitLength(mode, n, group) ==
  CASE mode = QR_MODE_NUMERAL ->
         4 + nIndicatorLenNumeral[group + 1] + 10 * (n \div 3) + <<0, 4, 7>>[1 + (n % 3)]
    [] mode = QR_MODE_ALPHABET ->
         4 + nIndicatorLenAlphabet[group + 1] + 11 * (n \div 2) + 6 * (n % 2)
    [] mode = QR_MODE_8BIT -> 4 + nIndicatorLen8Bit[group + 1] + 8 * n
    [] mode = QR_MODE_KANJI -> 4 + nIndicatorLenKanji[group + 1] + 13 * (n \div 2)

BlockBits(b, group) == GetBitLength(b.mode, b.len, group)

\* Blocks i and i + 1 become one block of the given mode.
Join(blocks, i, mode) ==
  SubSeq(blocks, 1, i - 1)
    \o <<[mode |-> mode, len |-> blocks[i].len + blocks[i + 1].len]>>
    \o SubSeq(blocks, i + 2, Len(blocks))

HasMode(blocks, i, mode) == i \in DOMAIN blocks /\ blocks[i].mode = mode

\* Mutant of JoinPair: a byte block in front is always joined.
JoinFrontAlways(blocks, i, dst, group) ==
  IF HasMode(blocks, i - 1, QR_MODE_8BIT) THEN Join(blocks, i - 1, QR_MODE_8BIT)
  ELSE Join(blocks, i, QR_MODE_ALPHABET)

(* What a digit block next to an alphanumeric block is joined with, when one  *)
(* alphanumeric block is shorter than both: the byte block before the first   *)
(* or behind the second when that saves as much, else the other one (and the  *)
(* alphanumeric blocks around them).                                          *)
JoinPair(blocks, i, dst, group) ==
  LET Byte(j, k) == GetBitLength(QR_MODE_8BIT, blocks[j].len + blocks[k].len, group)
      front == Byte(i - 1, i) + BlockBits(blocks[i + 1], group)
      behind == BlockBits(blocks[i], group) + Byte(i + 1, i + 2)
      withFront == /\ HasMode(blocks, i - 1, QR_MODE_8BIT)
                   /\ front <= dst + BlockBits(blocks[i - 1], group)
      withBehind == /\ HasMode(blocks, i + 2, QR_MODE_8BIT)
                    /\ behind <= dst + BlockBits(blocks[i + 2], group)
      b1 == IF HasMode(blocks, i + 2, QR_MODE_ALPHABET)
            THEN Join(blocks, i + 1, blocks[i + 1].mode) ELSE blocks
      b2 == Join(b1, i, QR_MODE_ALPHABET)
  IN IF withFront /\ (~ withBehind \/ front < behind) THEN Join(blocks, i - 1, QR_MODE_8BIT)
     ELSE IF withBehind THEN Join(blocks, i + 1, QR_MODE_8BIT)
     ELSE IF HasMode(b2, i - 1, QR_MODE_ALPHABET) THEN Join(b2, i - 1, QR_MODE_ALPHABET)
     ELSE b2

\* The first pass, from block i on: digits with letters.
RECURSIVE JoinAlphabet(_, _, _)
JoinAlphabet(blocks, i, group) ==
  IF i >= Len(blocks) THEN blocks
  ELSE LET dst == GetBitLength(QR_MODE_ALPHABET, blocks[i].len + blocks[i + 1].len, group)
       IN IF /\ {blocks[i].mode, blocks[i + 1].mode} = {QR_MODE_NUMERAL, QR_MODE_ALPHABET}
             /\ BlockBits(blocks[i], group) + BlockBits(blocks[i + 1], group) > dst
          THEN JoinAlphabet(JoinPair(blocks, i, dst, group), i, group)
          ELSE JoinAlphabet(blocks, i + 1, group)

\* The second pass, from block i on: short blocks become bytes, together with
\* the byte blocks around them, whose indicators are saved.
RECURSIVE JoinBytes(_, _, _)
JoinBytes(blocks, i, group) ==
  IF i >= Len(blocks) THEN blocks
  ELSE LET indicator == 4 + nIndicatorLen8Bit[group + 1]
           front == HasMode(blocks, i - 1, QR_MODE_8BIT)
           behind == HasMode(blocks, i + 2, QR_MODE_8BIT)
           saved == (IF front THEN indicator ELSE 0) + (IF behind THEN indicator ELSE 0)
           dst == GetBitLength(QR_MODE_8BIT, blocks[i].len + blocks[i + 1].len, group) - saved
           k == IF front THEN i - 1 ELSE i
           b1 == IF front THEN Join(blocks, i - 1, QR_MODE_8BIT) ELSE blocks
           b2 == IF HasMode(b1, k + 2, QR_MODE_8BIT)
                 THEN Join(b1, k + 1, b1[k + 1].mode) ELSE b1
       IN IF BlockBits(blocks[i], group) + BlockBits(blocks[i + 1], group) > dst
          THEN JoinBytes(Join(b2, k, QR_MODE_8BIT), IF k > 1 THEN k - 1 ELSE 1, group)
          ELSE JoinBytes(blocks, i + 1, group)

ModeBlocks(src, group) ==
  JoinBytes(JoinAlphabet(ScanBlocks(src, 1, <<>>), 1, group), 1, group)

-------------------------------------------------------------------------------
\* The bits

Overflow == <<-1>>

\* SetBitStream: the low n bits of w behind the bits there are.
SetBitStream(bits, w, n) ==
  IF bits = Overflow \/ Len(bits) + n > MAX_DATACODEWORD * 8 THEN Overflow
  ELSE bits \o [i \in 1..n |-> (w \div 2 ^ (n - i)) % 2]

\* The characters of a block, as many at a time as its mode packs together.
RECURSIVE WriteData(_, _, _, _, _)
WriteData(bits, src, from, to, mode) ==
  IF from > to THEN bits
  ELSE LET n == to - from + 1
           D(k) == src[from + k] - 48
           A(k) == AlphabetToBinaly(src[from + k])
           Then(w, width, taken) ==
             WriteData(SetBitStream(bits, w, width), src, from + taken, to, mode)
       IN CASE mode = QR_MODE_NUMERAL /\ n >= 3 -> Then(D(0) * 100 + D(1) * 10 + D(2), 10, 3)
            [] mode = QR_MODE_NUMERAL /\ n = 2 -> Then(D(0) * 10 + D(1), 7, 2)
            [] mode = QR_MODE_NUMERAL /\ n = 1 -> Then(D(0), 4, 1)
            [] mode = QR_MODE_ALPHABET /\ n >= 2 -> Then(A(0) * 45 + A(1), 11, 2)
            [] mode = QR_MODE_ALPHABET /\ n = 1 -> Then(A(0), 6, 1)
            [] mode = QR_MODE_8BIT -> Then(src[from], 8, 1)
            [] mode = QR_MODE_KANJI ->
                 Then(KanjiToBinaly(src[from] * 256 + src[from + 1]), 13, 2)

\* Mode indicator, count and data of each block, the first character at from.
RECURSIVE WriteBlocks(_, _, _, _, _)
WriteBlocks(bits, src, from, blocks, group) ==
  IF blocks = <<>> \/ bits = Overflow THEN bits
  ELSE LET b == Head(blocks)
           width == CASE b.mode = QR_MODE_NUMERAL -> nIndicatorLenNumeral[group + 1]
                      [] b.mode = QR_MODE_ALPHABET -> nIndicatorLenAlphabet[group + 1]
                      [] b.mode = QR_MODE_8BIT -> nIndicatorLen8Bit[group + 1]
                      [] b.mode = QR_MODE_KANJI -> nIndicatorLenKanji[group + 1]
           count == IF b.mode = QR_MODE_KANJI THEN b.len \div 2 ELSE b.len
           header == SetBitStream(SetBitStream(bits, 2 ^ b.mode, 4), count, width)
           data == WriteData(header, src, from, from + b.len - 1, b.mode)
       IN WriteBlocks(data, src, from + b.len, Tail(blocks), group)

EncodeSourceData(src, group) ==
  WriteBlocks(<<>>, src, 1, ModeBlocks(src, group), group)

\* The group of a version.
Group(v) == IF v <= 9 THEN QR_VRESION_S ELSE IF v <= 26 THEN QR_VRESION_M ELSE QR_VRESION_L

\* The smallest version that holds the text, from the group of the wanted one
\* on, and 0 when none does.
GetEncodeVersion(version, level, src) ==
  LET first == CASE version >= 27 -> QR_VRESION_L
                 [] version >= 10 /\ version < 27 -> QR_VRESION_M
                 [] OTHER -> QR_VRESION_S
      bits == [g \in VersionGroups |-> IF g >= first THEN EncodeSourceData(src, g) ELSE Overflow]
      holds == {v \in Versions :
                  /\ bits[Group(v)] # Overflow
                  /\ (Len(bits[Group(v)]) + 7) \div 8 <= QR_VersonInfo[v].ncDataCodeWord[level + 1]}
  IN IF holds = {} THEN 0 ELSE CHOOSE v \in holds : \A w \in holds : v <= w

===============================================================================

------------------------------ MODULE MCQREncoder ------------------------------
(* Questions put to the QR encoder, one per state, and the answers they must  *)
(* have.  What the encoder makes is read back the way a reader of the symbol  *)
(* does: the definitions of the reader below follow the layout of the symbol  *)
(* and use nothing of the encoder but its table of versions.                  *)
EXTENDS QRSymbol

CONSTANTS
  RunLengths,    \* the lengths of the runs of a text of up to three runs
  ManyRunLengths,\* the same for texts of four runs
  WalkVersions,  \* the versions whose walk is followed
  LineLength     \* the length of the lines of modules whose penalty is counted

VARIABLE asked
None == [kind |-> "none"]

-------------------------------------------------------------------------------
\* What is asked

Modes == {QR_MODE_NUMERAL, QR_MODE_ALPHABET, QR_MODE_8BIT, QR_MODE_KANJI}

\* n characters of a mode, the i-th run of a text: all different from their
\* neighbours, so that a lost or moved character shows.
Run(mode, n, i) ==
  CASE mode = QR_MODE_NUMERAL -> [k \in 1..n |-> 48 + ((3 * k + i) % 10)]
    [] mode = QR_MODE_ALPHABET ->
         [k \in 1..n |-> IF (k + i) % 4 = 0 THEN AlphabetSigns[1 + ((k + i) % 9)]
                         ELSE 65 + ((7 * k + i) % 26)]
    [] mode = QR_MODE_8BIT -> [k \in 1..n |-> IF k % 5 = 4 THEN 253 ELSE 97 + ((5 * k + i) % 26)]
    [] mode = QR_MODE_KANJI ->
         [k \in 1..2 * n |-> IF k % 2 = 1 THEN <<129, 159, 224, 235>>[1 + (((k \div 2) + i) % 4)]
                             ELSE 64 + ((11 * k + i) % 120)]

\* The modes of the runs: neighbours differ.
RunModes(n) == {m \in [1..n -> Modes] : \A i \in 1..n - 1 : m[i] # m[i + 1]}

RECURSIVE TextOf(_, _, _)
TextOf(modes, lens, i) ==
  IF i > Len(modes) THEN <<>> ELSE Run(modes[i], lens[i], i) \o TextOf(modes, lens, i + 1)

\* "bitcoin:" and an address of 34 signs, what the receive screen draws.
Address == <<98, 105, 116, 99, 111, 105, 110, 58, 49, 66, 111, 97, 116, 83, 76, 82,
             72, 116, 75, 78, 110, 103, 107, 100, 88, 69, 101, 111, 98, 82, 55, 54,
             98, 53, 51, 76, 69, 84, 116, 112, 121, 84>>
SymbolTexts == {
  Address,
  TextOf(<<QR_MODE_NUMERAL>>, <<41>>, 1),
  TextOf(<<QR_MODE_ALPHABET, QR_MODE_8BIT>>, <<6, 3>>, 1),
  TextOf(<<QR_MODE_KANJI, QR_MODE_NUMERAL>>, <<3, 2>>, 1),
  <<>>}

Ask(question) == asked = None /\ asked' = question
AskText ==
  \E n \in 1..4, group \in VersionGroups :
    \E modes \in RunModes(n), lens \in [1..n -> IF n <= 3 THEN RunLengths ELSE ManyRunLengths] :
      Ask([kind |-> "text", text |-> TextOf(modes, lens, 1), group |-> group])
AskSymbol ==
  \E text \in SymbolTexts, level \in Levels, version \in {0, 1, 2}, mask \in {-1, 3} :
    /\ version = 1 \/ mask = 3
    /\ Ask([kind |-> "symbol", text |-> text, level |-> level, version |-> version,
            mask |-> mask, autoExtent |-> version # 2])
AskBigSymbol ==
  \E mask \in 0..7 :
    Ask([kind |-> "symbol", text |-> Address, level |-> mask % 4, version |-> 5 + (mask % 3),
         mask |-> mask, autoExtent |-> TRUE])
AskTable ==
  \E v \in Versions, level \in Levels : Ask([kind |-> "table", version |-> v, level |-> level])
AskGenerator == \E n \in DOMAIN byRSExp : Ask([kind |-> "generator", n |-> n])
AskWalk == \E v \in WalkVersions : Ask([kind |-> "walk", version |-> v])
AskLine ==
  \E line \in [0..LineLength - 1 -> BOOLEAN] : Ask([kind |-> "line", line |-> line])
Answered == asked # None /\ asked' = None

Init == asked = None
Next ==
  \/ AskText
  \/ AskSymbol
  \/ AskBigSymbol
  \/ AskTable
  \/ AskGenerator
  \/ AskWalk
  \/ AskLine
  \/ Answered
Spec == Init /\ [][Next]_asked

-------------------------------------------------------------------------------
\* A reader of the bits

RECURSIVE Number(_, _, _)
Number(bits, i, n) == IF n = 0 THEN 0 ELSE 2 * Number(bits, i, n - 1) + bits[i + n - 1]

RECURSIVE Digits(_, _)
Digits(w, n) == IF n = 0 THEN <<>> ELSE Append(Digits(w \div 10, n - 1), 48 + (w % 10))
AlphabetSign(k) == IF k < 10 THEN 48 + k ELSE IF k < 36 THEN 55 + k ELSE AlphabetSigns[k - 35]
KanjiBytes(w) ==
  LET wc == 256 * (w \div 192) + (w % 192) + 33088
      byte == IF wc <= 40956 THEN wc ELSE wc + 16384
  IN <<byte \div 256, byte % 256>>

\* n characters of a mode from bit i on, and the bit behind them.
RECURSIVE ReadChars(_, _, _, _, _)
ReadChars(bits, i, n, mode, text) ==
  LET Go(width, taken, chars) ==
        ReadChars(bits, i + width, n - taken, mode, text \o chars)
  IN CASE n = 0 -> [text |-> text, at |-> i]
       [] n > 0 /\ mode = 1 ->
            LET k == IF n >= 3 THEN 3 ELSE n
                width == <<4, 7, 10>>[k]
            IN Go(width, k, Digits(Number(bits, i, width), k))
       [] n >= 2 /\ mode = 2 ->
            LET w == Number(bits, i, 11)
            IN Go(11, 2, <<AlphabetSign(w \div 45), AlphabetSign(w % 45)>>)
       [] n = 1 /\ mode = 2 -> Go(6, 1, <<AlphabetSign(Number(bits, i, 6))>>)
       [] n > 0 /\ mode = 4 -> Go(8, 1, <<Number(bits, i, 8)>>)
       [] n > 0 /\ mode = 8 -> Go(13, 1, KanjiBytes(Number(bits, i, 13)))

\* The widths of the count for the modes 1, 2, 4 and 8.
CountWidth(mode, group) ==
  CASE mode = 1 -> 10 + 2 * group
    [] mode = 2 -> 9 + 2 * group
    [] mode = 4 -> IF group = 0 THEN 8 ELSE 16
    [] mode = 8 -> 8 + 2 * group

\* The text from bit i on, up to a terminator or too few bits for a mode.
RECURSIVE ReadText(_, _, _, _)
ReadText(bits, i, group, text) ==
  LET mode == IF Len(bits) - i < 3 THEN 0 ELSE Number(bits, i, 4)
  IN IF mode = 0 THEN text
     ELSE LET width == CountWidth(mode, group)
              part == ReadChars(bits, i + 4 + width, Number(bits, i + 4, width), mode, text)
          IN ReadText(bits, part.at, group, part.text)

-------------------------------------------------------------------------------
\* A reader of the symbol

\* The function modules of a version: rectangles, two lines and the alignment
\* squares at every pair of coordinates but the corners of the finders.
FunctionSet(v) ==
  LET n == 4 * v + 17
      near == n - 11..n - 9
      a == {6} \cup {QR_VersonInfo[v].nAlignPoint[i] : i \in DOMAIN QR_VersonInfo[v].nAlignPoint}
      centres == {p \in a \X a : v >= 2 /\ p \notin {<<6, 6>>, <<6, n - 7>>, <<n - 7, 6>>}}
  IN ((0..8) \X (0..8)) \cup ((n - 8..n - 1) \X (0..8)) \cup ((0..8) \X (n - 8..n - 1))
       \cup ((0..n - 1) \X {6}) \cup ({6} \X (0..n - 1))
       \cup (IF v >= 7 THEN (near \X (0..5)) \cup ((0..5) \X near) ELSE {})
       \cup UNION {(p[1] - 2..p[1] + 2) \X (p[2] - 2..p[2] + 2) : p \in centres}

\* The columns in the order they are read, the right one of each pair.
PairColumns(n) == [k \in 1..n \div 2 |-> LET c == n + 1 - 2 * k IN IF c <= 6 THEN c - 1 ELSE c]

\* The modules in the order they are read: pairs of columns, upwards first.
RECURSIVE Zigzag(_, _)
Zigzag(n, k) ==
  IF k > n \div 2 THEN <<>>
  ELSE LET c == PairColumns(n)[k]
           Row(i) == IF k % 2 = 1 THEN n - 1 - (i \div 2) ELSE i \div 2
       IN [i \in 1..2 * n |-> <<c - ((i - 1) % 2), Row(i - 1)>>] \o Zigzag(n, k + 1)

DataModules(v) ==
  LET functions == FunctionSet(v)
  IN SelectSeq(Zigzag(4 * v + 17, 1), LAMBDA p : p \notin functions)

\* The format data of a symbol: both copies, bit 0 first.
FormatCopies(n) ==
  <<<<<<8, 0>>, <<8, 1>>, <<8, 2>>, <<8, 3>>, <<8, 4>>, <<8, 5>>, <<8, 7>>, <<8, 8>>, <<7, 8>>,
      <<5, 8>>, <<4, 8>>, <<3, 8>>, <<2, 8>>, <<1, 8>>, <<0, 8>>>>,
    [i \in 1..15 |-> IF i <= 8 THEN <<n - i, 8>> ELSE <<8, n - 16 + i>>]>>
ReadWord(d, places) ==
  MapThenSumSet(LAMBDA i : IF d[places[i][1]][places[i][2]] THEN 2 ^ (i - 1) ELSE 0, DOMAIN places)

\* Whether a word is a multiple of a generator of the given degree.
IsCodeWord(w, degree, generator, bits) ==
  BCHRemainder(w, generator, bits - 1, bits - degree) = 0

\* GF(256): the powers of alpha, found by doubling, multiplication by adding
\* logarithms, and the value of a polynomial at a point.
Twice(a) == IF a < 128 THEN 2 * a ELSE (2 * a) ^^ 285
RECURSIVE PowersFrom(_)
PowersFrom(s) ==
  IF Len(s) = 255 THEN s ELSE PowersFrom(Append(s, Twice(s[Len(s)])))
Powers == PowersFrom(<<1>>)
Alpha(k) == Powers[k + 1]
Logs == [a \in 1..255 |-> (CHOOSE k \in 1..255 : Powers[k] = a) - 1]
Times(a, b) == IF a = 0 \/ b = 0 THEN 0 ELSE Alpha((Logs[a] + Logs[b]) % 255)
RECURSIVE ValueAt(_, _, _)
ValueAt(words, i, x) ==
  IF i = 0 THEN 0 ELSE CHOOSE r \in {Times(a, x) ^^ words[i] : a \in {ValueAt(words, i - 1, x)}} : TRUE

\* The blocks of the code words of a symbol: word j of every block that has
\* one, then word j + 1, first of the data, then of the check words.
BlockCount(v, level) ==
  QR_VersonInfo[v].RS_BlockInfo1[level + 1][1] + QR_VersonInfo[v].RS_BlockInfo2[level + 1][1]
BlockInfo(v, level, k) ==
  IF k <= QR_VersonInfo[v].RS_BlockInfo1[level + 1][1]
  THEN QR_VersonInfo[v].RS_BlockInfo1[level + 1] ELSE QR_VersonInfo[v].RS_BlockInfo2[level + 1]
RECURSIVE DealOut(_, _, _, _, _)
DealOut(v, level, words, j, blocks) ==
  LET count == BlockCount(v, level)
      longest == BlockInfo(v, level, count)
      checks == longest[2] - longest[3]
      takers == IF j > longest[3] THEN [k \in 1..count |-> k]
                ELSE SelectSeq([k \in 1..count |-> k],
                               LAMBDA k : BlockInfo(v, level, k)[3] >= j)
      Got(k) == {i \in DOMAIN takers : takers[i] = k}
  IN IF j > longest[2] THEN blocks
     ELSE DealOut(v, level, SubSeq(words, Len(takers) + 1, Len(words)), j + 1,
            [k \in 1..count |-> IF Got(k) = {} THEN blocks[k]
                                ELSE Append(blocks[k], words[CHOOSE i \in Got(k) : TRUE])])

RECURSIVE Flatten(_, _)
Flatten(s, n) == IF n = 0 THEN <<>> ELSE Flatten(s, n - 1) \o s[n]

\* What a symbol says of itself: its version by its size, the level and the
\* mask by the first copy of the format data.
VersionOf(d) == (Cardinality(DOMAIN d) - 17) \div 4
FormatCopy(d, copy) == ReadWord(d, FormatCopies(Cardinality(DOMAIN d))[copy])
FormatOf(d) == FormatCopy(d, 1) ^^ 21522
LevelOf(format) == <<QR_LEVEL_M, QR_LEVEL_L, QR_LEVEL_H, QR_LEVEL_Q>>[1 + format \div 8192]
MaskOf(format) == (format \div 1024) % 8

\* The bits of some modules under a mask, the words of bits, and their blocks.
BitsAt(d, modules, mask) ==
  [i \in DOMAIN modules |->
     IF d[modules[i][1]][modules[i][2]] # Mask(mask, modules[i][2], modules[i][1]) THEN 1 ELSE 0]
WordsOf(bits) == [w \in 1..Len(bits) \div 8 |-> Number(bits, 8 * w - 7, 8)]
BlocksIn(words, v, level) == DealOut(v, level, words, 1, [k \in 1..BlockCount(v, level) |-> <<>>])
BlocksOf(d, v, format) ==
  BlocksIn(WordsOf(BitsAt(d, DataModules(v), MaskOf(format))), v, LevelOf(format))

\* The text of the data words of the blocks.
TextIn(data, v) ==
  ReadText([i \in 1..8 * Len(data) |-> (data[(i + 7) \div 8] \div 2 ^ (7 - ((i - 1) % 8))) % 2],
           1, IF v <= 9 THEN 0 ELSE IF v <= 26 THEN 1 ELSE 2, <<>>)
TextOfBlocks(blocks, v, level) ==
  TextIn(Flatten([k \in DOMAIN blocks |-> SubSeq(blocks[k], 1, BlockInfo(v, level, k)[3])], Len(blocks)), v)

\* The finders and the timing lines are where they belong.
PatternsAreRight(d, n) ==
  LET Distance(x) == IF x < 3 THEN 3 - x ELSE x - 3
      Dark(x, y) == Max({Distance(x), Distance(y)}) # 2
  IN /\ \A x, y \in 0..6, o \in {<<0, 0>>, <<n - 7, 0>>, <<0, n - 7>>} :
          d[x + o[1]][y + o[2]] = Dark(x, y)
     /\ \A i \in 8..n - 9 : d[i][6] = (i % 2 = 0) /\ d[6][i] = (i % 2 = 0)

\* Both copies of the format data and of the version number are code words.
FormatIsRight(d) == FormatCopy(d, 1) = FormatCopy(d, 2) /\ IsCodeWord(FormatOf(d), 10, 1335, 15)
NumberIsRight(word, turned, v) == word \div 4096 = v /\ IsCodeWord(word, 12, 7973, 18) /\ turned = word
VersionIsRight(d, v, n) ==
  LET Place(i) == <<n - 11 + ((i - 1) % 3), (i - 1) \div 3>>
  IN v >= 7 => NumberIsRight(ReadWord(d, [i \in 1..18 |-> Place(i)]),
                             ReadWord(d, [i \in 1..18 |-> <<Place(i)[2], Place(i)[1]>>]), v)

\* Every block vanishes at the roots of its generator.
ChecksAreRight(blocks, v, level) ==
  \A k \in DOMAIN blocks :
    LET info == BlockInfo(v, level, k)
    IN \A i \in 0..info[2] - info[3] - 1 : ValueAt(blocks[k], info[2], Alpha(i)) = 0

-------------------------------------------------------------------------------
\* What the answers must be

(* The bits of a text, whatever blocks were joined to save bits, are read     *)
(* back as that text: EncodeSourceData loses, moves and misreads nothing.  And*)
(* joining never costs bits: what is written is no longer than the runs of the*)
(* text written as they are.                                                  *)
TextReadsBack ==
  asked.kind = "text" =>
    LET bits == EncodeSourceData(asked.text, asked.group)
        runs == ScanBlocks(asked.text, 1, <<>>)
    IN /\ ReadText(bits, 1, asked.group, <<>>) = asked.text
       /\ Len(bits) <= MapThenSumSet(LAMBDA i : BlockBits(runs[i], asked.group), DOMAIN runs)

(* A symbol is read back as the text it was made for, with a format, version  *)
(* and check words that are right, in the wanted version or the next that     *)
(* holds the text; and a text without a symbol is empty or does not fit.      *)
BlocksReadBack(blocks, v, level, text) ==
  ChecksAreRight(blocks, v, level) /\ TextOfBlocks(blocks, v, level) = text
ReadsBackAs(d, v, format) ==
  /\ PatternsAreRight(d, Size(v))
  /\ FormatIsRight(d)
  /\ VersionIsRight(d, v, Size(v))
  /\ BlocksReadBack(BlocksOf(d, v, format), v, LevelOf(format), asked.text)
  /\ LevelOf(format) = asked.level
  /\ asked.mask \in {-1, MaskOf(format)}
SymbolIsRight(d, fitting) ==
  IF d = NoSymbol
  THEN asked.text = <<>> \/ (~ asked.autoExtent /\ fitting > asked.version)
  ELSE VersionOf(d) = Max({asked.version, fitting}) /\ ReadsBackAs(d, VersionOf(d), FormatOf(d))
SymbolReadsBack ==
  asked.kind = "symbol" =>
    SymbolIsRight(EncodeData(asked.level, asked.version, asked.autoExtent, asked.mask, asked.text),
                  GetEncodeVersion(0, asked.level, asked.text))

(* Every bit of every code word has a data module of its own and every data   *)
(* module but the few remainder bits has a bit: the walk of the source takes  *)
(* the modules in the reader's order and never leaves the symbol.             *)
EveryBitHasItsModule(v) ==
  LET places == CodeWordPlaces(SetFunctionModule(v), QR_VersonInfo[v].ncAllCodeWord)
      modules == DataModules(v)
  IN /\ Len(modules) - Len(places) \in {0, 3, 4, 7}
     /\ \A i \in DOMAIN places : <<places[i].x, places[i].y>> = modules[i]

(* The row of a version and level is a division of its code words into blocks:*)
(* the words of the blocks add up, the check words of each have a generator,  *)
(* interleaving sends every word of every block to a place of its own, and    *)
(* they fill the modules the function patterns leave but for the remainder.   *)
BlocksFillTheSymbol(v, level) ==
  LET row == QR_VersonInfo[v]
      blocks == Blocks(v, level)
      at == DOMAIN blocks
      data == UNION {{DataPlace(v, level, k, j) : j \in 0..blocks[k].len - 1} : k \in at}
      checks == UNION {{RSPlace(v, level, k, j) : j \in 0..blocks[k].rs - 1} : k \in at}
  IN /\ data = 0..row.ncDataCodeWord[level + 1] - 1
     /\ checks = row.ncDataCodeWord[level + 1]..row.ncAllCodeWord - 1
     /\ MapThenSumSet(LAMBDA k : blocks[k].len, at) = Cardinality(data)
     /\ MapThenSumSet(LAMBDA k : blocks[k].rs, at) = Cardinality(checks)
     /\ \A k \in at :
          /\ blocks[k].rs \in DOMAIN byRSExp
          /\ blocks[k].len + blocks[k].rs = BlockInfo(v, level, k + 1)[2]
     /\ Size(v) * Size(v) - Cardinality(FunctionSet(v)) - 8 * row.ncAllCodeWord \in {0, 3, 4, 7}

(* A generator polynomial of n check words is the product of x - alpha^i for  *)
(* i below n, its table and the tables of powers and logarithms being what    *)
(* they say: it vanishes at each of these.                                    *)
GeneratorVanishes(n) ==
  LET poly == <<1>> \o [i \in 1..n |-> byExpToInt[byRSExp[n][i] + 1]]
  IN /\ Len(byRSExp[n]) = n
     /\ \A i \in 0..n - 1 : ValueAt(poly, Len(poly), Alpha(i)) = 0
     /\ \A k \in 0..254 : byExpToInt[k + 1] = Alpha(k) /\ byIntToExp[Alpha(k) + 1] = k

(* Every version and level fits together, those no address ever needed too:   *)
(* the rows of the table of versions, the polynomials for their check words,  *)
(* and the walk that fills their modules.                                     *)
TablesFitTogether ==
  /\ asked.kind = "walk" => EveryBitHasItsModule(asked.version)
  /\ asked.kind = "table" => BlocksFillTheSymbol(asked.version, asked.level)
  /\ asked.kind = "generator" => GeneratorVanishes(asked.n)

(* The points of a line are those of the rules: for each longest run of five  *)
(* or more of one colour, and 40 for each 1:1:3:1:1 pattern with four light   *)
(* modules on a side, the symbol being surrounded by light ones.              *)
PenaltyFollowsTheRules ==
  asked.kind = "line" =>
    LET n == LineLength
        line == asked.line
        Same(i, j) == \A k \in i..j : line[k] = line[i]
        longest == {r \in (0..n - 1) \X (0..n - 1) :
                      /\ r[2] - r[1] >= 4
                      /\ Same(r[1], r[2])
                      /\ r[1] > 0 => ~ Same(r[1] - 1, r[2])
                      /\ r[2] < n - 1 => ~ Same(r[1], r[2] + 1)}
        Wide(k) == k \in DOMAIN line /\ line[k]
        pattern == [k \in 0..6 |-> k \notin {1, 5}]
        finders == {j \in 0..n - 7 :
                      /\ \A k \in 0..6 : Wide(j + k) = pattern[k]
                      /\ ~ Wide(j - 1) /\ ~ Wide(j + 7)
                      /\ \/ \A k \in 1..4 : ~ Wide(j - k)
                         \/ \A k \in 7..10 : ~ Wide(j + k)}
    IN /\ RunPenalty(line, 0) = MapThenSumSet(LAMBDA r : 3 + (r[2] - r[1] + 1 - 5), longest)
       /\ FinderPenalty(line) = 40 * Cardinality(finders)
===============================================================================

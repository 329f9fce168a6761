------------------------------- MODULE QRSymbol -------------------------------
(* How the QR encoder turns data code words into a symbol                     *)
(* (CQR_Encode::EncodeData, GetRSCodeWord, FormatModule and what they call):  *)
(* terminator and padding, the blocks of the version interleaved and followed *)
(* by their Reed-Solomon words, the function modules, the walk that lays the  *)
(* bits into the modules left over, the eight masks and the choice among them.*)
(*                                                                            *)
(* A symbol is m_byModuleData: a function of x and y to the bits the source   *)
(* uses, 32 for a function module, 16 for a dark one, 2 for a data bit (a     *)
(* masked data module is computed where it is looked at).  Modules, blocks and*)
(* places count from 0 as in the source; words are sequences.                 *)
EXTENDS QRSource, FiniteSetsExt, Bitwise

Bit(w, i) == (w \div 2 ^ i) % 2

-------------------------------------------------------------------------------
\* Code words

\* m_byDataCodeWord: up to four zero bits, zeros up to the byte, then padding.
DataCodeWords(bits, n) ==
  LET used == Len(bits) + (IF n * 8 - Len(bits) >= 4 THEN 4 ELSE n * 8 - Len(bits))
      filled == (used + 7) \div 8
      BitAt(i) == IF i <= Len(bits) THEN bits[i] ELSE 0
      Word(i) == SumSet({BitAt(8 * i + k) * 2 ^ (8 - k) : k \in 1..8})
  IN [i \in 1..n |-> IF i <= filled THEN Word(i - 1)
                     ELSE IF (i - filled) % 2 = 1 THEN 236 ELSE 17]

\* One block: its number among all of them, its data words and where they start.
BlockSums(info) ==
  LET n1 == info.b1[1]
      n2 == info.b2[1]
      d1 == info.b1[3]
      d2 == info.b2[3]
  IN [k \in 0..n1 + n2 - 1 |->
        IF k < n1 THEN [len |-> d1, start |-> k * d1, rs |-> info.b1[2] - d1]
        ELSE [len |-> d2, start |-> n1 * d1 + (k - n1) * d2, rs |-> info.b1[2] - d1]]

Info(v, level) == [b1 |-> QR_VersonInfo[v].RS_BlockInfo1[level + 1],
                   b2 |-> QR_VersonInfo[v].RS_BlockInfo2[level + 1]]
Blocks(v, level) == BlockSums(Info(v, level))

\* Where word j of block k goes.
DataPlace(v, level, k, j) ==
  LET info == Info(v, level)
      sum == info.b1[1] + info.b2[1]
  IN IF j < info.b1[3] THEN sum * j + k
     ELSE sum * info.b1[3] + (k - info.b1[1])
RSPlace(v, level, k, j) ==
  LET info == Info(v, level)
  IN QR_VersonInfo[v].ncDataCodeWord[level + 1] + (info.b1[1] + info.b2[1]) * j + k

\* One round of GetRSCodeWord: the leading word is divided out and everything
\* moves up by one.
RSRound(work, n) ==
  LET first == byIntToExp[work[1] + 1]
      moved == Append(Tail(work), 0)
      Term(j) == byExpToInt[((byRSExp[n][j] + first) % 255) + 1]
  IN IF work[1] = 0 THEN moved
     ELSE [j \in 1..n |-> moved[j] ^^ Term(j)] \o SubSeq(moved, n + 1, Len(moved))

\* Some rounds, each on the result of the rounds before (bound by a set so that
\* it is evaluated once).
RECURSIVE RSRounds(_, _, _)
RSRounds(work, n, rounds) ==
  IF rounds = 0 THEN work
  ELSE CHOOSE r \in {RSRound(w, n) : w \in {RSRounds(work, n, rounds - 1)}} : TRUE

\* The n Reed-Solomon words of a block.
GetRSCodeWord(data, n) ==
  SubSeq(RSRounds(data \o [j \in 1..n |-> 0], n, Len(data)), 1, n)

\* m_byAllCodeWord: data words, then Reed-Solomon words, each interleaved.
AllCodeWords(v, level, words) ==
  LET blocks == Blocks(v, level)
      Data(k) == SubSeq(words, blocks[k].start + 1, blocks[k].start + blocks[k].len)
      placed(k) == LET data == Data(k)
                       rs == GetRSCodeWord(data, blocks[k].rs)
                   IN {<<DataPlace(v, level, k, j - 1), data[j]>> : j \in DOMAIN data}
                        \cup {<<RSPlace(v, level, k, j - 1), rs[j]>> : j \in DOMAIN rs}
      all == UNION {placed(k) : k \in DOMAIN blocks}
  IN [p \in 0..QR_VersonInfo[v].ncAllCodeWord - 1 |->
        IF \E w \in all : w[1] = p THEN (CHOOSE w \in all : w[1] = p)[2] ELSE 0]

-------------------------------------------------------------------------------
\* Function modules

Size(v) == 4 * v + 17
Function(dark) == IF dark THEN 48 ELSE 32
IsFunction(m, x, y) == m[x][y] >= 32

\* The square of the rows' bit patterns with its upper left corner at <<x0, y0>>.
Square(m, x0, y0, rows) ==
  LET k == Len(rows)
  IN [x \in DOMAIN m |->
        IF x \notin x0..x0 + k - 1 THEN m[x]
        ELSE [y \in DOMAIN m |->
                IF y \notin y0..y0 + k - 1 THEN m[x][y]
                ELSE Function(Bit(rows[y - y0 + 1], k - 1 - (x - x0)) = 1)]]

SetFinderPattern(m, x, y) == Square(m, x, y, <<127, 65, 93, 93, 93, 65, 127>>)

SetAlignmentPattern(m, x, y) ==
  IF IsFunction(m, x, y) THEN m ELSE Square(m, x - 2, y - 2, <<31, 17, 21, 17, 31>>)

\* The separators of the finder patterns and the places of the format data.
IsReserved(n, x, y) ==
  \/ x <= 8 /\ y \in {7, 8}
  \/ y <= 8 /\ x \in {7, 8}
  \/ x = n - 8 /\ y < 8
  \/ y = n - 8 /\ x < 8
  \/ x >= n - 8 /\ y \in {7, 8}
  \/ y >= n - 8 /\ x \in {7, 8}

\* The remainder of a code word divided by a generator, bit by bit from the top.
RECURSIVE BCHRemainder(_, _, _, _)
BCHRemainder(w, generator, top, steps) ==
  IF steps = 0 THEN w
  ELSE BCHRemainder(IF Bit(w, top) = 1 THEN w ^^ (generator * 2 ^ (steps - 1)) ELSE w,
                    generator, top - 1, steps - 1)

VersionData(v) == BCHRemainder(v * 4096, 7973, 17, 6) + v * 4096

\* The two copies of the version number, from version 7 on.
SetVersionPattern(m, v) ==
  LET n == Size(v)
      data == VersionData(v)
      near == n - 11..n - 9
  IN IF v <= 6 THEN m
     ELSE [x \in DOMAIN m |-> [y \in DOMAIN m |->
            CASE x \in near /\ y < 6 -> Function(Bit(data, y * 3 + (x - (n - 11))) = 1)
              [] y \in near /\ x < 6 -> Function(Bit(data, x * 3 + (y - (n - 11))) = 1)
              [] OTHER -> m[x][y]]]

\* The centres of the alignment patterns in the order they are drawn.
AlignmentCentres(v) ==
  LET a == QR_VersonInfo[v].nAlignPoint
      Row(i) == <<<<a[i], 6>>, <<6, a[i]>>>> \o [j \in DOMAIN a |-> <<a[i], a[j]>>]
      all[i \in 0..Len(a)] == IF i = 0 THEN <<>> ELSE all[i - 1] \o Row(i)
  IN all[Len(a)]
RECURSIVE SetAlignmentPatterns(_, _)
SetAlignmentPatterns(m, centres) ==
  IF centres = <<>> THEN m
  ELSE SetAlignmentPatterns(SetAlignmentPattern(m, Head(centres)[1], Head(centres)[2]),
                            Tail(centres))

SetFunctionModule(v) ==
  LET n == Size(v)
      blank == [x \in 0..n - 1 |-> [y \in 0..n - 1 |-> 0]]
      finders == SetFinderPattern(SetFinderPattern(SetFinderPattern(blank, 0, 0), n - 7, 0), 0, n - 7)
      reserved == [x \in 0..n - 1 |-> [y \in 0..n - 1 |->
                     IF IsReserved(n, x, y) THEN Function(FALSE) ELSE finders[x][y]]]
      aligned == SetAlignmentPatterns(SetVersionPattern(reserved, v), AlignmentCentres(v))
  IN [x \in 0..n - 1 |-> [y \in 0..n - 1 |->
        CASE y = 6 /\ x \in 8..n - 9 -> Function(x % 2 = 0)
          [] x = 6 /\ y \in 8..n - 9 -> Function(y % 2 = 0)
          [] OTHER -> aligned[x][y]]]

-------------------------------------------------------------------------------
\* The walk that lays the bits

WalkStart(n) == [x |-> n, y |-> n - 1, nCoef_x |-> 1, nCoef_y |-> 1]

\* Mutant of WalkStep: the timing column is a column of a pair.
WalkStepOnTiming(n, w) ==
  LET y == IF w.nCoef_x > 0 THEN w.y + w.nCoef_y ELSE w.y
  IN IF w.nCoef_x > 0 /\ y \notin 0..n - 1
     THEN [x |-> w.x - 1, y |-> IF y < 0 THEN 0 ELSE n - 1,
           nCoef_x |-> -w.nCoef_x, nCoef_y |-> -w.nCoef_y]
     ELSE [x |-> w.x + w.nCoef_x, y |-> y, nCoef_x |-> -w.nCoef_x, nCoef_y |-> w.nCoef_y]

\* One module on: to and fro between the two columns of a pair, up or down one
\* row each time, and at the edge to the next pair, past the timing column.
WalkStep(n, w) ==
  LET x == w.x + w.nCoef_x
      y == IF w.nCoef_x > 0 THEN w.y + w.nCoef_y ELSE w.y
      atEdge == w.nCoef_x > 0 /\ (y < 0 \/ y = n)
      next == IF x - 2 = 6 THEN x - 3 ELSE x - 2
  IN IF atEdge
     THEN [x |-> next, y |-> IF y < 0 THEN 0 ELSE n - 1,
           nCoef_x |-> -w.nCoef_x, nCoef_y |-> -w.nCoef_y]
     ELSE [x |-> x, y |-> y, nCoef_x |-> -w.nCoef_x, nCoef_y |-> w.nCoef_y]

\* The next module that is no function module (or past the left edge).
RECURSIVE NextFree(_, _)
NextFree(m, w) ==
  LET w1 == WalkStep(Cardinality(DOMAIN m), w)
  IN IF w1.x \in DOMAIN m /\ IsFunction(m, w1.x, w1.y) THEN NextFree(m, w1) ELSE w1

\* The modules of the next count bits from w on; halved so that the depth of
\* the evaluation stays small.
RECURSIVE WalkFrom(_, _, _)
WalkFrom(m, w, count) ==
  IF count = 0 THEN <<>>
  ELSE IF count = 1 THEN <<NextFree(m, w)>>
  ELSE LET first == WalkFrom(m, w, count \div 2)
       IN first \o WalkFrom(m, first[Len(first)], count - count \div 2)

\* The module of each bit of each code word.
CodeWordPlaces(m, ncAllCodeWord) == WalkFrom(m, WalkStart(Cardinality(DOMAIN m)), 8 * ncAllCodeWord)

\* Each bit of the code words in its module (a later bit over an earlier one).
SetCodeWordPattern(m, words) ==
  LET places == CodeWordPlaces(m, Cardinality(DOMAIN words))
      BitOf(i) == Bit(words[(i - 1) \div 8], 7 - ((i - 1) % 8))
  IN [x \in DOMAIN m |->
        LET column == {i \in DOMAIN places : places[i].x = x}
        IN [y \in DOMAIN m |->
              LET here == {i \in column : places[i].y = y}
              IN IF here = {} THEN m[x][y] ELSE 2 * BitOf(Max(here))]]

-------------------------------------------------------------------------------
\* Masks, format data and the choice among the masks

Mask(number, i, j) ==
  CASE number = 0 -> (i + j) % 2 = 0
    [] number = 1 -> i % 2 = 0
    [] number = 2 -> j % 3 = 0
    [] number = 3 -> (i + j) % 3 = 0
    [] number = 4 -> ((i \div 2) + (j \div 3)) % 2 = 0
    [] number = 5 -> ((i * j) % 2) + ((i * j) % 3) = 0
    [] number = 6 -> (((i * j) % 2) + ((i * j) % 3)) % 2 = 0
    [] number = 7 -> (((i * j) % 3) + ((i + j) % 2)) % 2 = 0

\* Mutant of FormatData: the level's number instead of its code.
FormatDataPlain(level, number) ==
  LET info == 8 * level + number
  IN (BCHRemainder(info * 1024, 1335, 14, 5) + info * 1024) ^^ 21522

\* The level and the mask with their check bits, as SetFormatInfoPattern has them.
FormatData(level, number) ==
  LET info == 8 * (CASE level = QR_LEVEL_M -> 0 [] level = QR_LEVEL_L -> 1
                     [] level = QR_LEVEL_Q -> 3 [] level = QR_LEVEL_H -> 2) + number
  IN (BCHRemainder(info * 1024, 1335, 14, 5) + info * 1024) ^^ 21522

(* The modules of both copies of the format data and the bit each one shows;  *)
(* <<8, n - 8>> is the module that is always dark.                            *)
FormatModules(n) ==
  {<<8, i, i>> : i \in 0..5} \cup {<<8, 7, 6>>, <<8, 8, 7>>, <<7, 8, 8>>}
    \cup {<<14 - i, 8, i>> : i \in 9..14}
    \cup {<<n - 1 - i, 8, i>> : i \in 0..7}
    \cup {<<8, n - 15 + i, i>> : i \in 8..14}

(* What is drawn with a mask: SetMaskingPattern over the data modules, then   *)
(* SetFormatInfoPattern, as dark (TRUE) and light.                            *)
Drawn(m, level, number) ==
  LET n == Cardinality(DOMAIN m)
      data == FormatData(level, number)
      format == FormatModules(n)
      Shown(x, y) ==
        IF <<x, y>> = <<8, n - 8>> THEN TRUE
        ELSE IF (x = 8 \/ y = 8) /\ \E f \in format : f[1] = x /\ f[2] = y
        THEN Bit(data, (CHOOSE f \in format : f[1] = x /\ f[2] = y)[3]) = 1
        ELSE IF IsFunction(m, x, y) THEN m[x][y] = Function(TRUE)
        ELSE (m[x][y] = 2) # Mask(number, y, x)
  IN [x \in DOMAIN m |-> [y \in DOMAIN m |-> Shown(x, y)]]

\* Runs of one colour from module j of a line on: 3 points for five, 1 for each more.
RECURSIVE RunPenalty(_, _)
RunPenalty(line, j) ==
  LET n == Cardinality(DOMAIN line)
      ends == {k \in j + 1..n - 1 : line[k] # line[j]}
      k == IF ends = {} THEN n ELSE Min(ends)
  IN IF j >= n - 4 THEN 0
     ELSE (IF k - j >= 5 THEN 3 + (k - j - 5) ELSE 0) + RunPenalty(line, k)

\* Mutant of FinderPenalty: patterns at the edges of the symbol are not seen.
FinderInsideOnly(line) ==
  LET n == Cardinality(DOMAIN line)
  IN 40 * Cardinality({j \in 1..n - 8 :
       /\ \A k \in -1..7 : line[j + k] = (k \in {0, 2, 3, 4, 6})
       /\ \/ \A d \in 2..4 : j < d \/ ~ line[j - d]
          \/ \A d \in 8..10 : j >= n - d \/ ~ line[j + d]})

\* The 1:1:3:1:1 pattern of the finders in a line, next to four light modules
\* (what is outside of the symbol counts as light).
FinderPenalty(line) ==
  LET n == Cardinality(DOMAIN line)
      Light(k) == ~ line[k]
      Found(j) ==
        /\ j = 0 \/ Light(j - 1)
        /\ line[j] /\ Light(j + 1) /\ line[j + 2] /\ line[j + 3] /\ line[j + 4]
        /\ Light(j + 5) /\ line[j + 6]
        /\ j = n - 7 \/ Light(j + 7)
        /\ \/ \A d \in 2..4 : j < d \/ Light(j - d)
           \/ \A d \in 8..10 : j >= n - d \/ Light(j + d)
  IN 40 * Cardinality({j \in 0..n - 7 : Found(j)})

CountPenalty(d) ==
  LET at == DOMAIN d
      n == Cardinality(at)
      Column(i) == [j \in at |-> d[j][i]]
      blocks == {p \in (0..n - 2) \X (0..n - 2) :
                   /\ d[p[1]][p[2]] = d[p[1] + 1][p[2]]
                   /\ d[p[1]][p[2]] = d[p[1]][p[2] + 1]
                   /\ d[p[1]][p[2]] = d[p[1] + 1][p[2] + 1]}
      light == Cardinality({p \in at \X at : ~ d[p[1]][p[2]]})
      off == 50 - (light * 100) \div (n * n)
      Line(l) == RunPenalty(l, 0) + FinderPenalty(l)
  IN MapThenSumSet(LAMBDA i : Line(d[i]) + Line(Column(i)), at)
       + 3 * Cardinality(blocks)
       + ((IF off < 0 THEN -off ELSE off) \div 5) * 10

FirstOfLeast(penalty) ==
  CHOOSE k \in DOMAIN penalty : /\ \A i \in DOMAIN penalty : penalty[k] <= penalty[i]
                                /\ \A i \in 0..k - 1 : penalty[k] < penalty[i]

\* FormatModule: the wanted mask, or with -1 the first of the smallest penalty.
Masked(m, level, mask) ==
  Drawn(m, level, IF mask # -1 THEN mask
                  ELSE FirstOfLeast([k \in 0..7 |-> CountPenalty(Drawn(m, level, k))]))
FormatModule(v, level, mask, words) ==
  Masked(SetCodeWordPattern(SetFunctionModule(v), words), level, mask)

NoSymbol == <<>>

\* EncodeData: the symbol of a text, or none when it is empty or does not fit.
Symbol(v, needed, level, mask, src) ==
  FormatModule(v, level, mask,
    AllCodeWords(v, level, DataCodeWords(EncodeSourceData(src, Group(needed)),
                                         QR_VersonInfo[v].ncDataCodeWord[level + 1])))
SymbolIfFits(needed, level, version, autoExtent, mask, src) ==
  IF \/ src = <<>> \/ needed = 0
     \/ version # 0 /\ needed > version /\ ~ autoExtent
  THEN NoSymbol
  ELSE Symbol(IF version # 0 /\ needed <= version THEN version ELSE needed, needed, level, mask, src)
EncodeData(level, version, autoExtent, mask, src) ==
  SymbolIfFits(GetEncodeVersion(version, level, src), level, version, autoExtent, mask, src)

===============================================================================

------------------------------- MODULE QrCode -------------------------------
(***************************************************************************)
(* The QR encoder of app.js behind the canvas of the share screen: the     *)
(* second qrcodegen, whose encodeText replaces that of the first.  A text  *)
(* becomes segments, the smallest version that holds them, codewords with  *)
(* error correction, and a matrix for which the best of eight masks is     *)
(* taken.                                                                  *)
(*                                                                         *)
(* A text is the sequence of its code points, a module is TRUE when dark   *)
(* and stands at <<x, y>>, counted from 0 as in the source.  The modules   *)
(* setFunctionModule has set are the domain of a function, a later pattern *)
(* overlays an earlier one (@@).                                           *)
(***************************************************************************)
EXTENDS Integers, Bitwise, SequencesExt, LongSequences

CONSTANTS Texts,       \* what is encoded
          MaxVersion   \* maxVersion of encodeSegments, 40 in the source

ASSUME VersionIsKnown == MaxVersion \in 1..40

VARIABLES text,
          phase,      \* "text", "fitted", "masking", "done", or "rejected" by a RangeError
          version,
          ecl,        \* error correction level, 0 for LOW to 3 for HIGH
          fixed,      \* isFunction
          modules,
          tried,      \* masks applied and undone so far
          mask,       \* best of them
          minPenalty

vars == <<text, phase, version, ecl, fixed, modules, tried, mask, minPenalty>>

MEDIUM == 1
FormatLevel == <<1, 0, 3, 2>>   \* Ecc.formatBits, by ordinal

EccPerBlock == <<   \* ECC_CODEWORDS_PER_BLOCK, by ordinal and version
  <<7,10,15,20,26,18,20,24,30,18,20,24,26,30,22,24,28,30,28,28,
    28,28,30,30,26,28,30,30,30,30,30,30,30,30,30,30,30,30,30,30>>,
  <<10,16,26,18,24,16,18,22,22,26,30,22,22,24,24,28,28,26,26,26,
    26,28,28,28,28,28,28,28,28,28,28,28,28,28,28,28,28,28,28,28>>,
  <<13,22,18,26,18,24,18,22,20,24,28,26,24,20,30,24,28,28,26,30,
    28,30,30,30,30,28,30,30,30,30,30,30,30,30,30,30,30,30,30,30>>,
  <<17,28,22,16,22,28,26,26,24,28,24,28,22,24,24,30,28,28,26,28,
    30,24,30,30,30,30,30,30,30,30,30,30,30,30,30,30,30,30,30,30>> >>

Blocks == <<   \* NUM_ERROR_CORRECTION_BLOCKS
  <<1,1,1,1,1,2,2,2,2,4,4,4,4,4,6,6,6,6,7,8,
    8,9,9,10,12,12,12,13,14,15,16,17,18,19,19,20,21,22,24,25>>,
  <<1,1,1,2,2,4,4,4,5,5,5,8,9,9,10,10,11,13,14,16,
    17,17,18,20,21,23,25,26,28,29,31,33,35,37,38,40,43,45,47,49>>,
  <<1,1,2,2,4,4,6,6,8,8,8,10,12,16,12,17,16,18,21,20,
    23,23,25,27,29,34,34,35,38,40,43,45,48,51,53,56,59,62,65,68>>,
  <<1,1,2,4,4,4,5,6,8,8,11,11,16,16,18,16,19,21,25,25,
    25,34,30,32,35,37,40,42,45,48,51,54,57,60,63,66,70,74,77,81>> >>

Versions == 1..MaxVersion
Size(v)  == 4 * v + 17
Bit(n, i) == (n \div 2^i) % 2 = 1

-----------------------------------------------------------------------------
(* Segments. *)

Alphanumeric ==   \* ALPHANUMERIC_CHARSET: digits, capitals, space $ % * + - . / :
    [i \in 1..10 |-> 47 + i] \o [i \in 1..26 |-> 64 + i] \o <<32, 36, 37, 42, 43, 45, 46, 47, 58>>

CharValue(c) == (CHOOSE i \in 1..45 : Alphanumeric[i] = c) - 1

\* appendBits: the low len bits of n, most significant first.
Bits(n, len) == [i \in 1..len |-> (n \div 2^(len - i)) % 2]

\* toUtf8ByteArray.
Utf8(c) ==
    IF c < 128 THEN <<c>>
    ELSE IF c < 2048 THEN <<192 + (c \div 64), 128 + (c % 64)>>
    ELSE IF c < 65536 THEN <<224 + (c \div 4096), 128 + ((c \div 64) % 64), 128 + (c % 64)>>
    ELSE <<240 + (c \div 262144), 128 + ((c \div 4096) % 64), 128 + ((c \div 64) % 64),
           128 + (c % 64)>>

\* chars in groups of k, the last one perhaps shorter.
Groups(chars, k) ==
    [i \in 1..((Len(chars) + k - 1) \div k) |->
        SubSeq(chars, (i - 1) * k + 1, IF i * k < Len(chars) THEN i * k ELSE Len(chars))]

\* A segment of n characters; groups are the bits of the groups of characters.
Segment(bits, counts, n, groups) ==
    [modeBits |-> bits, countBits |-> counts, numChars |-> n, data |-> Concat(groups)]

Number(digits) == FoldLeft(LAMBDA n, d : 10 * n + d - 48, 0, digits)

NumericSegment(t) ==
    LET groups == Groups(t, 3)
    IN  Segment(1, <<10, 12, 14>>, Len(t),
                [i \in DOMAIN groups |-> Bits(Number(groups[i]), 3 * Len(groups[i]) + 1)])

AlphanumericSegment(t) ==
    LET groups == Groups(t, 2)
        encoded(g) == IF Len(g) = 2 THEN Bits(45 * CharValue(g[1]) + CharValue(g[2]), 11)
                      ELSE Bits(CharValue(g[1]), 6)
    IN  Segment(2, <<9, 11, 13>>, Len(t), [i \in DOMAIN groups |-> encoded(groups[i])])

ByteSegment(t) ==
    LET bytes == Concat([i \in DOMAIN t |-> Utf8(t[i])])
    IN  Segment(4, <<8, 16, 16>>, Len(bytes), [i \in DOMAIN bytes |-> Bits(bytes[i], 8)])

MakeSegments(t) ==
    IF t = <<>> THEN <<>>
    ELSE IF \A i \in DOMAIN t : t[i] \in 48..57 THEN <<NumericSegment(t)>>
    ELSE IF \A i \in DOMAIN t : \E j \in 1..45 : Alphanumeric[j] = t[i] THEN <<AlphanumericSegment(t)>>
    ELSE <<ByteSegment(t)>>

CharCountBits(seg, v) == seg.countBits[((v + 7) \div 17) + 1]

-----------------------------------------------------------------------------
(* Capacity. *)

NumAlign(v) == (v \div 7) + 2

RawDataModules(v) ==
    (16 * v + 128) * v + 64
      - (IF v >= 2 THEN (25 * NumAlign(v) - 10) * NumAlign(v) - 55 ELSE 0)
      - (IF v >= 7 THEN 36 ELSE 0)

DataCodewords(v, e) == (RawDataModules(v) \div 8) - EccPerBlock[e + 1][v] * Blocks[e + 1][v]

\* getTotalBits; a count that does not fit its field makes the result infinite.
Fits(segs, v, e) ==
    /\ \A i \in DOMAIN segs : segs[i].numChars < 2^CharCountBits(segs[i], v)
    /\ FoldLeft(LAMBDA n, s : n + 4 + CharCountBits(s, v) + Len(s.data), 0, segs)
         <= 8 * DataCodewords(v, e)

\* Every level the data fit in replaces the one before.
Boost(segs, v, e) ==
    FoldLeft(LAMBDA best, new : IF Fits(segs, v, new) THEN new ELSE best, e, <<1, 2, 3>>)

\* Mode, count and data of each segment, terminator, zeros up to a byte, 0xEC and 0x11.
EncodeSegments(segs, v, e) ==
    LET capacity == 8 * DataCodewords(v, e)
        bits == Concat([i \in DOMAIN segs |->
                   Bits(segs[i].modeBits, 4) \o Bits(segs[i].numChars, CharCountBits(segs[i], v))
                     \o segs[i].data])
        ended == bits \o Bits(0, IF capacity - Len(bits) < 4 THEN capacity - Len(bits) ELSE 4)
        bytes == ended \o Bits(0, (8 - (Len(ended) % 8)) % 8)
        used  == Len(bytes) \div 8
    IN  [k \in 1..(capacity \div 8) |->
            IF k > used THEN IF (k - used) % 2 = 1 THEN 236 ELSE 17
            ELSE FoldLeft(LAMBDA n, b : 2 * n + b, 0, SubSeq(bytes, 8 * k - 7, 8 * k))]

-----------------------------------------------------------------------------
(* Reed-Solomon codes over GF(2^8) modulo 0x11D. *)

\* Exclusive or of bytes, by halves.
Nibble == [a \in 0..15 |-> [b \in 0..15 |-> a ^^ b]]
XorByte(a, b) == 16 * Nibble[a \div 16][b \div 16] + Nibble[a % 16][b % 16]

\* Faulty variant of Double: the overflow is cut off instead of reduced.
DoubleCut(z) == (2 * z) % 256

Double(z) == IF z < 128 THEN 2 * z ELSE XorByte(2 * z - 256, 29)

\* The product of x and the bits of y from the i-th down, z that of the bits above them.
RECURSIVE Multiply(_, _, _, _)
Multiply(x, y, i, z) ==
    IF i < 0 THEN z
    ELSE LET d == Double(z) IN Multiply(x, y, i - 1, IF Bit(y, i) THEN XorByte(d, x) ELSE d)

ReedSolomonMultiply(x, y) == Multiply(x, y, 7, 0)

\* poly, without its leading term, multiplied by (X - root).
RECURSIVE TimesRoot(_, _)
TimesRoot(poly, root) ==
    LET p == ReedSolomonMultiply(Head(poly), root)
    IN  IF Len(poly) = 1 THEN <<p>>
        ELSE <<XorByte(p, poly[2])>> \o TimesRoot(Tail(poly), root)

RECURSIVE Divisor(_, _, _)
Divisor(poly, root, steps) ==
    IF steps = 0 THEN poly ELSE Divisor(TimesRoot(poly, root), Double(root), steps - 1)

ReedSolomonDivisor(degree) == Divisor([i \in 1..degree |-> IF i = degree THEN 1 ELSE 0], 1, degree)

\* A zero factor adds nothing to the remainder.
RECURSIVE ReedSolomonRemainder(_, _, _)
ReedSolomonRemainder(data, divisor, rem) ==
    IF data = <<>> THEN rem
    ELSE LET factor == XorByte(Head(data), Head(rem))
             shifted == Append(Tail(rem), 0)
             sum == [i \in DOMAIN rem |-> XorByte(shifted[i], ReedSolomonMultiply(divisor[i], factor))]
         IN  IF factor = 0 THEN ReedSolomonRemainder(Tail(data), divisor, shifted)
             ELSE ReedSolomonRemainder(Tail(data), divisor, Settled(sum))

\* Blocks of data, the first of them one shorter than the others and padded, each with its
\* error correction; then the bytes of all blocks in turn, without the padding.
AddEccAndInterleave(data, v, e) ==
    LET blocks  == Blocks[e + 1][v]
        eccLen  == EccPerBlock[e + 1][v]
        raw     == RawDataModules(v) \div 8
        short   == blocks - (raw % blocks)
        dataLen == (raw \div blocks) - eccLen
        divisor == ReedSolomonDivisor(eccLen)
        Start(j) == (j - 1) * dataLen + (IF j - 1 > short THEN j - 1 - short ELSE 0)
        Block(j) == LET dat == SubSeq(data, Start(j) + 1, Start(j + 1))
                    IN  dat \o (IF j <= short THEN <<0>> ELSE <<>>)
                          \o ReedSolomonRemainder(dat, divisor, [i \in 1..eccLen |-> 0])
        all     == Settled([j \in 1..blocks |-> Block(j)])
        turns   == [k \in 1..(blocks * (dataLen + 1 + eccLen)) |->
                       [byte |-> ((k - 1) \div blocks) + 1, block |-> ((k - 1) % blocks) + 1]]
        kept    == SelectSeq(turns, LAMBDA t : t.byte # dataLen + 1 \/ t.block > short)
    IN  [k \in DOMAIN kept |-> all[kept[k].block][kept[k].byte]]

-----------------------------------------------------------------------------
(* Function patterns. *)

Grid(n) == (0..(n - 1)) \X (0..(n - 1))

Dist(p, c) == LET dx == IF p[1] < c[1] THEN c[1] - p[1] ELSE p[1] - c[1]
                  dy == IF p[2] < c[2] THEN c[2] - p[2] ELSE p[2] - c[2]
              IN  IF dx > dy THEN dx ELSE dy

Around(c, r) == ((c[1] - r)..(c[1] + r)) \X ((c[2] - r)..(c[2] + r))

\* Squares around some centres, with light rings at the distances in light.
Rings(n, centres, r, light) ==
    [p \in Grid(n) \cap UNION {Around(c, r) : c \in centres} |->
        Dist(p, CHOOSE c \in centres : p \in Around(c, r)) \notin light]

Timing(n) == [p \in (0..(n - 1)) \X {6} \cup {6} \X (0..(n - 1)) |-> (p[1] + p[2]) % 2 = 0]

Finders(n) == Rings(n, {<<3, 3>>, <<n - 4, 3>>, <<3, n - 4>>}, 4, {2, 4})

AlignmentPositions(v) ==
    IF v = 1 THEN {}
    ELSE LET gaps == 2 * NumAlign(v) - 2
             step == IF v = 32 THEN 26 ELSE 2 * ((4 * v + 4 + gaps - 1) \div gaps)
         IN  {6} \cup {Size(v) - 7 - k * step : k \in 0..(NumAlign(v) - 2)}

Alignments(v) ==
    LET far == Size(v) - 7
    IN  Rings(Size(v),
              (AlignmentPositions(v) \X AlignmentPositions(v)) \ {<<6, 6>>, <<6, far>>, <<far, 6>>},
              2, {1})

\* rem of a value after steps shifts, by the polynomial poly of the given degree.
RECURSIVE Remainder(_, _, _, _)
Remainder(rem, steps, degree, poly) ==
    IF steps = 0 THEN rem
    ELSE Remainder((2 * rem) ^^ (IF Bit(rem, degree - 1) THEN poly ELSE 0), steps - 1, degree, poly)

\* drawFormatBits: both copies of the fifteen bits and the dark module.
FormatBits(n, e, m) ==
    LET data == FormatLevel[e + 1] * 8 + m
        bits == (data * 1024 + Remainder(data, 10, 10, 1335)) ^^ 21522
        First(i) == IF i <= 5 THEN <<8, i>> ELSE IF i = 6 THEN <<8, 7>> ELSE IF i = 7 THEN <<8, 8>>
                    ELSE IF i = 8 THEN <<7, 8>> ELSE <<14 - i, 8>>
        Second(i) == IF i < 8 THEN <<n - 1 - i, 8>> ELSE <<8, n - 15 + i>>
        cells == {<<First(i), i>> : i \in 0..14} \cup {<<Second(i), i>> : i \in 0..14}
    IN  [p \in {c[1] : c \in cells} \cup {<<8, n - 8>>} |->
            \/ p = <<8, n - 8>>
            \/ \E c \in cells : c[1] = p /\ Bit(bits, c[2])]

VersionBits(v) ==
    LET bits  == v * 4096 + Remainder(v, 12, 12, 7973)
        At(i) == <<Size(v) - 11 + (i % 3), i \div 3>>
        cells == IF v < 7 THEN {}
                 ELSE {<<At(i), i>> : i \in 0..17} \cup {<<<<At(i)[2], At(i)[1]>>, i>> : i \in 0..17}
    IN  [p \in {c[1] : c \in cells} |-> \E c \in cells : c[1] = p /\ Bit(bits, c[2])]

FunctionPatterns(v, e) ==
    VersionBits(v) @@ FormatBits(Size(v), e, 0) @@ Alignments(v) @@ Finders(Size(v)) @@ Timing(Size(v))

-----------------------------------------------------------------------------
(* Codewords and masks. *)

\* The way of drawCodewords: two columns at a time from the right, past the timing column,
\* upward where the right one leaves 2 in (right + 1) & 2 unset.
Path(n) ==
    [k \in 1..(n * (n - 1)) |->
        LET pair  == n - 1 - 2 * ((k - 1) \div (2 * n))
            right == IF pair <= 6 THEN pair - 1 ELSE pair
            vert  == ((k - 1) % (2 * n)) \div 2
        IN  <<right - ((k - 1) % 2), IF ~Bit(right + 1, 1) THEN n - 1 - vert ELSE vert>>]

DrawCodewords(n, patterns, codewords) ==
    LET free == SelectSeq(Path(n), LAMBDA p : p \notin DOMAIN patterns)
        Drawn(i) == i < 8 * Len(codewords) /\ Bit(codewords[(i \div 8) + 1], 7 - (i % 8))
        place == [p \in {free[i] : i \in DOMAIN free} |-> CHOOSE i \in DOMAIN free : free[i] = p]
    IN  [p \in Grid(n) |-> IF p \in DOMAIN patterns THEN patterns[p] ELSE Drawn(place[p] - 1)]

Inverts(m, p) ==
    LET x == p[1]  y == p[2]
    IN  CASE m = 0 -> (x + y) % 2 = 0
          [] m = 1 -> y % 2 = 0
          [] m = 2 -> x % 3 = 0
          [] m = 3 -> (x + y) % 3 = 0
          [] m = 4 -> ((x \div 3) + (y \div 2)) % 2 = 0
          [] m = 5 -> ((x * y) % 2) + ((x * y) % 3) = 0
          [] m = 6 -> (((x * y) % 2) + ((x * y) % 3)) % 2 = 0
          [] m = 7 -> (((x + y) % 2) + ((x * y) % 3)) % 2 = 0

ApplyMask(grid, keep, m) == [p \in DOMAIN grid |-> grid[p] # (p \notin keep /\ Inverts(m, p))]

-----------------------------------------------------------------------------
(* getPenaltyScore. *)

AddHistory(run, h, n) == <<IF h[1] = 0 THEN run + n ELSE run>> \o SubSeq(h, 1, 6)

CountPatterns(h) ==
    LET k == h[2]
        core == k > 0 /\ h[3] = k /\ h[4] = 3 * k /\ h[5] = k /\ h[6] = k
    IN  (IF core /\ h[1] >= 4 * k /\ h[7] >= k THEN 1 ELSE 0)
          + (IF core /\ h[7] >= 4 * k /\ h[1] >= k THEN 1 ELSE 0)

\* A row or column from its i-th module on, in a run of the given colour and length.
RECURSIVE LinePenalty(_, _, _, _, _)
LinePenalty(line, i, color, run, h) ==
    LET n == Len(line)
        ended == AddHistory(run, h, n)
    IN  IF i > n
        THEN 40 * CountPatterns(IF color THEN AddHistory(n, ended, n) ELSE AddHistory(run + n, h, n))
        ELSE IF line[i] = color
        THEN (IF run + 1 = 5 THEN 3 ELSE IF run + 1 > 5 THEN 1 ELSE 0)
               + LinePenalty(line, i + 1, color, run + 1, h)
        ELSE (IF color THEN 0 ELSE 40 * CountPatterns(ended))
               + LinePenalty(line, i + 1, line[i], 1, ended)

Penalty(grid, n) ==
    LET score(line) == LinePenalty(line, 1, FALSE, 0, <<0, 0, 0, 0, 0, 0, 0>>)
        row(y)      == [x \in 1..n |-> grid[<<x - 1, y>>]]
        column(x)   == [y \in 1..n |-> grid[<<x, y - 1>>]]
        blocks      == {p \in Grid(n - 1) : \A q \in (p[1]..(p[1] + 1)) \X (p[2]..(p[2] + 1)) :
                            grid[q] = grid[p]}
        dark        == Cardinality({p \in Grid(n) : grid[p]})
        off         == dark * 20 - n * n * 10
    IN  Total([i \in 1..n |-> score(row(i - 1)) + score(column(i - 1))])
          + 3 * Cardinality(blocks)
          + 10 * (((IF off < 0 THEN -off ELSE off) - 1) \div (n * n))

-----------------------------------------------------------------------------
Init ==
    /\ text \in Texts
    /\ phase = "text"
    /\ version = 0 /\ ecl = MEDIUM
    /\ fixed = {} /\ modules = <<>>
    /\ tried = 0 /\ mask = -1 /\ minPenalty = 1000000000

\* encodeSegments: the smallest version, and the highest level at no cost.
Fit ==
    /\ phase = "text"
    /\ LET segs == MakeSegments(text)
           fitting == {v \in Versions : Fits(segs, v, MEDIUM)}
       IN  IF fitting = {}
           THEN phase' = "rejected" /\ UNCHANGED <<version, ecl>>
           ELSE /\ version' = CHOOSE v \in fitting : \A w \in fitting : v <= w
                /\ ecl' = Boost(segs, version', MEDIUM)
                /\ phase' = "fitted"
    /\ UNCHANGED <<text, fixed, modules, tried, mask, minPenalty>>

\* The constructor, up to the masks.
Draw ==
    /\ phase = "fitted"
    /\ LET patterns == FunctionPatterns(version, ecl)
           data == EncodeSegments(MakeSegments(text), version, ecl)
       IN  /\ fixed' = DOMAIN patterns
           /\ modules' = DrawCodewords(Size(version), patterns, AddEccAndInterleave(data, version, ecl))
    /\ phase' = "masking"
    /\ UNCHANGED <<text, version, ecl, tried, mask, minPenalty>>

\* Faulty variant of TryMask: the best score is not kept.
TryMaskUnscored ==
    /\ phase = "masking" /\ tried < 8
    /\ LET n == Size(version)
           format  == FormatBits(n, ecl, tried)
           penalty == Penalty(format @@ ApplyMask(modules, fixed, tried), n)
       IN  /\ modules' = format @@ modules
           /\ mask' = IF penalty < minPenalty THEN tried ELSE mask
    /\ tried' = tried + 1
    /\ UNCHANGED <<text, phase, version, ecl, fixed, minPenalty>>

\* A mask and its format bits are drawn and scored; the mask is undone, the bits stay.
TryMask ==
    /\ phase = "masking" /\ tried < 8
    /\ LET n == Size(version)
           format  == FormatBits(n, ecl, tried)
           penalty == Penalty(format @@ ApplyMask(modules, fixed, tried), n)
       IN  /\ modules' = format @@ modules
           /\ IF penalty < minPenalty
              THEN mask' = tried /\ minPenalty' = penalty
              ELSE UNCHANGED <<mask, minPenalty>>
    /\ tried' = tried + 1
    /\ UNCHANGED <<text, phase, version, ecl, fixed>>

Finish ==
    /\ phase = "masking" /\ tried = 8
    /\ modules' = FormatBits(Size(version), ecl, mask) @@ ApplyMask(modules, fixed, mask)
    /\ fixed' = {}
    /\ phase' = "done"
    /\ UNCHANGED <<text, version, ecl, tried, mask, minPenalty>>

Next == Fit \/ Draw \/ TryMask \/ Finish

Spec == Init /\ [][Next]_vars

-----------------------------------------------------------------------------
(* Properties. *)

Reader == INSTANCE QrReader

\* The finished matrix, read the way the QR standard says and not the way it was drawn,
\* gives the text back: version and format are code words, every block of the code is free
\* of errors, and what the segments and the padding say is the text.  Nothing shorter of
\* this shows that the drawing, the interleaving and the code fit each other.
Readable == phase = "done" => Reader!Read(modules) = text

\* No other mask would have given the finished symbol a lower penalty, by a score that
\* counts windows where the source counts runs.
LightestMask ==
    phase = "done" =>
        LET n == Size(version)
            free == {p \in Grid(n) : ~Reader!Reserved(p, n)}
            With(m) == FormatBits(n, ecl, m)
                         @@ [p \in Grid(n) |-> modules[p] # (p \in free /\ Inverts(mask, p) # Inverts(m, p))]
        IN  \A m \in 0..7 : Reader!Score(modules) <= Reader!Score(With(m))
=============================================================================

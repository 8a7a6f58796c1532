------------------------------ MODULE QrReader ------------------------------
(***************************************************************************)
(* What a reader of QR codes does, after ISO/IEC 18004: the reference the  *)
(* encoder of QrCode is checked against.  A matrix is a function from      *)
(* <<column, row>>, TRUE where dark.  Nothing here follows the encoder: a  *)
(* region is reserved because of where it lies, the code is checked by its *)
(* syndromes over tables of powers, and the data are taken from the bits.  *)
(* Centres of alignment patterns are given up to version 10.               *)
(***************************************************************************)
LOCAL INSTANCE Integers
LOCAL INSTANCE Bitwise
LOCAL INSTANCE SequencesExt
LOCAL INSTANCE LongSequences

Side(matrix) == (CHOOSE p \in DOMAIN matrix : \A q \in DOMAIN matrix : q[1] <= p[1])[1] + 1
VersionOf(n) == (n - 17) \div 4

AlignmentCentres == <<{}, {6, 18}, {6, 22}, {6, 26}, {6, 30}, {6, 34},
                      {6, 22, 38}, {6, 24, 42}, {6, 26, 46}, {6, 28, 50}>>

\* Error correction code words for a block and number of blocks, for L, M, Q, H.
Structure == <<
    << <<7, 1>>, <<10, 1>>, <<13, 1>>, <<17, 1>> >>,  << <<10, 1>>, <<16, 1>>, <<22, 1>>, <<28, 1>> >>,
    << <<15, 1>>, <<26, 1>>, <<18, 2>>, <<22, 2>> >>, << <<20, 1>>, <<18, 2>>, <<26, 2>>, <<16, 4>> >>,
    << <<26, 1>>, <<24, 2>>, <<18, 4>>, <<22, 4>> >>, << <<18, 2>>, <<16, 4>>, <<24, 4>>, <<28, 4>> >>,
    << <<20, 2>>, <<18, 4>>, <<18, 6>>, <<26, 5>> >>, << <<24, 2>>, <<22, 4>>, <<22, 6>>, <<26, 6>> >>,
    << <<30, 2>>, <<22, 5>>, <<20, 8>>, <<24, 8>> >>, << <<18, 4>>, <<26, 5>>, <<24, 8>>, <<28, 8>> >> >>

\* Modules that carry no data: finders with separators and format, timing, alignment, version.
Reserved(p, n) ==
    LET x == p[1]  y == p[2]  v == VersionOf(n)
        near(a) == {c \in AlignmentCentres[v] : a - c \in -2..2}
    IN  \/ x <= 8 /\ y <= 8
        \/ x >= n - 8 /\ y <= 8
        \/ x <= 8 /\ y >= n - 8
        \/ x = 6 \/ y = 6
        \/ \E cx \in near(x), cy \in near(y) :
               <<cx, cy>> \notin {<<6, 6>>, <<6, n - 7>>, <<n - 7, 6>>}
        \/ v >= 7 /\ x >= n - 11 /\ y <= 5
        \/ v >= 7 /\ y >= n - 11 /\ x <= 5

Value(bits) == FoldLeft(LAMBDA v, b : 2 * v + (IF b THEN 1 ELSE 0), 0, bits)

\* A word of the cyclic code generated by poly of the given degree.
RECURSIVE Reduce(_, _, _)
Reduce(w, poly, shift) ==
    IF shift < 0 THEN w
    ELSE Reduce(IF w >= 2^(shift + (IF poly = 1335 THEN 10 ELSE 12)) THEN w ^^ (poly * 2^shift) ELSE w,
                poly, shift - 1)
Word(w, poly) == Reduce(w, poly, IF poly = 1335 THEN 4 ELSE 5) = 0

\* The two copies of the format, highest bit first.
Format(matrix, n) ==
    LET one == [i \in 1..15 |-> matrix[IF i <= 6 THEN <<i - 1, 8>> ELSE IF i = 7 THEN <<7, 8>>
                   ELSE IF i = 8 THEN <<8, 8>> ELSE IF i = 9 THEN <<8, 7>> ELSE <<8, 15 - i>>]]
        two == [i \in 1..15 |-> matrix[IF i <= 7 THEN <<8, n - i>> ELSE <<n - 16 + i, 8>>]]
        bits == Value(one) ^^ 21522
    IN  [valid |-> one = two /\ matrix[<<8, n - 8>>] /\ Word(bits, 1335),
         level |-> CASE bits \div 8192 = 1 -> 1 [] bits \div 8192 = 0 -> 2
                     [] bits \div 8192 = 3 -> 3 [] bits \div 8192 = 2 -> 4,
         mask  |-> (bits \div 1024) % 8]

VersionValid(matrix, n) ==
    VersionOf(n) >= 7 =>
        LET word(At(_)) == Value([i \in 1..18 |-> matrix[At(18 - i)]])
            one == word(LAMBDA b : <<n - 11 + (b % 3), b \div 3>>)
            two == word(LAMBDA b : <<b \div 3, n - 11 + (b % 3)>>)
        IN  one = two /\ Word(one, 7973) /\ one \div 4096 = VersionOf(n)

PatternsValid(matrix, n) ==
    LET square(cx, cy, r, light) ==
            \A x \in (cx - r)..(cx + r), y \in (cy - r)..(cy + r) :
                LET d == {x - cx, cx - x, y - cy, cy - y}
                IN  matrix[<<x, y>>] = (\A l \in light : l \notin d \/ \E e \in d : e > l)
    IN  /\ square(3, 3, 3, {2}) /\ square(n - 4, 3, 3, {2}) /\ square(3, n - 4, 3, {2})
        /\ \A i \in 8..(n - 9) : matrix[<<i, 6>>] = (i % 2 = 0) /\ matrix[<<6, i>>] = (i % 2 = 0)
        /\ \A cx, cy \in AlignmentCentres[VersionOf(n)] :
               \/ <<cx, cy>> \in {<<6, 6>>, <<6, n - 7>>, <<n - 7, 6>>}
               \/ square(cx, cy, 2, {1})

Flips(m, i, j) ==   \* row i, column j
    0 = CASE m = 0 -> (i + j) % 2
          [] m = 1 -> i % 2
          [] m = 2 -> j % 3
          [] m = 3 -> (i + j) % 3
          [] m = 4 -> ((i \div 2) + (j \div 3)) % 2
          [] m = 5 -> (i * j) % 6
          [] m = 6 -> ((i * j) + ((i * j) % 3)) % 2
          [] m = 7 -> ((i + j) + ((i * j) % 3)) % 2

\* The k-th place of the zigzag; column pairs from the right, up and down in turn.
At(k, n) ==
    LET pair == k \div (2 * n)
        row  == (k \div 2) % n
        col  == n - 1 - 2 * pair - (k % 2)
    IN  <<IF n - 1 - 2 * pair > 6 THEN col ELSE col - 1, IF pair % 2 = 0 THEN n - 1 - row ELSE row>>

Codewords(matrix, n, m) ==
    LET way  == [k \in 1..(n * (n - 1)) |-> At(k - 1, n)]
        free == SelectSeq(way, LAMBDA p : ~Reserved(p, n))
        bit(p) == matrix[p] # Flips(m, p[2], p[1])
    IN  Settled([k \in 1..(Len(free) \div 8) |-> Value([i \in 1..8 |-> bit(free[8 * (k - 1) + i])])])

-----------------------------------------------------------------------------
(* The code over GF(256), by powers of its generator. *)

Twice(a) == IF a < 128 THEN 2 * a ELSE (2 * a) ^^ 285

\* k successive powers, from a on.
RECURSIVE PowersFrom(_, _)
PowersFrom(a, k) ==
    LET first == PowersFrom(a, k \div 2)
    IN  IF k = 1 THEN <<a>> ELSE first \o PowersFrom(Twice(first[k \div 2]), k - (k \div 2))

Powers == PowersFrom(1, 255)
Logs == Settled([a \in 1..255 |-> CHOOSE i \in 0..254 : Powers[i + 1] = a])

\* The word as a polynomial, at the i-th power.
RECURSIVE ValueAt(_, _, _)
ValueAt(word, i, sum) ==
    IF word = <<>> THEN sum
    ELSE IF sum = 0 THEN ValueAt(Tail(word), i, Head(word))
    ELSE ValueAt(Tail(word), i, Head(word) ^^ Powers[((Logs[sum] + i) % 255) + 1])

-----------------------------------------------------------------------------
(* Blocks and segments. *)

\* Blocks differ in length by one at most, the short ones come first.
BlocksOf(words, n, level) ==
    LET ecc    == Structure[VersionOf(n)][level][1]
        blocks == Structure[VersionOf(n)][level][2]
        total  == Len(words) - ecc * blocks
        short  == total \div blocks
        long   == total % blocks
        size(j) == IF j > blocks - long THEN short + 1 ELSE short
        datum(j, i) == words[IF i <= short THEN (i - 1) * blocks + j
                             ELSE short * blocks + j - (blocks - long)]
    IN  Settled([j \in 1..blocks |->
            [data |-> Settled([i \in 1..size(j) |-> datum(j, i)]),
             all  |-> Settled([i \in 1..(size(j) + ecc) |->
                          IF i <= size(j) THEN datum(j, i)
                          ELSE words[total + (i - size(j) - 1) * blocks + j]]),
             ecc  |-> ecc]])

Chars == <<48,49,50,51,52,53,54,55,56,57,65,66,67,68,69,70,71,72,73,74,75,76,77,78,79,
           80,81,82,83,84,85,86,87,88,89,90,32,36,37,42,43,45,46,47,58>>

FromUtf8(b) ==
    LET starts == SelectSeq([i \in DOMAIN b |-> i], LAMBDA i : b[i] \notin 128..191)
        low(i) == b[i] - 128
        point(i) == IF b[i] < 128 THEN b[i]
                    ELSE IF b[i] < 224 THEN (b[i] - 192) * 64 + low(i + 1)
                    ELSE IF b[i] < 240
                         THEN (b[i] - 224) * 4096 + low(i + 1) * 64 + low(i + 2)
                    ELSE ((b[i] - 240) * 64 + low(i + 1)) * 4096 + low(i + 2) * 64 + low(i + 3)
    IN  Settled([k \in DOMAIN starts |-> point(starts[k])])

\* count characters of a mode at the front of the bits, and how many bits they take.
Number(bits, from, len) == Value(SubSeq(bits, from, from + len - 1))
Digits(v, k) == [i \in 1..k |-> 48 + ((v \div 10^(k - i)) % 10)]
Numeric(bits, count) ==
    [text |-> Concat([g \in 1..((count + 2) \div 3) |->
                 LET k == IF 3 * g <= count THEN 3 ELSE count % 3
                 IN  Digits(Number(bits, 10 * g - 9, 3 * k + 1), k)]),
     used |-> 10 * (count \div 3) + <<0, 4, 7>>[(count % 3) + 1]]
Alphanumeric(bits, count) ==
    [text |-> [i \in 1..count |->
                 LET at == 11 * ((i - 1) \div 2) + 1
                     last == i = count /\ i % 2 = 1
                     v == Number(bits, at, IF last THEN 6 ELSE 11)
                 IN  Chars[1 + (IF last THEN v ELSE IF i % 2 = 1 THEN v \div 45 ELSE v % 45)]],
     used |-> 11 * (count \div 2) + 6 * (count % 2)]
Binary(bits, count) ==
    [text |-> FromUtf8(Settled([i \in 1..count |-> Number(bits, 8 * i - 7, 8)])), used |-> 8 * count]

CountField(mode, v) ==
    LET i == IF v <= 9 THEN 1 ELSE IF v <= 26 THEN 2 ELSE 3
    IN  CASE mode = 1 -> <<10, 12, 14>>[i] [] mode = 2 -> <<9, 11, 13>>[i] [] mode = 4 -> <<8, 16, 16>>[i]

\* Padding: a terminator of up to four zeros, zeros to the byte, 236 and 17 in turn.
Padding(bits) ==
    LET zeros == IF Len(bits) < 4 THEN Len(bits) ELSE 4 + ((Len(bits) - 4) % 8)
    IN  /\ Number(bits, 1, zeros) = 0
        /\ \A k \in 1..((Len(bits) - zeros) \div 8) :
               Number(bits, zeros + 8 * k - 7, 8) = IF k % 2 = 1 THEN 236 ELSE 17

Unreadable == <<-1>>

\* One segment, or none.
Decode(bits, v) ==
    LET mode == Number(bits, 1, 4)
        after(k) == SubSeq(bits, k + 1, Len(bits))
    IN  IF mode = 0 THEN IF Padding(bits) THEN <<>> ELSE Unreadable
        ELSE IF mode \notin {1, 2, 4} THEN Unreadable
        ELSE LET field == CountField(mode, v)
                 count == Number(bits, 5, field)
                 rest  == after(4 + field)
             IN  IF count * 3 > Len(rest) THEN Unreadable
                 ELSE LET seg == CASE mode = 1 -> Numeric(rest, count)
                                   [] mode = 2 -> Alphanumeric(rest, count)
                                   [] mode = 4 -> Binary(rest, count)
                      IN  IF seg.used <= Len(rest) /\ Padding(after(4 + field + seg.used))
                          THEN seg.text ELSE Unreadable

Read(matrix) ==
    LET n == Side(matrix)
        format == Format(matrix, n)
    IN  IF ~(PatternsValid(matrix, n) /\ VersionValid(matrix, n) /\ format.valid) THEN Unreadable
        ELSE LET blocks == BlocksOf(Codewords(matrix, n, format.mask), n, format.level)
                 data   == Concat([j \in DOMAIN blocks |-> blocks[j].data])
             IN  IF \E j \in DOMAIN blocks : \E i \in 0..(blocks[j].ecc - 1) :
                        ValueAt(blocks[j].all, i, 0) # 0
                 THEN Unreadable
                 ELSE Decode([i \in 1..(8 * Len(data)) |->
                                 (data[((i - 1) \div 8) + 1] \div 2^(7 - ((i - 1) % 8))) % 2 = 1],
                             VersionOf(n))

-----------------------------------------------------------------------------
(* The penalty of a symbol, over windows of its lines. *)

Score(matrix) ==
    LET n == Side(matrix)
        lines == Settled([k \in 1..(2 * n) |->
                    Settled([i \in 1..n |-> matrix[IF k <= n THEN <<i - 1, k - 1>> ELSE <<k - n - 1, i - 1>>]])])
        dark(l, i) == i \in 1..n /\ l[i]
        same(l, i) == i + 4 <= n /\ \A j \in 1..4 : l[i + j] = l[i]
        \* Five alike: three for the first window of a run, one for each further one.
        runs(l) == LET w == {i \in 1..n : same(l, i)}
                   IN  Cardinality(w) + 2 * Cardinality({i \in w : i = 1 \/ l[i - 1] # l[i]})
        \* 1:1:3:1:1 in units of u, four units of light on one side and one on the other.
        all(l, from, len, c) == \A i \in from..(from + len - 1) : dark(l, i) = c
        core(l, i, u) == /\ dark(l, i) /\ all(l, i, u, TRUE) /\ all(l, i + u, u, FALSE)
                         /\ all(l, i + 2 * u, 3 * u, TRUE) /\ all(l, i + 5 * u, u, FALSE)
                         /\ all(l, i + 6 * u, u, TRUE)
                         /\ all(l, i - u, u, FALSE) /\ all(l, i + 7 * u, u, FALSE)
        found(l) == {c \in (1..n) \X (1..(n \div 7)) : core(l, c[1], c[2])}
        finders(l) == Cardinality({c \in found(l) : all(l, c[1] - 4 * c[2], 4 * c[2], FALSE)})
                        + Cardinality({c \in found(l) : all(l, c[1] + 7 * c[2], 4 * c[2], FALSE)})
        blocks == {p \in (0..(n - 2)) \X (0..(n - 2)) :
                      Cardinality({matrix[<<p[1] + a, p[2] + b>>] : a, b \in 0..1}) = 1}
        count == Cardinality({p \in DOMAIN matrix : matrix[p]})
        \* Every full twentieth of the symbol that the share of dark is away from one half.
        steps == CHOOSE k \in 0..9 : /\ 20 * count >= (9 - k) * n * n /\ 20 * count <= (11 + k) * n * n
                                     /\ k > 0 => ~( /\ 20 * count >= (10 - k) * n * n
                                                    /\ 20 * count <= (10 + k) * n * n)
    IN  Total([k \in DOMAIN lines |-> runs(lines[k]) + 40 * finders(lines[k])])
          + 3 * Cardinality(blocks) + 10 * steps
=============================================================================

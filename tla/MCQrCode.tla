------------------------------ MODULE MCQrCode ------------------------------
(* Share links of the lengths the page makes, at and over the capacity of a version, with *)
(* and without a name that is not ASCII, and texts of the two denser modes.               *)
EXTENDS QrCode

\* n code points of a link, lower case among them.
Link(n) == [i \in 1..n |-> IF i <= 4 THEN <<104, 116, 116, 112>>[i] ELSE 45 + ((i * i + 7 * i) % 78)]

MCTexts ==
    { Link(14), Link(15), Link(62), Link(84), Link(110), Link(131), Link(181), Link(214),
      Link(20) \o <<233, 8364, 128279>>,
      [i \in 1..34 |-> 48 + ((i * i) % 10)],
      [i \in 1..21 |-> Alphanumeric[1 + ((i * 7) % 45)]] }
=============================================================================

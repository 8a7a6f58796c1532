--------------------------- MODULE LongSequences ---------------------------
(***************************************************************************)
(* Concatenation and sum over sequences of some hundred elements.  They    *)
(* divide by halves, where FlattenSeq and FoldSet go down one element at a *)
(* time, deeper than TLC's stack.                                          *)
(***************************************************************************)
LOCAL INSTANCE Integers
LOCAL INSTANCE Sequences

\* The sequence itself, which TLC evaluates here once and not at every application.
Settled(s) == s \o <<>>

RECURSIVE Concat(_)
Concat(seqs) ==
    LET half == Len(seqs) \div 2
    IN  IF seqs = <<>> THEN <<>>
        ELSE IF half = 0 THEN seqs[1]
        ELSE Concat(SubSeq(seqs, 1, half)) \o Concat(SubSeq(seqs, half + 1, Len(seqs)))

RECURSIVE Total(_)
Total(nums) ==
    LET half == Len(nums) \div 2
    IN  IF nums = <<>> THEN 0
        ELSE IF half = 0 THEN nums[1]
        ELSE Total(SubSeq(nums, 1, half)) + Total(SubSeq(nums, half + 1, Len(nums)))
=============================================================================

--------------------------------- MODULE Totals ---------------------------------
(***************************************************************************)
(* The sum of a sequence of integers, for attribution credits and the      *)
(* lines of a deal: running[i] is the sum of the first i entries.          *)
(***************************************************************************)
EXTENDS Integers, Sequences

Total(s) ==
    LET running[i \in 0..Len(s)] == IF i = 0 THEN 0 ELSE running[i - 1] + s[i]
    IN  running[Len(s)]

=================================================================================

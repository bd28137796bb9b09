--------------------------------- MODULE Lists ---------------------------------
(***************************************************************************)
(* The loop by which ingress.go and secrets.go filter a slice: what passes *)
(* a test is appended to a new one.                                        *)
(*                                                                         *)
(* The test is a set, and not an operator as SelectSeq's is, so that facts *)
(* about it can be stated once and for every test (Lists_proofs).          *)
(***************************************************************************)
EXTENDS Naturals, Sequences

\* The elements of a list that are in S, in the list's order.
Keep(list, S) ==
  LET kept[n \in 0..Len(list)] ==
        IF n = 0 THEN <<>>
        ELSE IF list[n] \in S THEN Append(kept[n - 1], list[n]) ELSE kept[n - 1]
  IN  kept[Len(list)]

=============================================================================

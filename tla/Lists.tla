-------------------------------- MODULE Lists --------------------------------
(***************************************************************************)
(* Filtering and joining of sequences, by functions on their length: the   *)
(* parameter of SelectSeq and of the folds is an operator, about which the *)
(* provers cannot reason.                                                  *)
(***************************************************************************)
EXTENDS Integers, Sequences

\* The members of S in s, in the order of s
Select(s, S) ==
  LET kept[k \in Nat] ==
        IF k = 0 THEN <<>>
        ELSE IF s[k] \in S THEN Append(kept[k - 1], s[k]) ELSE kept[k - 1]
  IN  kept[Len(s)]

\* The sequences of ss one after the other
Flatten(ss) ==
  LET joined[k \in 0 .. Len(ss)] == IF k = 0 THEN <<>> ELSE joined[k - 1] \o ss[k]
  IN  joined[Len(ss)]
=============================================================================

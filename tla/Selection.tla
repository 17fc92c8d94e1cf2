----------------------------- MODULE Selection -----------------------------
(***************************************************************************)
(* SelectSeq of Sequences, by way of the positions that are selected, so   *)
(* that what it yields can be proved.                                      *)
(***************************************************************************)
EXTENDS Naturals, Sequences

\* The items of s at these positions, in their order.
Pick(s, positions) ==
    LET picked[n \in 0 .. Len(s)] ==
            IF n = 0 THEN <<>>
            ELSE IF n \in positions THEN Append(picked[n - 1], s[n]) ELSE picked[n - 1]
    IN  picked[Len(s)]

\* Those that pass a test.
Kept(s, Test(_)) == Pick(s, {i \in DOMAIN s : Test(s[i])})

=============================================================================

--------------------------- MODULE MCAvlTreeIndex ---------------------------
(* Instances of AvlTreeIndex.                                              *)
EXTENDS AvlTreeIndex

\* Trees of up to six levels, where plans stay below the root; the last one
\* meets the double rotation of a left child that does not lean.
Deep == {
  <<8, 4, 12, 2, 6, 10, 14, 1, 3, 5, 7, 9, 11, 13, 15>>,
  <<13, 8, 18, 5, 11, 16, 20, 3, 7, 10, 12, 15, 17, 19, 2, 4, 6, 9, 14, 1>>}
Uneven == {<<6, 3, 7, 2, 4, 8, 1, 5>>}
Small == {<<4, 2, 6, 1, 3, 5, 7>>, <<2, 1, 4, 3>>, <<5, 2, 6, 1, 3, 7, 4>>, <<>>}

\* A remove leaves this tree uneven, and an add then starts one level too low.
Tilting == {
  <<24, 16, 32, 11, 21, 29, 35, 6, 14, 19, 23, 27, 31, 34, 36, 4, 8, 13, 15, 18, 20, 22,
    26, 28, 30, 33, 2, 5, 7, 9, 12, 17, 25, 1, 10>>}
SmallAndDeep == Small \cup Uneven \cup Deep

Ranges == {Query("range", b[1], b[2], rev) : rev \in BOOLEAN,
             b \in {<<Open, Open>>, <<Bound(2, FALSE), Open>>, <<Open, Bound(6, TRUE)>>,
                    <<Bound(2, TRUE), Bound(6, FALSE)>>}}
RangesAndEq == Ranges \cup {Query("eq", Bound(4, TRUE), Open, FALSE)}
NotFour == {Query("ne", Bound(4, TRUE), Open, FALSE)}
=============================================================================

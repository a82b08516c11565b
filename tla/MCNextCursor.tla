----------------------------- MODULE MCNextCursor -----------------------------
(* Bounded inputs for NextCursor: up to three ids, named in first-seen order, *)
(* perhaps one of them listed twice.                                          *)
EXTENDS NextCursor

ThreeIds == 1..3
SmallNumbers == 1..3
SmallListings ==
    {<<>>, <<1>>, <<1, 1>>, <<1, 2>>, <<1, 2, 1>>, <<1, 2, 3>>, <<1, 2, 3, 2>>}
=============================================================================

----------------------------- MODULE MCSprites -----------------------------
(***************************************************************************)
(* Values for checking Sprites: tiles of 2 by 2 pixels, two sprites to a   *)
(* line, and OAM pages of three sprites that overlap, exceed the limit,    *)
(* lie behind the background, are flipped, or hide below the picture.      *)
(***************************************************************************)
EXTENDS Sprites

\* Neighbouring tiles, and the two tables, differ.
MCChr == [n \in -3 .. 32 |->
    LET k == (n + n \div 4 + n \div 16) % 4
    IN  CASE k = 0 -> <<1, 0>> [] k = 1 -> <<0, 1>> [] k = 2 -> <<1, 1>> [] k = 3 -> <<0, 0>>]

\* 8 pixels with the other table than at reset, and 16 pixels.
MCCtrls == {<<FALSE, 1>>, <<TRUE, 0>>}

At(id, y, x, behind, flip) ==
    [y |-> y, x |-> x, id |-> id, behind |-> behind, flip_x |-> flip, flip_y |-> flip]

MCImages == {
    <<At(0, 0, 2, FALSE, FALSE), At(1, 0, 3, TRUE, FALSE), At(2, 1, 2, FALSE, TRUE)>>,
    <<At(0, 0, 0, TRUE, TRUE), At(1, 1, 1, FALSE, FALSE), At(2, 1, 4, FALSE, TRUE)>>,
    <<At(0, 4, 4, FALSE, TRUE), At(1, 5, 0, FALSE, TRUE), At(2, 1, 3, TRUE, FALSE)>> }
=============================================================================

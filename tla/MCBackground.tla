---------------------------- MODULE MCBackground ----------------------------
(***************************************************************************)
(* Values for checking Background: four nametables of 4 by 3 tiles in which *)
(* neighbours differ, and pattern bytes that are all different.            *)
(***************************************************************************)
EXTENDS Background

\* 16 cells to a table; the last 4 hold the attributes.
MCVram == [n \in 0 .. 63 |->
    IF n % 16 < 12 THEN (5 * n + (n \div 16)) % 16 ELSE (57 * n + 27) % 256]

\* Two tables of 256 tiles of 2 rows.
MCChr == [n \in 0 .. 2047 |->
    LET byte == (37 * n + (n \div 256)) % 256
    IN  [i \in 1 .. 8 |-> (byte \div 2 ^ (8 - i)) % 2]]

\* Column 2 of the second row of tiles, on its second pixel row; the last row,
\* which wraps, and the last column, in the right nametable.  The row of the
\* attributes comes from $2005.
MCTargets == {70, 27}
=============================================================================

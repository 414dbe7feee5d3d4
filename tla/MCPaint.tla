------------------------------ MODULE MCPaint ------------------------------
(* Constants of Paint for TLC.                                                *)
EXTENDS Paint

Program(n, m, colours, a, w) ==
  [cols |-> n, rows |-> m, styles |-> colours, alt |-> a, watched |-> w]

\* Wide characters in three columns and two rows, for which a region of one row
\* leaves a row below it or above it.
Wide == {Program(3, 2, {}, FALSE, FALSE)}

\* The same in two columns beside the alternate screen, and beside a colour; two
\* colours that compete for one slot, in one row and in one column; a colour and a
\* client.
SixPrograms ==
  Wide \cup
  {Program(2, 2, {}, TRUE, FALSE), Program(2, 2, {"red"}, FALSE, FALSE),
   Program(2, 1, {"red", "blue"}, TRUE, FALSE), Program(1, 2, {"red", "blue"}, TRUE, FALSE),
   Program(1, 1, {"red"}, TRUE, TRUE)}

TwoColoursWatched == {Program(1, 1, {"red", "blue"}, TRUE, TRUE)}
=============================================================================

--------------------------- MODULE MCSessionTable ---------------------------
(***************************************************************************)
(* Instances of SessionTable for TLC: three endpoints of one client host,  *)
(* all in one bucket of the client array, and a range of two ports.        *)
(***************************************************************************)
EXTENDS SessionTable

MCEndpoints == {<<10, 1>>, <<10, 3>>, <<10, 5>>}

\* The count the code means to start from, and stack contents that make the
\* search stop early (2, mod_num in the two-port instances) or go on longer.
MCCountZero == {0}
MCCountGarbage == {-1, 0, 2}

=============================================================================

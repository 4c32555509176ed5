---------------------------- MODULE MCPsramCache ----------------------------
(***************************************************************************)
(* A small instance of PsramCache: two sets of two-byte lines over two     *)
(* chips of three lines, so that set 0 has three candidate lines for its   *)
(* two ways and the second chip does not start on a set boundary.          *)
(***************************************************************************)
EXTENDS PsramCache

MCByte == {0, 1}
MCBlank == { [c \in Chip |-> [l \in Local |-> 0]] }

(* Lines 0, 2 and 4 compete for set 0 (line 4 is on the second chip);      *)
(* line 3 is the first of the second chip.  <<1, 2>> runs past line 0: it  *)
(* loads a byte of line 0 and one that is not there, and spoils as a store.*)
MCAccesses == {<<1, 2>>, <<4, 1>>, <<9, 1>>, <<6, 1>>}
MCTransfers == {<<1, 1>>, <<6, 1>>, <<9, 1>>}
=============================================================================

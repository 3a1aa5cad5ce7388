------------------------- MODULE MCPmaDoubleBuffer -------------------------
(***************************************************************************)
(* Instances of PmaDoubleBuffer for TLC.  With packets of 2 bytes, an IN   *)
(* transfer of 0 or 1 is one packet and 5 refills a block behind the wire; *)
(* an OUT transfer of 1 is a short packet like a CBW, 4 fills both blocks. *)
(* One and three packets exchange the blocks' roles, two keep them.        *)
(***************************************************************************)
EXTENDS PmaDoubleBuffer

NoLengths == {}
InLengths == {0, 1, 4, 5, 9}
OutLengths == {1, 4, 5}

(* Both endpoints at once.                                                 *)
RefilledLength == {5}
FilledLength == {4}

OnePacketLength == {1}
=============================================================================

--------------------------- MODULE MCMscPipeline ---------------------------
(***************************************************************************)
(* Instances of MscPipeline for TLC: the commands of each configuration.   *)
(* With Stream = 2 a command of 1 or 2 blocks is a single chunk, 3 ends in *)
(* an odd chunk, 4 to 6 go round both buffers once or more.                *)
(***************************************************************************)
EXTENDS MscPipeline

R(lba, n) == [op |-> "read", lba |-> lba, n |-> n, data |-> <<>>]
W(lba, d) == [op |-> "write", lba |-> lba, n |-> Len(d), data |-> d]
Test == [op |-> "test", lba |-> 0, n |-> 0, data |-> <<>>]

(* Six blocks; every READ length that matters, WRITEs without odd tail.    *)
NominalCommands ==
  { R(0, 6), R(1, 5), R(2, 3), R(4, 2), R(3, 1), Test,
    W(0, <<"a", "b", "b", "a", "a", "a">>), W(1, <<"b", "a", "b", "a">>),
    W(4, <<"b", "a">>), W(2, <<"a">>) }

(* Four blocks; an odd WRITE of three hangs and has to be reset.           *)
RecoveryCommands ==
  { R(0, 4), R(1, 3), Test, W(1, <<"b">>), W(2, <<"b", "a">>),
    W(0, <<"a", "b", "a">>), W(0, <<"a", "b", "a", "b">>) }

(* The WRITE the documentation promises to work: an odd number of blocks.  *)
OddTailCommands == { R(0, 3), W(1, <<"b">>), W(0, <<"a", "b", "a">>) }

(* Transfers of two chunks, to be cut short by a card error or a reset.    *)
TwoChunkCommands == { R(0, 4), Test, W(0, <<"a", "b", "b", "a">>) }
=============================================================================

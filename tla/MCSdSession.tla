---------------------------- MODULE MCSdSession ----------------------------
(***************************************************************************)
(* An instance of SdSession for TLC: a card of three blocks of two values, *)
(* calls of one and two blocks that continue, overlap and jump.            *)
(***************************************************************************)
EXTENDS SdSession

Request(user, op, lba, data) ==
  [user |-> user, op |-> op, lba |-> lba, n |-> Len(data), data |-> data]

TwoValues == {0, 1}
SomeRequests ==
  { Request("msc", "read", 0, <<0, 0>>), Request("msc", "read", 2, <<0>>),
    Request("msc", "write", 0, <<1, 0>>), Request("msc", "write", 2, <<1>>),
    Request("fatfs", "read", 1, <<0>>), Request("fatfs", "write", 1, <<1>>) }
=============================================================================

--------------------------- MODULE MCScsiCommands ---------------------------
(***************************************************************************)
(* Instances of ScsiCommands for TLC.  Blocks of two packets, a card of    *)
(* four blocks, counters modulo 1024; the commands are those hosts send    *)
(* when they mount, use and eject a drive, and READs and WRITEs off its    *)
(* end.                                                                    *)
(***************************************************************************)
EXTENDS ScsiCommands

Command(op, dir, want) ==
  [op |-> op, dir |-> dir, want |-> want, alloc |-> want, lba |-> 0, n |-> 0]
Transfer(op, dir, want, lba, n) ==
  [Command(op, dir, want) EXCEPT !.lba = lba, !.n = n]

(* A MODE SENSE that asks for less than the 8 bytes it gets, and lengths a *)
(* stale answer falls short of or exceeds.                                 *)
Enquiries ==
  { Command("testUnitReady", "out", 0), Command("startStop", "out", 0),
    Command("inquiry", "in", 36), Command("inquiryPage00", "in", 36),
    Command("readCapacity", "in", 8), Command("readFormatCapacity", "in", 252),
    Command("modeSense", "in", 4), Command("requestSense", "in", 18),
    Command("verify", "out", 0), Command("verifyBytes", "out", 0),
    Command("unsupported", "out", 0), Command("unsupported", "out", 64) }

(* In range, over the end, at the end of the 32-bit addresses, of no       *)
(* blocks, of a length that differs, in the wrong direction.               *)
Transfers ==
  { Transfer("read", "in", 128, 3, 1), Transfer("read", "in", 128, 4, 1),
    Transfer("read", "in", 128, 1023, 1), Transfer("read", "in", 0, 3, 0),
    Transfer("read", "in", 64, 3, 1),
    Transfer("write", "out", 128, 3, 1), Transfer("write", "out", 128, 4, 1),
    Transfer("write", "out", 0, 3, 0), Transfer("write", "out", 0, 1023, 1),
    Transfer("write", "in", 128, 3, 1) }

AllCommands == Enquiries \cup Transfers
=============================================================================

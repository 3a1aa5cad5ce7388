---------------------------- MODULE BlockDevice ----------------------------
(***************************************************************************)
(* What a USB mass-storage device promises its host, one Bulk-Only command *)
(* at a time: a READ hands over the stored blocks in order, a WRITE stores *)
(* the host's blocks at their own addresses and nowhere else, and a status *)
(* of "passed" is given only when the whole transfer has taken effect.     *)
(* There are no endpoints, buffers, queues or tasks here.                  *)
(***************************************************************************)
EXTENDS Naturals, Sequences

CONSTANTS
  NumBlocks,   \* blocks on the medium, addressed 0 .. NumBlocks-1
  Data,        \* the values a block can hold
  Commands     \* the commands a host issues: [op, lba, n, data]

VARIABLES
  disk,        \* contents of the medium
  req,         \* the command issued last
  got,         \* the blocks a READ has handed over so far
  status       \* "busy" from the issue of a command to its answer

vars == <<disk, req, got, status>>

Blocks == 0 .. NumBlocks - 1

(* "reset": the host gave the command up with a Bulk-Only reset.           *)
Answers == {"none", "passed", "failed", "reset"}

(* A WRITE has taken effect when every block holds the host's data; a READ *)
(* when the host has every block it asked for.                             *)
Done ==
  IF req.op = "write"
  THEN \A i \in 1 .. req.n : disk[req.lba + i - 1] = req.data[i]
  ELSE Len(got) = req.n

Init ==
  /\ disk \in [Blocks -> Data]
  /\ req \in Commands
  /\ got = <<>>
  /\ status = "none"

Issue ==
  /\ status # "busy"
  /\ req' \in Commands
  /\ got' = <<>>
  /\ status' = "busy"
  /\ UNCHANGED disk

Store ==
  /\ status = "busy"
  /\ req.op = "write"
  /\ \E i \in 1 .. req.n : disk' = [disk EXCEPT ![req.lba + i - 1] = req.data[i]]
  /\ UNCHANGED <<req, got, status>>

Deliver ==
  /\ status = "busy"
  /\ req.op = "read"
  /\ Len(got) < req.n
  /\ got' = Append(got, disk[req.lba + Len(got)])
  /\ UNCHANGED <<disk, req, status>>

Answer ==
  /\ status = "busy"
  /\ \/ status' = "passed" /\ Done
     \/ status' \in {"failed", "reset"}
  /\ UNCHANGED <<disk, req, got>>

Next == Issue \/ Store \/ Deliver \/ Answer

Spec == Init /\ [][Next]_vars
=============================================================================

----------------------------- MODULE PacketPipe -----------------------------
(***************************************************************************)
(* What a bulk endpoint promises to the two ends of it: one transfer at a  *)
(* time, its packets handed over once each and in order, and the transfer  *)
(* called complete when all of them are.  Only a bus reset loses packets.  *)
(***************************************************************************)
EXTENDS Sequences

CONSTANT Transfers   \* the packet sequences a transfer may consist of

VARIABLES
  bus,    \* the bus is on
  todo,   \* packets of the transfer the receiver does not have yet
  last,   \* the packet the receiver got last
  busy    \* the transfer has not been reported complete

vars == <<bus, todo, last, busy>>

Init ==
  /\ ~bus
  /\ todo = <<>>
  /\ ~busy

Start ==
  /\ bus /\ ~busy
  /\ todo' \in Transfers
  /\ busy' = TRUE
  /\ UNCHANGED <<bus, last>>

Move ==
  /\ todo # <<>>
  /\ last' = Head(todo)
  /\ todo' = Tail(todo)
  /\ UNCHANGED <<bus, busy>>

Complete ==
  /\ busy /\ todo = <<>>
  /\ busy' = FALSE
  /\ UNCHANGED <<bus, todo, last>>

Connect ==
  /\ ~bus
  /\ bus' = TRUE
  /\ UNCHANGED <<todo, last, busy>>

BusReset ==
  /\ bus
  /\ bus' = FALSE
  /\ todo' = <<>>
  /\ busy' = FALSE
  /\ UNCHANGED last

Next == Start \/ Move \/ Complete \/ Connect \/ BusReset

Spec == Init /\ [][Next]_vars
=============================================================================

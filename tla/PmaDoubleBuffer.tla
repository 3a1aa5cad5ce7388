-------------------------- MODULE PmaDoubleBuffer --------------------------
(***************************************************************************)
(* The double buffering of the two bulk endpoints in packet memory         *)
(* (usbd_pma_db.c): EP3 IN and EP2 OUT, each with two PMA blocks, the      *)
(* register bits that pass the blocks back and forth between the USB       *)
(* peripheral and the software, and the host's side of the wire.           *)
(*                                                                         *)
(* The peripheral acts whenever the registers let it, between any two      *)
(* steps of the software; the software is one CPU, whose endpoint          *)
(* interrupts run to the end before anything else is called.               *)
(***************************************************************************)
EXTENDS Integers, Sequences

CONSTANTS
  MaxPacket,   \* bytes in a full packet
  InLens,      \* lengths of the transfers asked of PMA_DB_Transmit
  OutLens,     \* lengths of the host's OUT transfers, and of the buffers
  HaltPolicy,  \* whether endpoints are stalled and the host clears the halt:
               \* "none", "inPhase" (only when H is 0) or "any"
  Abandons,    \* the host may give up an IN transfer with a Bulk-Only reset
  OtherTraffic \* the other endpoints (control, mouse) interrupt as well

ASSUME LengthsAssumption ==
  /\ MaxPacket \in Nat \ {0}
  /\ InLens \subseteq Nat
  /\ OutLens \subseteq Nat \ {0}

ASSUME PolicyAssumption ==
  /\ HaltPolicy \in {"none", "inPhase", "any"}
  /\ Abandons \in BOOLEAN
  /\ OtherTraffic \in BOOLEAN

Dirs == {"in", "out"}
Blocks == {0, 1}

VARIABLES
  (* the endpoint registers and the packet memory *)
  H,         \* the block the hardware uses next: DTOG_TX of IN, DTOG_RX of OUT
  S,         \* the other DTOG bit, flipped by the software to hand a block over
  stat,      \* STAT_TX of IN, STAT_RX of OUT: "dis", "valid" or "stall"
  ctr,       \* the transfer-complete flag
  pma,       \* pma[d][b]: the packet in block b
  usb,       \* "on", "hwreset" (bus reset signalled, interrupt pending),
             \* "default" (waiting to be configured)
  xferLen,   \* xfer_len of IN_ep[3], which only the HAL counts down
  (* s_ep_in and s_ep_out *)
  txOff, txRemain, txPushed,
  rxOn,      \* rx_buf # NULL
  rxSize, rxCount,
  anom,      \* s_anom # 0
  (* the CPU: where the interrupt handler is, and its local variables *)
  pc,        \* "idle", "inFlip", "inFill", "inDone", "outFlip", "outCopy", "outDone"
  idx, cnt, last,
  (* the layer above *)
  txNo,      \* which transfer it asked for: tells apart old and new packets
  txBusy,    \* it waits for the completion of an IN transfer
  rxLast,    \* the packet it was given last
  (* the host *)
  tog,       \* tog[d]: the data toggle it sends or expects next
  inLast,    \* the packet it got last
  hNo, hLen, hOff,   \* its OUT transfer: which, length, bytes sent
  hBusy      \* the device has not reported that transfer complete

regVars == <<H, S, stat, ctr, pma, usb, xferLen>>
txVars == <<txOff, txRemain, txPushed, txNo, txBusy>>
rxVars == <<rxOn, rxSize, rxCount, rxLast>>
cpuVars == <<pc, idx, cnt, last>>
hostVars == <<tog, inLast, hNo, hLen, hOff, hBusy>>
vars == <<regVars, txVars, rxVars, cpuVars, hostVars, anom>>

-----------------------------------------------------------------------------
Least(a, b) == IF a <= b THEN a ELSE b

(* A packet is known by its transfer and its place in it.                  *)
Packet(no, off, n) == [no |-> no, off |-> off, len |-> Least(n, MaxPacket)]
Empty == [no |-> 0, off |-> 0, len |-> 0]

(* The packets of the last n bytes of a transfer, from offset off on.      *)
Packets(no, off, n) ==
  [i \in 1 .. (n + MaxPacket - 1) \div MaxPacket |->
     Packet(no, off + (i - 1) * MaxPacket, n - (i - 1) * MaxPacket)]

(* A DTOG bit written: the other block.                                    *)
Flipped(s, d) == [s EXCEPT ![d] = 1 - @]
Released(d) == H[d] # S[d]

(* The block a completed transaction used: S ? BUF0 : BUF1.  The variant   *)
(* takes the other one.                                                    *)
CurrentBlock(d) == S[d]
UsedBlock(d) == 1 - S[d]

(* Whether the software releases a further block on an interrupt.  The     *)
(* variants do so without looking, or never.                               *)
AlwaysMore == TRUE
NeverMore == FALSE
MoreToSend == txPushed # 0
MoreToReceive == ~last

(* "done" of db_out_complete.  The variant waits for one byte too many.    *)
DoneLate(n) == n < MaxPacket \/ rxCount + n > rxSize
Done(n) == n < MaxPacket \/ rxCount + n >= rxSize

(* Which transfers are still under way, and when the phase is brought back *)
(* before a new one.  Variants: only what is still to be filled counts;    *)
(* every transfer starts from block 0.                                     *)
StillToFill == txRemain # 0
UnderWay == txPushed # 0 \/ txRemain # 0
EveryTime == TRUE
PhaseOff == Released("in")

(* db_reset_progress of both endpoints.                                    *)
ResetProgress ==
  /\ txOff' = 0 /\ txRemain' = 0 /\ txPushed' = 0
  /\ rxOn' = FALSE /\ rxSize' = 0 /\ rxCount' = 0

-----------------------------------------------------------------------------
(* Calls from the layer above, none of them inside an endpoint interrupt   *)
(* (a completion callback is the last thing a handler does)                *)

Callable == pc = "idle" /\ usb # "hwreset"

(* PMA_DB_Transmit.  Interrupts are masked, and until the last step S = H  *)
(* keeps the peripheral away: a transfer under way refuses a second one, a *)
(* phase that is not idle is brought back first, then one or two blocks    *)
(* are filled and the first is released.                                   *)
Transmit(n) ==
  /\ Callable /\ ~txBusy
  /\ txBusy' = TRUE
  /\ xferLen' = n
  /\ \/ /\ UnderWay
        /\ anom' = TRUE
        /\ UNCHANGED <<H, S, stat, ctr, pma, usb, txOff, txRemain, txPushed, txNo>>
     \/ /\ ~UnderWay
        /\ LET first == IF PhaseOff THEN 0 ELSE S["in"]
               loaded == Least(n, 2 * MaxPacket)
           IN  /\ H' = [H EXCEPT !["in"] = first]
               /\ S' = [S EXCEPT !["in"] = 1 - first]
               /\ pma' = [pma EXCEPT
                    !["in"][first] = Packet(1 - txNo, 0, n),
                    !["in"][1 - first] =
                       IF n > MaxPacket THEN Packet(1 - txNo, MaxPacket, n - MaxPacket) ELSE @]
               /\ txPushed' = IF n > MaxPacket THEN 2 ELSE 1
               /\ txOff' = loaded /\ txRemain' = n - loaded
        /\ txNo' = 1 - txNo
        /\ stat' = [stat EXCEPT !["in"] = "valid"]
        /\ UNCHANGED <<ctr, usb, anom>>
  /\ UNCHANGED <<rxVars, cpuVars, hostVars>>

(* db_rx_arm: a block is released unless one already is.                   *)
RxArm == S' = IF Released("out") THEN S ELSE Flipped(S, "out")

(* The host sends what the device can take: as much as the buffer holds,   *)
(* or less and then a short packet to end with.                            *)
Fits(n, size) == n = size \/ (n < size /\ n % MaxPacket # 0)
MidTransfer == hBusy /\ hOff > 0

(* The packet counts of both OUT blocks are set back.                      *)
NoCounts == [pma EXCEPT !["out"] = [b \in Blocks |-> Empty]]

(* PMA_DB_PrepareReceive, again for a buffer nothing has come to yet.      *)
PrepareReceive(m) ==
  /\ Callable /\ ~MidTransfer
  /\ hBusy => Fits(hLen, m)
  /\ rxOn' = TRUE /\ rxSize' = m /\ rxCount' = 0
  /\ pma' = NoCounts
  /\ RxArm
  /\ stat' = [stat EXCEPT !["out"] = "valid"]
  /\ UNCHANGED <<H, ctr, usb, xferLen, txVars, rxLast, cpuVars, hostVars, anom>>

(* MSC_BOT_Abort stalls an endpoint between transfers.                     *)
Stall(d) ==
  /\ HaltPolicy # "none"
  /\ Callable /\ usb = "on"
  /\ IF d = "in" THEN ~txBusy ELSE ~hBusy
  /\ stat' = [stat EXCEPT ![d] = "stall"]
  /\ UNCHANGED <<H, S, ctr, pma, usb, xferLen, txVars, rxVars, cpuVars, hostVars, anom>>

(* CLEAR_FEATURE(ENDPOINT_HALT): the host starts again with DATA0, while   *)
(* USB_EPClearStall leaves a double-buffered endpoint as it is.            *)
ClearHalt(d) ==
  /\ Callable /\ stat[d] = "stall"
  /\ HaltPolicy = "inPhase" => H[d] = 0
  /\ tog' = [tog EXCEPT ![d] = 0]
  /\ UNCHANGED <<regVars, txVars, rxVars, cpuVars, inLast, hNo, hLen, hOff, hBusy, anom>>

(* MSC_BOT_Reset in an IN transfer: the class starts over, and nothing     *)
(* tells this layer.                                                       *)
Abandon ==
  /\ Abandons
  /\ Callable /\ usb = "on" /\ txBusy
  /\ txBusy' = FALSE
  /\ UNCHANGED <<regVars, txOff, txRemain, txPushed, txNo, rxVars, cpuVars,
                 hostVars, anom>>

-----------------------------------------------------------------------------
(* PMA_DB_IRQHandler                                                       *)

(* The end of a handler, whose local variables are gone.                   *)
Return == pc' = "idle" /\ idx' = 0 /\ cnt' = 0 /\ last' = FALSE

(* db_in_complete: one block fewer is in the hardware's hands ...          *)
IrqIn ==
  /\ pc = "idle" /\ ctr["in"]
  /\ ctr' = [ctr EXCEPT !["in"] = FALSE]
  /\ IF txPushed = 0
     THEN anom' = TRUE /\ UNCHANGED <<pc, idx, txPushed>>
     ELSE /\ idx' = UsedBlock("in") /\ txPushed' = txPushed - 1 /\ pc' = "inFlip"
          /\ UNCHANGED anom
  /\ UNCHANGED <<H, S, stat, pma, usb, xferLen, txOff, txRemain, txNo, txBusy, rxVars,
                 cnt, last, hostVars>>

(* ... the other one is released before the free one is filled ...         *)
InFlip ==
  /\ pc = "inFlip"
  /\ S' = IF MoreToSend THEN Flipped(S, "in") ELSE S
  /\ \/ txRemain # 0 /\ pc' = "inFill" /\ UNCHANGED <<idx, cnt, last>>
     \/ txRemain = 0 /\ txPushed = 0 /\ pc' = "inDone" /\ UNCHANGED <<idx, cnt, last>>
     \/ txRemain = 0 /\ txPushed # 0 /\ Return
  /\ UNCHANGED <<H, stat, ctr, pma, usb, xferLen, txVars, rxVars, hostVars, anom>>

(* ... and the free one is filled while the other may be on the wire.      *)
InFill ==
  /\ pc = "inFill"
  /\ LET p == Packet(txNo, txOff, txRemain)
     IN  /\ pma' = [pma EXCEPT !["in"][idx] = p]
         /\ txOff' = txOff + p.len /\ txRemain' = txRemain - p.len
  /\ txPushed' = txPushed + 1
  /\ stat' = [stat EXCEPT !["in"] = "valid"]
  /\ Return
  /\ UNCHANGED <<H, S, ctr, usb, xferLen, txNo, txBusy, rxVars, hostVars, anom>>

InDone ==
  /\ pc = "inDone"
  /\ txBusy' = FALSE
  /\ Return
  /\ UNCHANGED <<regVars, txOff, txRemain, txPushed, txNo, rxVars, hostVars, anom>>

(* db_out_complete: the count of the block just written decides whether    *)
(* the transfer is over ...                                                *)
IrqOut ==
  /\ pc = "idle" /\ ctr["out"]
  /\ ctr' = [ctr EXCEPT !["out"] = FALSE]
  /\ IF ~rxOn
     THEN anom' = TRUE /\ pma' = NoCounts /\ UNCHANGED <<pc, idx, cnt, last>>
     ELSE LET n == pma["out"][UsedBlock("out")].len
          IN  /\ idx' = UsedBlock("out") /\ cnt' = n /\ last' = Done(n) /\ pc' = "outFlip"
              /\ UNCHANGED <<anom, pma>>
  /\ UNCHANGED <<H, S, stat, usb, xferLen, txVars, rxVars, hostVars>>

(* ... if not, the next block is released before this one is copied ...    *)
OutFlip ==
  /\ pc = "outFlip"
  /\ S' = IF MoreToReceive THEN Flipped(S, "out") ELSE S
  /\ pc' = "outCopy"
  /\ UNCHANGED <<H, stat, ctr, pma, usb, xferLen, txVars, rxVars, idx, cnt, last, hostVars,
                 anom>>

(* ... which may then go on beside the next packet's arrival.  What is     *)
(* copied when the bus has been reset is not given to anyone.              *)
OutCopy ==
  /\ pc = "outCopy"
  /\ rxLast' = IF usb = "on" THEN pma["out"][idx] ELSE rxLast
  /\ rxCount' = rxCount + cnt
  /\ anom' = (anom \/ cnt = 0)
  /\ \/ last /\ pc' = "outDone" /\ UNCHANGED <<idx, cnt, last>>
     \/ ~last /\ Return
  /\ UNCHANGED <<regVars, txVars, rxOn, rxSize, hostVars>>

OutDone ==
  /\ pc = "outDone"
  /\ hBusy' = FALSE /\ hLen' = 0 /\ hOff' = 0
  /\ Return
  /\ UNCHANGED <<regVars, txVars, rxVars, tog, inLast, hNo, anom>>

(* Interrupts of the other endpoints go to HAL_PCD_IRQHandler, which       *)
(* serves whatever is flagged by then.  HAL_PCD_EP_DB_Transmit takes its   *)
(* own count of the transfer down, reports completion when that is 0, and  *)
(* releases a block; it fills none and knows nothing of tx_pushed.         *)
HalIn ==
  /\ OtherTraffic
  /\ pc = "idle" /\ ctr["in"]
  /\ ctr' = [ctr EXCEPT !["in"] = FALSE]
  /\ LET left == xferLen - Least(xferLen, pma["in"][UsedBlock("in")].len)
     IN  /\ xferLen' = left
         /\ \/ /\ left = 0
               /\ pma' = [pma EXCEPT !["in"] = [b \in Blocks |-> [@[b] EXCEPT !.len = 0]]]
               /\ txBusy' = FALSE
            \/ /\ left # 0
               /\ UNCHANGED <<pma, txBusy>>
  /\ S' = Flipped(S, "in")
  /\ stat' = [stat EXCEPT !["in"] = "valid"]
  /\ UNCHANGED <<H, usb, txOff, txRemain, txPushed, txNo, rxVars, cpuVars, hostVars, anom>>

(* HAL_PCD_ResetCallback -> PMA_DB_Reset, once no packet is left to serve. *)
ResetIrq ==
  /\ pc = "idle" /\ usb = "hwreset" /\ \A d \in Dirs : ~ctr[d]
  /\ ResetProgress
  /\ stat' = [d \in Dirs |-> "dis"]
  /\ usb' = "default"
  /\ txBusy' = FALSE
  /\ UNCHANGED <<H, S, ctr, pma, xferLen, txNo, rxLast, cpuVars, hostVars, anom>>

(* db_force_init: both DTOG bits of an endpoint cleared.  The variant      *)
(* leaves them.                                                            *)
KeepPhase == UNCHANGED <<H, S>>
ForceInit ==
  /\ H' = [d \in Dirs |-> 0]
  /\ S' = [d \in Dirs |-> 0]

(* SET_CONFIGURATION: PMA_DB_OpenEp of both endpoints, in one interrupt.   *)
OpenEp ==
  /\ Callable /\ usb = "default"
  /\ ResetProgress
  /\ ForceInit
  /\ stat' = [d \in Dirs |-> "valid"]
  /\ usb' = "on"
  /\ txBusy' = FALSE
  /\ UNCHANGED <<ctr, pma, xferLen, txNo, rxLast, cpuVars, hostVars, anom>>

Cpu == \/ IrqIn \/ InFlip \/ InFill \/ InDone
       \/ IrqOut \/ OutFlip \/ OutCopy \/ OutDone
       \/ HalIn \/ ResetIrq

-----------------------------------------------------------------------------
(* The peripheral and the host                                             *)

(* The host fetches a released block.  One with the wrong toggle looks     *)
(* like the repetition of an acknowledged packet: it is acknowledged and   *)
(* dropped.                                                                *)
WireIn ==
  /\ usb = "on" /\ stat["in"] = "valid" /\ Released("in")
  /\ IF tog["in"] = H["in"]
     THEN inLast' = pma["in"][H["in"]] /\ tog' = Flipped(tog, "in")
     ELSE UNCHANGED <<inLast, tog>>
  /\ H' = Flipped(H, "in")
  /\ ctr' = [ctr EXCEPT !["in"] = TRUE]
  /\ UNCHANGED <<S, stat, pma, usb, xferLen, txVars, rxVars, cpuVars, hNo, hLen, hOff, hBusy,
                 anom>>

HostSend(n) ==
  /\ usb = "on" /\ ~hBusy
  /\ Released("out") => Fits(n, rxSize)
  /\ hBusy' = TRUE /\ hNo' = 1 - hNo /\ hLen' = n /\ hOff' = 0
  /\ UNCHANGED <<regVars, txVars, rxVars, cpuVars, tog, inLast, anom>>

(* The next packet goes into a released block; with the wrong toggle the   *)
(* peripheral acknowledges and drops it.                                   *)
WireOut ==
  /\ usb = "on" /\ stat["out"] = "valid" /\ Released("out")
  /\ hBusy /\ hOff < hLen
  /\ LET p == Packet(hNo, hOff, hLen - hOff)
     IN  /\ hOff' = hOff + p.len
         /\ IF tog["out"] = H["out"]
            THEN /\ pma' = [pma EXCEPT !["out"][H["out"]] = p]
                 /\ H' = Flipped(H, "out")
                 /\ ctr' = [ctr EXCEPT !["out"] = TRUE]
            ELSE UNCHANGED <<pma, H, ctr>>
  /\ tog' = Flipped(tog, "out")
  /\ UNCHANGED <<S, stat, usb, xferLen, txVars, rxVars, cpuVars, inLast, hNo, hLen, hBusy,
                 anom>>

(* A bus reset clears the endpoint registers at once, but for the flags of *)
(* packets already there, and ends every transfer of the host; its         *)
(* interrupt comes later.                                                  *)
BusReset ==
  /\ usb = "on"
  /\ usb' = "hwreset"
  /\ H' = [d \in Dirs |-> 0] /\ S' = [d \in Dirs |-> 0]
  /\ stat' = [d \in Dirs |-> "dis"]
  /\ tog' = [d \in Dirs |-> 0]
  /\ hBusy' = FALSE /\ hLen' = 0 /\ hOff' = 0
  /\ UNCHANGED <<ctr, pma, xferLen, txVars, rxVars, cpuVars, inLast, hNo, anom>>

-----------------------------------------------------------------------------
Init ==
  /\ H = [d \in Dirs |-> 0] /\ S = [d \in Dirs |-> 0]
  /\ stat = [d \in Dirs |-> "dis"] /\ ctr = [d \in Dirs |-> FALSE]
  /\ pma = [d \in Dirs |-> [b \in Blocks |-> Empty]]
  /\ usb = "default" /\ xferLen = 0
  /\ txOff = 0 /\ txRemain = 0 /\ txPushed = 0 /\ txNo = 0 /\ txBusy = FALSE
  /\ rxOn = FALSE /\ rxSize = 0 /\ rxCount = 0 /\ rxLast = Empty
  /\ pc = "idle" /\ idx = 0 /\ cnt = 0 /\ last = FALSE
  /\ tog = [d \in Dirs |-> 0] /\ inLast = Empty
  /\ hNo = 0 /\ hLen = 0 /\ hOff = 0 /\ hBusy = FALSE
  /\ anom = FALSE

Calls ==
  \/ \E n \in InLens : Transmit(n)
  \/ \E m \in OutLens : PrepareReceive(m)
  \/ \E d \in Dirs : Stall(d) \/ ClearHalt(d)
  \/ Abandon \/ OpenEp

Wire == WireIn \/ WireOut \/ (\E n \in OutLens : HostSend(n)) \/ BusReset

Next == Calls \/ Cpu \/ Wire

Spec == Init /\ [][Next]_vars

(* Interrupts are served, those of each endpoint in time, as the handler   *)
(* takes less than a packet on the wire; the host polls and configures; a  *)
(* receive buffer is prepared again and again.                             *)
Fairness ==
  /\ WF_vars(Cpu) /\ SF_vars(IrqIn) /\ SF_vars(IrqOut)
  /\ WF_vars(WireIn) /\ WF_vars(WireOut) /\ WF_vars(OpenEp)
  /\ SF_vars(\E m \in OutLens : PrepareReceive(m))

FairSpec == Spec /\ Fairness

-----------------------------------------------------------------------------
(* Properties                                                              *)

Packet0 == [no : Blocks, off : Nat, len : 0 .. MaxPacket]

RegTypes ==
  /\ H \in [Dirs -> Blocks] /\ S \in [Dirs -> Blocks]
  /\ stat \in [Dirs -> {"dis", "valid", "stall"}] /\ ctr \in [Dirs -> BOOLEAN]
  /\ pma \in [Dirs -> [Blocks -> Packet0]] /\ usb \in {"on", "hwreset", "default"}
  /\ xferLen \in Nat
TxTypes ==
  /\ txOff \in Nat /\ txRemain \in Nat /\ txPushed \in 0 .. 2
  /\ txNo \in Blocks /\ txBusy \in BOOLEAN
RxTypes ==
  /\ rxOn \in BOOLEAN /\ rxSize \in Nat /\ rxCount \in Nat /\ rxLast \in Packet0
CpuTypes ==
  /\ pc \in {"idle", "inFlip", "inFill", "inDone", "outFlip", "outCopy", "outDone"}
  /\ idx \in Blocks /\ cnt \in Nat /\ last \in BOOLEAN
HostTypes ==
  /\ tog \in [Dirs -> Blocks] /\ inLast \in Packet0
  /\ hNo \in Blocks /\ hLen \in Nat /\ hOff \in Nat /\ hBusy \in BOOLEAN

(* Every variable keeps its type, a transfer never has more than the two   *)
(* blocks in flight, and no host writes beyond the end of a receive buffer.*)
TypeOK ==
  /\ RegTypes /\ TxTypes /\ RxTypes /\ CpuTypes /\ HostTypes
  /\ usb = "on" => rxCount <= rxSize
  /\ anom \in BOOLEAN

(* "At the CTR interrupt H = S" (rule two): between a packet and its       *)
(* interrupt nobody releases a block, so S still tells which one it was.   *)
RuleTwo == \A d \in Dirs : ctr[d] => ~Released(d)

(* The block the interrupt fills or copies is never the one the peripheral *)
(* may be sending from or writing to at the same time, nor one that holds  *)
(* a packet yet to be copied.                                              *)
BlocksApart ==
  /\ usb = "on" /\ pc = "inFill" /\ Released("in") => H["in"] # idx
  /\ usb = "on" /\ pc \in {"outFlip", "outCopy"} /\ Released("out") => H["out"] # idx
  /\ usb = "on" /\ pc = "outCopy" /\ ctr["out"] => UsedBlock("out") # idx

(* "The diagnostic counters should stay 0", at least while the bus is on:  *)
(* no interrupt comes without a block in the hardware's hands or a buffer  *)
(* to put it in, no empty packet arrives, and no transfer is refused for   *)
(* one under way.                                                          *)
NoAnomaly == [][usb = "on" => anom' = anom]_vars

(* The block number stands for DATA0/DATA1 (rule three): what the device   *)
(* uses next is what the host expects next, so no packet is taken for a    *)
(* repetition and dropped.                                                 *)
PidAgrees == usb = "on" => H = tog

(* Seen from its two ends each endpoint is a packet pipe.  A packet is     *)
(* handed over to the host on the wire, to the class when it is copied out *)
(* of packet memory.                                                       *)
InHands == IF ctr["in"] THEN txPushed - 1 ELSE txPushed
InTodo ==
  IF usb = "on" /\ txBusy
  THEN [i \in 1 .. InHands |-> pma["in"][(H["in"] + i - 1) % 2]]
         \o Packets(txNo, txOff, txRemain)
  ELSE <<>>
OutTodo ==
  IF usb = "on" /\ hBusy
  THEN (IF pc \in {"outFlip", "outCopy"} THEN <<pma["out"][idx]>> ELSE <<>>)
         \o (IF ctr["out"] THEN <<pma["out"][UsedBlock("out")]>> ELSE <<>>)
         \o Packets(hNo, hOff, hLen - hOff)
  ELSE <<>>

InTransfers ==
  {<<Packet(no, 0, 0)>> : no \in Blocks}
    \cup {Packets(no, 0, n) : no \in Blocks, n \in InLens \ {0}}
OutTransfers == {Packets(no, 0, n) : no \in Blocks, n \in OutLens}

InPipe == INSTANCE PacketPipe WITH
  Transfers <- InTransfers, bus <- usb = "on",
  todo <- InTodo, last <- inLast, busy <- usb = "on" /\ txBusy
OutPipe == INSTANCE PacketPipe WITH
  Transfers <- OutTransfers, bus <- usb = "on",
  todo <- OutTodo, last <- rxLast, busy <- hBusy

(* EP3 IN (EP2 OUT) loses, repeats and reorders no packet, and a transfer  *)
(* is reported complete exactly when all its packets are over.             *)
InImplementsPipe == InPipe!Spec
OutImplementsPipe == OutPipe!Spec

(* Nobody waits for the other's flip: while a transfer is under way there  *)
(* is a handler to run, an interrupt to take or a packet to pass on the    *)
(* wire.  A host transfer of which nothing has been sent may have to wait  *)
(* for a buffer.                                                           *)
InMoves ==
  usb = "on" /\ txBusy =>
    \/ pc \in {"inFlip", "inFill", "inDone"} \/ ctr["in"]
    \/ Released("in") /\ stat["in"] = "valid"
OutMoves ==
  usb = "on" /\ MidTransfer =>
    \/ pc \in {"outFlip", "outCopy", "outDone"} \/ ctr["out"]
    \/ Released("out") /\ stat["out"] = "valid" /\ hOff < hLen

(* A transfer that was accepted, or that the host began, ends: by its      *)
(* completion or by a bus reset.                                           *)
InTransferEnds == txBusy ~> ~txBusy
OutTransferEnds == hBusy ~> ~hBusy
=============================================================================

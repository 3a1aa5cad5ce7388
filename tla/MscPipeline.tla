---------------------------- MODULE MscPipeline ----------------------------
(***************************************************************************)
(* The data path of the flash drive: the Bulk-Only state machine that runs *)
(* in the USB interrupt (usbd_msc_bot.c), READ(10)/WRITE(10)               *)
(* (usbd_msc_scsi.c), the scsi_msc task behind its signal queue, the two   *)
(* ping-pong buffers s_buf[0..1] shared by the wire and the SD card, and   *)
(* the host at the other end of the bulk endpoints.                        *)
(*                                                                         *)
(* The unit of data is one 512-byte block (eight bulk packets).  Interrupt *)
(* handlers are atomic, as they preempt the task; the task moves one       *)
(* blocking or interrupt-visible operation at a time, and one block at a   *)
(* time inside an SD operation.                                            *)
(***************************************************************************)
EXTENDS Integers, Sequences

CONSTANTS
  NumBlocks,     \* blocks on the card
  Stream,        \* MSC_STREAM_PACKET in blocks: the size of one s_buf
  QDepth,        \* depth of the signal queue
  LenMod,        \* stands for 2^32, where the unsigned counters wrap
  NumTags,       \* dTag values the host cycles through
  Data, Junk,    \* block contents, and what an unfilled buffer holds
  Commands,      \* commands the host may issue
  ReadMayFail,   \* the card may refuse a block read
  WriteFailures, \* which block writes the card may refuse: "never", "last"
                 \* (those of a command's last chunk) or "any"
  ResetPolicy    \* when the host resets: "none"; "quiet", a Bulk-Only reset
                 \* after everything stopped; "bus", also the bus at any time,
                 \* configuring the device when the task has come to rest;
                 \* or "any", a Bulk-Only reset in the middle of things

Blocks == 0 .. NumBlocks - 1
Cell == Data \cup {Junk}
Tags == 0 .. NumTags - 1
Cbw == 2         \* rx.dst: the hmsc->cbw buffer, beside s_buf 0 and 1

ASSUME SizesAssumption ==
  /\ NumBlocks \in Nat \ {0}
  /\ Stream \in Nat \ {0}
  /\ QDepth \in Nat \ {0}
  /\ LenMod \in Nat /\ LenMod > NumBlocks /\ LenMod > Stream
  /\ NumTags \in Nat \ {0}

ASSUME CommandsAssumption ==
  /\ Commands # {}
  /\ \A c \in Commands :
       /\ c \in [op : {"read", "write", "test"}, lba : Blocks, n : Nat, data : Seq(Data)]
       /\ c.op = "test" => c.n = 0
       /\ c.op # "test" => c.n >= 1
       /\ c.op = "write" => Len(c.data) = c.n
       /\ c.lba + c.n <= NumBlocks

ASSUME EnvironmentAssumption ==
  /\ ReadMayFail \in BOOLEAN
  /\ WriteFailures \in {"never", "last", "any"}
  /\ ResetPolicy \in {"none", "quiet", "bus", "any"}
  /\ Junk \notin Data

VARIABLES
  (* the host *)
  hphase,    \* "idle", "cbw", "dataout", "datain", "csw", "confused" or "off"
             \* (from a bus reset to the next configuration)
  hcmd,      \* the command it is running
  htag,      \* its dCBWTag
  hsent,     \* blocks of a WRITE sent so far
  hrecv,     \* blocks of a READ received so far
  hcsw,      \* the outcome of the last command
  (* hmsc: the Bulk-Only and SCSI state *)
  botState, cbw, cswTag, residue, blkAddr, blkLen,
  (* the pipeline statics *)
  sIdx,      \* s_buf_idx
  q,         \* s_scsi_sig_q
  rdPend, rdBuf, rdFailed,
  (* the task: where it is, and sig.buf/nxt, blk_count, the block address
     and the block index of the SD operation it is in *)
  pc, cur, cnt, addr, done,
  (* the bulk endpoints *)
  rx,        \* OUT: armed?, destination, blocks expected, blocks received
  tx,        \* IN: what is being sent; the CSW's fields were copied out
  inStall,   \* STAT_TX = STALL
  (* memories *)
  buf,       \* s_buf[0..1]
  card       \* the SD card

hostVars == <<hphase, hcmd, htag, hsent, hrecv, hcsw>>
hmscVars == <<botState, cbw, cswTag, residue, blkAddr, blkLen>>
pipeVars == <<sIdx, q, rdPend, rdBuf, rdFailed>>
taskVars == <<pc, cur, cnt, addr, done>>
epVars   == <<rx, tx, inStall>>
vars == <<hostVars, hmscVars, pipeVars, taskVars, epVars, buf, card>>

-----------------------------------------------------------------------------
Least(a, b) == IF a <= b THEN a ELSE b

(* len and blk_count of the task: MIN(remaining, MSC_STREAM_PACKET).       *)
Chunk(n) == Least(n, Stream)

(* Subtraction of unsigned counters.                                       *)
Minus(a, b) == IF b <= a THEN a - b ELSE a - b + LenMod

NoTx == [kind |-> "none", buf |-> 0, size |-> 0, sent |-> 0,
         status |-> "none", tag |-> 0, residue |-> 0]
DataTx(b, n) == [NoTx EXCEPT !.kind = "data", !.buf = b, !.size = n]
CswTx(st, tag, res) ==
  [NoTx EXCEPT !.kind = "csw", !.status = st, !.tag = tag, !.residue = res]

Arm(dst, n) == [armed |-> TRUE, dst |-> dst, size |-> n, got |-> 0]
ArmCbw == Arm(Cbw, 0)
Disarmed(r) == [r EXCEPT !.armed = FALSE]

(* PMA_DB_Transmit answers HAL_BUSY while a transfer is under way and the  *)
(* wrapper's caller ignores it; a transfer that starts sets STAT_TX VALID. *)
Transmit(t, new) ==
  /\ tx' = IF t.kind = "none" THEN new ELSE t
  /\ inStall' = (inStall /\ t.kind # "none")

(* MSC_BOT_SendCSW; t is the IN endpoint at the call, res the residue.     *)
SendCSW(t, st, tag, res) ==
  /\ botState' = "IDLE"
  /\ Transmit(t, CswTx(st, tag, res))
  /\ rx' = ArmCbw

(* The answer to a refused card access; the variants forget the residue,   *)
(* or report success.                                                      *)
RefuseWithoutResidue == SendCSW(tx, "failed", cswTag, 0)
RefuseAsPassed == SendCSW(tx, "passed", cswTag, residue)
Refuse == SendCSW(tx, "failed", cswTag, residue)

(* The partner of a buffer: cur ^ 1.  The variants do not alternate, or    *)
(* step on without turning back.                                           *)
SameBuf(b) == b
FollowingBuf(b) == b + 1
NextBuf(b) == 1 - b

(* scsi_msc_signal_from_isr: an item that finds the queue full is dropped. *)
(* Variants: two items per completion; none while the task is at work, the *)
(* test the ownership comment rules out.                                   *)
SignalTwice(op, b) == q' = q \o <<[op |-> op, buf |-> b], [op |-> op, buf |-> b]>>
SignalIfIdle(op, b) ==
  q' = IF pc = "wait" THEN Append(q, [op |-> op, buf |-> b]) ELSE q
Signal(op, b) ==
  q' = IF Len(q) < QDepth THEN Append(q, [op |-> op, buf |-> b]) ELSE q

-----------------------------------------------------------------------------
(* The USB interrupt                                                       *)

(* SCSI_Read10: nothing of an earlier read-ahead stays, the task gets its   *)
(* first item.                                                             *)
Read10(cmd) ==
  /\ blkAddr' = cmd.lba /\ blkLen' = cmd.n
  /\ botState' = "DATA_IN"
  /\ sIdx' = 0 /\ rdPend' = FALSE /\ rdFailed' = FALSE
  /\ Signal("read", 0)
  /\ rx' = Disarmed(rx)
  /\ UNCHANGED <<tx, inStall, rdBuf>>

(* SCSI_Write10: s_buf[0] is armed for the first chunk.                    *)
Write10(cmd) ==
  /\ blkAddr' = cmd.lba /\ blkLen' = cmd.n
  /\ botState' = "DATA_OUT"
  /\ sIdx' = 0
  /\ rx' = Arm(0, Chunk(cmd.n))
  /\ UNCHANGED <<tx, inStall, q, rdPend, rdBuf, rdFailed>>

(* MSC_BOT_CBW_Decode of hmsc->cbw = c, cbwLen telling whether the transfer *)
(* had the length of a CBW.  A command without data is answered here.       *)
CbwDecode(cbwLen, c) ==
  /\ cbw' = c
  /\ cswTag' = c.tag
  /\ residue' = c.cmd.n
  /\ \/ /\ ~(cbwLen /\ c.ok)
        /\ rx' = ArmCbw /\ inStall' = TRUE
        /\ UNCHANGED <<tx, botState, blkAddr, blkLen, sIdx, q, rdPend, rdBuf, rdFailed>>
     \/ /\ cbwLen /\ c.ok /\ c.cmd.op = "test"
        /\ SendCSW(tx, "passed", c.tag, c.cmd.n)
        /\ UNCHANGED <<blkAddr, blkLen, sIdx, q, rdPend, rdBuf, rdFailed>>
     \/ cbwLen /\ c.ok /\ c.cmd.op = "read" /\ Read10(c.cmd)
     \/ cbwLen /\ c.ok /\ c.cmd.op = "write" /\ Write10(c.cmd)

(* MSC_BOT_DataOut: an OUT transfer has ended, cbwLen tells whether with   *)
(* the 31 bytes of a CBW, and c is what hmsc->cbw then holds.              *)
DataOut(cbwLen, c) ==
  \/ /\ botState = "IDLE"
     /\ CbwDecode(cbwLen, c)
  \/ /\ botState = "DATA_OUT"
     /\ Signal("write", sIdx)
     /\ rx' = Disarmed(rx)
     /\ cbw' = c
     /\ UNCHANGED <<botState, cswTag, residue, blkAddr, blkLen, sIdx, rdPend, rdBuf,
                    rdFailed, tx, inStall>>
  \/ /\ botState \notin {"IDLE", "DATA_OUT"}
     /\ rx' = Disarmed(rx)
     /\ cbw' = c
     /\ UNCHANGED <<botState, cswTag, residue, blkAddr, blkLen, pipeVars, tx, inStall>>

(* MSC_BOT_DataIn: an IN transfer has ended, so the endpoint is free.      *)
DataIn ==
  \/ /\ botState = "DATA_IN"
     /\ Signal("read", sIdx)
     /\ tx' = NoTx
     /\ UNCHANGED <<hmscVars, sIdx, rdPend, rdBuf, rdFailed, rx, inStall>>
  \/ /\ botState = "LAST_DATA_IN"
     /\ SendCSW(NoTx, "passed", cswTag, residue)
     /\ UNCHANGED <<cbw, cswTag, residue, blkAddr, blkLen, pipeVars>>
  \/ /\ botState \in {"IDLE", "DATA_OUT"}
     /\ tx' = NoTx
     /\ UNCHANGED <<hmscVars, pipeVars, rx, inStall>>

-----------------------------------------------------------------------------
(* The host and the wire                                                   *)

HostIssue ==
  /\ hphase = "idle"
  /\ hcmd' \in Commands
  /\ hphase' = "cbw"
  /\ htag' = IF htag + 1 = NumTags THEN 0 ELSE htag + 1
  /\ hsent' = 0 /\ hrecv' = <<>>
  /\ UNCHANGED <<hcsw, hmscVars, pipeVars, taskVars, epVars, buf, card>>

(* The CBW reaches whichever buffer the OUT endpoint is armed with; being  *)
(* a short packet it ends the transfer.                                    *)
OutCbw ==
  /\ hphase = "cbw" /\ rx.armed
  /\ hphase' = CASE hcmd.op = "read" -> "datain"
                 [] hcmd.op = "write" -> "dataout"
                 [] OTHER -> "csw"
  /\ IF rx.dst = Cbw
     THEN /\ DataOut(TRUE, [cmd |-> hcmd, tag |-> htag, ok |-> TRUE])
          /\ UNCHANGED buf
     ELSE /\ DataOut(rx.got = 0, cbw)
          /\ buf' = [buf EXCEPT ![rx.dst][rx.got] = Junk]
  /\ UNCHANGED <<hcmd, htag, hsent, hrecv, hcsw, taskVars, card>>

(* One block of the data stage of a WRITE.  Full-size packets only end the *)
(* transfer when the armed size is reached; in the CBW buffer they are     *)
(* taken for a CBW of the wrong length.                                    *)
OutBlock ==
  /\ hphase = "dataout" /\ rx.armed
  /\ hsent' = hsent + 1
  /\ hphase' = IF hsent + 1 = hcmd.n THEN "csw" ELSE "dataout"
  /\ IF rx.dst = Cbw
     THEN /\ DataOut(FALSE, [cbw EXCEPT !.ok = FALSE])
          /\ UNCHANGED buf
     ELSE /\ buf' = [buf EXCEPT ![rx.dst][rx.got] = hcmd.data[hsent + 1]]
          /\ IF rx.got + 1 >= rx.size
             THEN DataOut(FALSE, cbw)
             ELSE /\ rx' = [rx EXCEPT !.got = @ + 1]
                  /\ UNCHANGED <<hmscVars, pipeVars, tx, inStall>>
  /\ UNCHANGED <<hcmd, htag, hrecv, hcsw, taskVars, card>>

(* The four statements after USBD_LL_Transmit run before the transfer it   *)
(* started is over: eight bulk packets (0.4 ms of full-speed bus) against  *)
(* some microseconds, preempted by the mouse task at most.                 *)
TaskKeptUp == pc # "sent"

(* One block of the data stage of a READ.                                  *)
InBlock ==
  /\ hphase = "datain" /\ tx.size > 0
  /\ tx.sent + 1 = tx.size => TaskKeptUp
  /\ hrecv' = Append(hrecv, buf[tx.buf][tx.sent])
  /\ hphase' = IF Len(hrecv) + 1 = hcmd.n THEN "csw" ELSE "datain"
  /\ IF tx.sent + 1 = tx.size
     THEN DataIn
     ELSE /\ tx' = [tx EXCEPT !.sent = @ + 1]
          /\ UNCHANGED <<hmscVars, pipeVars, rx, inStall>>

(* Data where the host does not expect it: an empty packet ends the data   *)
(* stage, or stands where the status should be; a full packet there is     *)
(* never acknowledged.                                                     *)
InStray ==
  /\ hphase = "csw" \/ tx.size = 0
  /\ hphase' = IF hphase = "datain" THEN "csw" ELSE "confused"
  /\ IF tx.size = 0
     THEN TaskKeptUp /\ DataIn
     ELSE UNCHANGED <<hmscVars, pipeVars, rx, tx, inStall>>
  /\ UNCHANGED hrecv

InData ==
  /\ hphase \in {"datain", "csw"} /\ tx.kind = "data" /\ ~inStall
  /\ InBlock \/ InStray
  /\ UNCHANGED <<hcmd, htag, hsent, hcsw, taskVars, buf, card>>

(* The CSW; the host also recognises one that cuts a data stage short.     *)
InCsw ==
  /\ hphase \in {"datain", "csw"} /\ tx.kind = "csw" /\ ~inStall
  /\ IF tx.tag = htag
     THEN hphase' = "idle" /\ hcsw' = tx.status
     ELSE hphase' = "confused" /\ UNCHANGED hcsw
  /\ DataIn
  /\ UNCHANGED <<hcmd, htag, hsent, hrecv, taskVars, buf, card>>

(* Nothing is left that the device, the task or the wire could still do.   *)
Quiet ==
  /\ pc = "wait" /\ q = <<>>
  /\ ~(rx.armed /\ hphase \in {"cbw", "dataout"})
  /\ tx.kind = "none" \/ inStall \/ hphase \in {"confused", "dataout"}

(* Bulk-Only Mass Storage Reset: MSC_BOT_Reset re-arms EP OUT for a CBW.   *)
(* The variant leaves the endpoint as the abandoned transfer had it.       *)
ResetKeepsOut == UNCHANGED rx
ResetEndpoint == rx' = ArmCbw

HostReset ==
  /\ hphase \notin {"idle", "off"}
  /\ ResetPolicy # "none" /\ (ResetPolicy \in {"quiet", "bus"} => Quiet)
  /\ hphase' = "idle" /\ hcsw' = "reset"
  /\ botState' = "IDLE"
  /\ q' = <<>>
  /\ ResetEndpoint
  /\ UNCHANGED <<hcmd, htag, hsent, hrecv, cbw, cswTag, residue, blkAddr, blkLen, sIdx,
                 rdPend, rdBuf, rdFailed, taskVars, tx, inStall, buf, card>>

(* A bus reset while a command runs: the endpoints are closed and          *)
(* MSC_BOT_DeInit sets the state back.  The task and its queue are left to *)
(* themselves; what the task arms or sends now, no host sees.              *)
BusReset ==
  /\ hphase \notin {"idle", "off"} /\ ResetPolicy = "bus"
  /\ hphase' = "off"
  /\ botState' = "IDLE"
  /\ rx' = Disarmed(rx) /\ tx' = NoTx /\ inStall' = FALSE
  /\ UNCHANGED <<hcmd, htag, hsent, hrecv, hcsw, cbw, cswTag, residue, blkAddr, blkLen,
                 pipeVars, taskVars, buf, card>>

(* SET_CONFIGURATION: the endpoints are opened and MSC_BOT_Init arms one   *)
(* for a CBW.  It drains no queue.  The variant leaves the endpoints as     *)
(* the task has them.                                                      *)
InitKeepsEndpoints == UNCHANGED epVars
InitEndpoints == rx' = ArmCbw /\ tx' = NoTx /\ inStall' = FALSE

HostConfigure ==
  /\ hphase = "off" /\ pc = "wait" /\ q = <<>>
  /\ hphase' = "idle" /\ hcsw' = "reset"
  /\ botState' = "IDLE"
  /\ InitEndpoints
  /\ UNCHANGED <<hcmd, htag, hsent, hrecv, cbw, cswTag, residue, blkAddr, blkLen, pipeVars,
                 taskVars, buf, card>>

-----------------------------------------------------------------------------
(* The scsi_msc task                                                       *)

TaskRecv ==
  /\ pc = "wait" /\ q # <<>>
  /\ q' = Tail(q)
  /\ cur' = Head(q).buf
  /\ cnt' = Chunk(blkLen)
  /\ pc' = IF Head(q).op = "write" THEN "writeArm" ELSE "readTake"
  /\ UNCHANGED <<hostVars, hmscVars, sIdx, rdPend, rdBuf, rdFailed, addr, done, epVars,
                 buf, card>>

(* The next OUT is armed before the blocking write, when there is a next.  *)
(* The variant arms one after the last chunk too.                          *)
MoreAlways == cnt <= blkLen
MoreToCome == cnt < blkLen

TaskWriteArm ==
  /\ pc = "writeArm"
  /\ IF MoreToCome
     THEN sIdx' = NextBuf(cur) /\ rx' = Arm(NextBuf(cur), cnt)
     ELSE UNCHANGED <<sIdx, rx>>
  /\ addr' = blkAddr /\ done' = 0
  /\ pc' = "writing"
  /\ UNCHANGED <<hostVars, hmscVars, q, rdPend, rdBuf, rdFailed, cur, cnt, tx, inStall,
                 buf, card>>

TaskWriteBlock ==
  /\ pc = "writing" /\ done < cnt /\ addr + done < NumBlocks
  /\ card' = [card EXCEPT ![addr + done] = buf[cur][done]]
  /\ done' = done + 1
  /\ UNCHANGED <<hostVars, hmscVars, pipeVars, pc, cur, cnt, addr, epVars, buf>>

TaskWriteFail ==
  /\ pc = "writing" /\ done < cnt
  /\ \/ WriteFailures = "any"
     \/ WriteFailures = "last" /\ cnt = blkLen
     \/ addr + done >= NumBlocks
  /\ Refuse
  /\ pc' = "wait"
  /\ UNCHANGED <<hostVars, cbw, cswTag, residue, blkAddr, blkLen, pipeVars, cur, cnt, addr,
                 done, buf, card>>

TaskWriteDone ==
  /\ pc = "writing" /\ done = cnt
  /\ blkAddr' = blkAddr + cnt
  /\ blkLen' = Minus(blkLen, cnt)
  /\ residue' = Minus(residue, cnt)
  /\ IF blkLen' = 0
     THEN SendCSW(tx, "passed", cswTag, residue')
     ELSE UNCHANGED <<botState, epVars>>
  /\ pc' = "wait"
  /\ UNCHANGED <<hostVars, cbw, cswTag, pipeVars, cur, cnt, addr, done, buf, card>>

(* A READ item: report a failed read-ahead, send the block read ahead, or  *)
(* read the first one.                                                     *)
TaskReadTake ==
  /\ pc = "readTake"
  /\ \/ /\ rdFailed
        /\ rdFailed' = FALSE
        /\ Refuse
        /\ pc' = "wait"
        /\ UNCHANGED <<rdPend, cur, addr, done>>
     \/ /\ ~rdFailed /\ rdPend
        /\ cur' = rdBuf /\ rdPend' = FALSE
        /\ pc' = "send"
        /\ UNCHANGED <<rdFailed, botState, epVars, addr, done>>
     \/ /\ ~rdFailed /\ ~rdPend
        /\ addr' = blkAddr /\ done' = 0
        /\ pc' = "reading"
        /\ UNCHANGED <<rdFailed, rdPend, botState, epVars, cur>>
  /\ UNCHANGED <<hostVars, cbw, cswTag, residue, blkAddr, blkLen, sIdx, q, rdBuf, cnt, buf,
                 card>>

TaskReadBlock ==
  /\ pc \in {"reading", "prefetch"} /\ done < cnt /\ addr + done < NumBlocks
  /\ buf' = [buf EXCEPT ![cur][done] = card[addr + done]]
  /\ done' = done + 1
  /\ UNCHANGED <<hostVars, hmscVars, pipeVars, pc, cur, cnt, addr, epVars, card>>

(* A failed read-ahead waits for the block on the wire.  The variant       *)
(* answers at once.                                                        *)
ReadAheadRefused == Refuse /\ UNCHANGED rdFailed
ReadAheadFailed == rdFailed' = TRUE /\ UNCHANGED <<botState, epVars>>

TaskReadFail ==
  /\ pc \in {"reading", "prefetch"} /\ done < cnt
  /\ ReadMayFail \/ addr + done >= NumBlocks
  /\ IF pc = "reading"
     THEN Refuse /\ UNCHANGED rdFailed
     ELSE ReadAheadFailed
  /\ pc' = "wait"
  /\ UNCHANGED <<hostVars, cbw, cswTag, residue, blkAddr, blkLen, sIdx, q, rdPend, rdBuf,
                 cur, cnt, addr, done, buf, card>>

TaskReadDone ==
  /\ pc \in {"reading", "prefetch"} /\ done = cnt
  /\ IF pc = "reading"
     THEN pc' = "send" /\ UNCHANGED <<rdPend, rdBuf>>
     ELSE pc' = "wait" /\ rdPend' = TRUE /\ rdBuf' = cur
  /\ UNCHANGED <<hostVars, hmscVars, sIdx, q, rdFailed, cur, cnt, addr, done, epVars, buf,
                 card>>

TaskSend ==
  /\ pc = "send"
  /\ Transmit(tx, DataTx(cur, cnt))
  /\ pc' = "sent"
  /\ UNCHANGED <<hostVars, hmscVars, pipeVars, cur, cnt, addr, done, rx, buf, card>>

(* Everything after USBD_LL_Transmit up to the read-ahead.                 *)
TaskSent ==
  /\ pc = "sent"
  /\ blkAddr' = blkAddr + cnt
  /\ blkLen' = Minus(blkLen, cnt)
  /\ residue' = Minus(residue, cnt)
  /\ IF blkLen' = 0
     THEN /\ botState' = "LAST_DATA_IN"
          /\ pc' = "wait"
          /\ UNCHANGED <<cur, cnt, addr, done>>
     ELSE /\ pc' = "prefetch"
          /\ cur' = NextBuf(cur)
          /\ cnt' = Chunk(blkLen')
          /\ addr' = blkAddr' /\ done' = 0
          /\ UNCHANGED botState
  /\ UNCHANGED <<hostVars, cbw, cswTag, pipeVars, epVars, buf, card>>

-----------------------------------------------------------------------------
(* MSC_BOT_Init at SET_CONFIGURATION: idle, the OUT endpoint armed for the *)
(* first CBW; the buffers come from the heap unfilled.                     *)
Init ==
  /\ hphase = "idle" /\ hcmd \in Commands /\ htag = 0 /\ hsent = 0 /\ hrecv = <<>>
  /\ hcsw = "none"
  /\ botState = "IDLE" /\ cbw = [cmd |-> hcmd, tag |-> 0, ok |-> FALSE]
  /\ cswTag = 0 /\ residue = 0 /\ blkAddr = 0 /\ blkLen = 0
  /\ sIdx = 0 /\ q = <<>> /\ rdPend = FALSE /\ rdBuf = 0 /\ rdFailed = FALSE
  /\ pc = "wait" /\ cur = 0 /\ cnt = 0 /\ addr = 0 /\ done = 0
  /\ rx = ArmCbw /\ tx = NoTx /\ inStall = FALSE
  /\ buf = [b \in 0 .. 1 |-> [i \in 0 .. Stream - 1 |-> Junk]]
  /\ card \in [Blocks -> Data]

Wire == OutCbw \/ OutBlock \/ InData \/ InCsw

Task ==
  \/ TaskRecv
  \/ TaskWriteArm \/ TaskWriteBlock \/ TaskWriteFail \/ TaskWriteDone
  \/ TaskReadTake \/ TaskReadBlock \/ TaskReadFail \/ TaskReadDone
  \/ TaskSend \/ TaskSent

Next == HostIssue \/ Wire \/ Task \/ HostReset \/ BusReset \/ HostConfigure

Spec == Init /\ [][Next]_vars

(* The task is scheduled above the logging and idle tasks and is never     *)
(* starved by the 1 ms mouse task; a host polls its endpoints; it resets   *)
(* a device that has stopped answering.                                    *)
Fairness == WF_vars(Task) /\ WF_vars(Wire) /\ WF_vars(HostReset)

FairSpec == Spec /\ Fairness

-----------------------------------------------------------------------------
(* Properties                                                              *)

BufIds == 0 .. 1
Cells == 0 .. Stream - 1

HostTypes ==
  /\ hphase \in {"idle", "cbw", "dataout", "datain", "csw", "confused", "off"}
  /\ hcmd \in Commands /\ htag \in Tags /\ hsent \in 0 .. NumBlocks
  /\ hrecv \in Seq(Cell) /\ hcsw \in {"none", "passed", "failed", "reset"}
  /\ hphase = "cbw" => hsent = 0 /\ hrecv = <<>>
  /\ (hphase = "cbw" /\ hcmd.op = "write") \/ hphase = "dataout" => hsent < hcmd.n
  /\ hphase = "dataout" => hcmd.op = "write"
HmscTypes ==
  /\ botState \in {"IDLE", "DATA_OUT", "DATA_IN", "LAST_DATA_IN"}
  /\ cbw \in [cmd : Commands, tag : Tags, ok : BOOLEAN] /\ cswTag \in Tags
  /\ residue \in 0 .. LenMod - 1 /\ blkLen \in 0 .. LenMod - 1 /\ blkAddr \in Nat
SigItems == [op : {"read", "write"}, buf : BufIds]
PipeTypes ==
  /\ q \in Seq(SigItems) /\ Len(q) <= QDepth
  /\ sIdx \in BufIds /\ rdPend \in BOOLEAN /\ rdBuf \in BufIds /\ rdFailed \in BOOLEAN
TaskTypes ==
  /\ pc \in {"wait", "writeArm", "writing", "readTake", "reading", "prefetch", "send", "sent"}
  /\ cur \in BufIds /\ cnt \in 0 .. Stream /\ addr \in Nat /\ done \in 0 .. Stream
RxOK(r) ==
  /\ r \in [armed : BOOLEAN, dst : BufIds \cup {Cbw}, size : 0 .. Stream, got : Nat]
  /\ r.dst # Cbw /\ r.armed => r.got = 0 \/ r.got < r.size
TxOK(t) ==
  /\ t \in [kind : {"none", "data", "csw"}, buf : BufIds, size : 0 .. Stream, sent : Nat,
            status : {"none", "passed", "failed"}, tag : Tags, residue : 0 .. LenMod - 1]
  /\ t.kind = "data" /\ t.size > 0 => t.sent < t.size
EndpointTypes == RxOK(rx) /\ TxOK(tx) /\ inStall \in BOOLEAN
MemoryTypes ==
  /\ buf \in [BufIds -> [Cells -> Cell]] /\ card \in [Blocks -> Cell]

(* Every variable keeps to its type, and no index leaves its buffer, with  *)
(* whatever card failures and resets the environment produces.             *)
TypeOK ==
  HostTypes /\ HmscTypes /\ PipeTypes /\ TaskTypes /\ EndpointTypes /\ MemoryTypes

(* At any time one thing drives the transfer forward: a queued item, an    *)
(* armed data buffer, or a data block on the wire.  This is what keeps the *)
(* queue from overflowing ("Queue occupancy can never exceed 1").          *)
DataArmed == rx.armed /\ rx.dst # Cbw
DataOnWire == tx.kind = "data"
SingleToken ==
  /\ Len(q) <= 1
  /\ q # <<>> => ~DataArmed /\ ~DataOnWire
  /\ ~(DataArmed /\ DataOnWire)

(* The shapes a transfer goes through.  Between commands and before the    *)
(* CBW everything rests; at the end a CSW for the current tag is out.      *)
Resting ==
  /\ hphase \in {"idle", "cbw"}
  /\ pc = "wait" /\ q = <<>> /\ rx = ArmCbw /\ tx = NoTx /\ botState = "IDLE"

Answering ==
  /\ hphase \in {"datain", "csw"}
  /\ pc = "wait" /\ q = <<>> /\ rx = ArmCbw /\ botState = "IDLE"
  /\ tx.kind = "csw" /\ tx.tag = htag

(* A WRITE with blkLen blocks not yet stored: a buffer is being filled,    *)
(* queued, or written, and in the last case the other one may be filled or *)
(* queued at the same time.                                                *)
QueuedWrite == q = <<[op |-> "write", buf |-> sIdx]>> /\ ~rx.armed
Filling == q = <<>> /\ rx.armed /\ rx.dst = sIdx
Holding == q = <<>> /\ ~rx.armed

Storing ==
  /\ hcmd.op = "write" /\ hphase = (IF hsent = hcmd.n THEN "csw" ELSE "dataout")
  /\ botState = "DATA_OUT" /\ cswTag = htag /\ tx = NoTx
  /\ hsent <= hcmd.n /\ blkLen \in 1 .. hcmd.n /\ blkAddr + blkLen = hcmd.lba + hcmd.n
  /\ pc \in {"writeArm", "writing"} => cnt = Chunk(blkLen)
  /\ pc = "writing" => addr = blkAddr /\ done <= cnt
  /\ \/ /\ pc = "wait" /\ Filling
        /\ rx.size >= Chunk(blkLen) /\ hsent = hcmd.n - blkLen + rx.got
     \/ /\ pc = "wait" /\ QueuedWrite
        /\ hsent = hcmd.n - blkLen + Chunk(blkLen)
     \/ /\ pc = "writeArm" /\ Holding /\ cur = sIdx
        /\ hsent = hcmd.n - blkLen + cnt
     \/ /\ pc = "writing" /\ cnt = blkLen /\ Holding /\ hsent = hcmd.n
     \/ /\ pc = "writing" /\ cnt < blkLen /\ Filling /\ sIdx = 1 - cur
        /\ rx.size = Stream /\ hsent = hcmd.n - blkLen + cnt + rx.got
     \/ /\ pc = "writing" /\ cnt < blkLen /\ QueuedWrite /\ sIdx = 1 - cur
        /\ hsent = hcmd.n - blkLen + cnt + Stream

(* A READ with blkLen blocks not yet handed to the wire: the task is about *)
(* to send, has sent, or reads ahead or waits while the wire is busy or    *)
(* its completion is queued; finally the last chunk is on the wire.        *)
OnWire(left) == q = <<>> /\ tx.kind = "data" /\ Len(hrecv) = hcmd.n - left + tx.sent
WireFree == tx = NoTx /\ Len(hrecv) = hcmd.n - blkLen

Fetching ==
  /\ hcmd.op = "read" /\ hphase = "datain"
  /\ cswTag = htag /\ ~rx.armed
  /\ blkLen \in 0 .. hcmd.n /\ blkAddr + blkLen = hcmd.lba + hcmd.n
  /\ tx.kind = "data" => tx.size > 0
  /\ pc \notin {"wait", "writeArm", "writing"} => cnt = Chunk(blkLen)
  /\ pc \in {"reading", "prefetch"} => addr = blkAddr /\ done <= cnt
  /\ \/ /\ blkLen > 0 /\ botState = "DATA_IN"
        /\ \/ pc \in {"readTake", "reading", "send"} /\ q = <<>> /\ WireFree
           \/ pc = "sent" /\ OnWire(blkLen) /\ tx.buf = cur /\ tx.size = cnt
           \/ /\ pc \in {"prefetch", "wait"}
              /\ \/ OnWire(blkLen + tx.size) /\ (pc = "prefetch" => tx.buf = 1 - cur)
                 \/ Len(q) = 1 /\ q[1].op = "read" /\ WireFree
     \/ /\ blkLen = 0 /\ botState = "LAST_DATA_IN" /\ pc = "wait"
        /\ OnWire(tx.size)

(* After a bus reset the task runs to the end of what it was doing: it     *)
(* stores what is in its hands and in its queue, or sends what it has      *)
(* read, and what it arms or sends on the way stays as it is.              *)
AtRest == pc = "wait" /\ q = <<>>

StoringAlone ==
  /\ hcmd.op = "write" /\ tx = NoTx
  /\ hsent <= hcmd.n /\ blkLen \in 1 .. hcmd.n /\ blkAddr + blkLen = hcmd.lba + hcmd.n
  /\ pc \in {"writeArm", "writing"} => cnt = Chunk(blkLen)
  /\ pc = "writing" => addr = blkAddr /\ done <= cnt
  /\ \/ pc = "wait" /\ QueuedWrite /\ hsent = hcmd.n - blkLen + Chunk(blkLen)
     \/ pc = "writeArm" /\ Holding /\ cur = sIdx /\ hsent = hcmd.n - blkLen + cnt
     \/ pc = "writing" /\ cnt = blkLen /\ Holding
     \/ /\ pc = "writing" /\ cnt < blkLen /\ sIdx = 1 - cur
        /\ q = <<>> /\ (rx.armed => rx.dst = sIdx)
     \/ /\ pc = "writing" /\ cnt < blkLen /\ sIdx = 1 - cur
        /\ QueuedWrite /\ hsent = hcmd.n - blkLen + cnt + Stream

FetchingAlone ==
  /\ hcmd.op = "read" /\ ~rx.armed /\ blkLen \in 1 .. hcmd.n
  /\ pc # "wait" => cnt = Chunk(blkLen)
  /\ \/ pc \in {"readTake", "reading", "send"} /\ q = <<>> /\ tx = NoTx
     \/ pc = "sent" /\ q = <<>> /\ (tx # NoTx => tx.kind = "data" /\ tx.buf = cur)
     \/ pc = "prefetch" /\ q = <<>> /\ (tx # NoTx => tx.kind = "data" /\ tx.buf = 1 - cur)
     \/ pc \in {"prefetch", "wait"} /\ Len(q) = 1 /\ q[1].op = "read" /\ tx = NoTx

Unwinding ==
  /\ hphase = "off" /\ ~inStall
  /\ DataOnWire => hcmd.op = "read"
  /\ DataArmed => hcmd.op = "write"
  /\ AtRest \/ StoringAlone \/ FetchingAlone

(* Faults are contained when the card refuses no block write but those of  *)
(* a last chunk, and the host resets only a device that has stopped, or    *)
(* the bus, and then configures it when the task has come to rest.         *)
ContainedFaults ==
  WriteFailures \in {"never", "last"} /\ ResetPolicy \in {"none", "quiet", "bus"}

(* One shape at a time, and EP IN not stalled.                             *)
ShapeOK == ~inStall /\ (Resting \/ Answering \/ Storing \/ Fetching)

(* Unless a write before the last chunk is refused or the host resets in   *)
(* the middle of things, a device is always in one of these shapes: what   *)
(* it believes is left of a transfer agrees with what the host has sent or *)
(* received, block for block; and after a bus reset the task only ends     *)
(* what it had begun, with the buffers it had.                             *)
TransferShape == ShapeOK \/ Unwinding

(* No s_buf is used by two parties at once: by the USB peripheral, by the  *)
(* task's SD access or the send it prepares, and by a queued WRITE item.   *)
WireBufs ==
  {b \in BufIds : (rx.armed /\ rx.dst = b) \/ (tx.kind = "data" /\ tx.buf = b)}
TaskBufs ==
  {b \in BufIds : pc \in {"writeArm", "writing", "reading", "prefetch", "send"} /\ cur = b}
QueueBufs == {b \in BufIds : \E i \in DOMAIN q : q[i].op = "write" /\ q[i].buf = b}
BufferOwnership ==
  /\ WireBufs \cap TaskBufs = {}
  /\ WireBufs \cap QueueBufs = {}
  /\ TaskBufs \cap QueueBufs = {}

(* Whenever the task hands the IN endpoint a block or a CSW the endpoint   *)
(* is free: PMA_DB_Transmit would answer HAL_BUSY to a second transfer,    *)
(* nobody looks at that answer, and the block or the status would be lost. *)
InEndpointFree ==
  \/ pc \in {"send", "reading", "writing"}
  \/ pc = "readTake" /\ rdFailed
  => tx.kind = "none"

(* The host never finds data where the status belongs, nor a status with   *)
(* another command's tag.  TransferShape implies it.                       *)
HostNotConfused == hphase # "confused"

(* A data buffer is never armed for more blocks than the host has left to  *)
(* send (with transfers of an even number of blocks): a full-size packet   *)
(* ends the transfer only when the armed length is reached, so the device  *)
(* would wait for ever, with the last blocks of the WRITE in its buffer.   *)
ArmedForWhatComes ==
  rx.armed /\ rx.dst # Cbw => rx.size - rx.got <= hcmd.n - hsent

(* Between two commands nothing of the last one survives, whether it was   *)
(* answered, refused or reset: no queued item, no armed data buffer, no    *)
(* block or status on the wire, the task blocked, EP OUT waiting for the   *)
(* next CBW.                                                               *)
NothingLeftOver ==
  hphase = "idle" =>
    pc = "wait" /\ q = <<>> /\ rx = ArmCbw /\ tx.kind = "none" /\ botState = "IDLE"

(* The status is honest also in its residue: a READ's CSW counts exactly   *)
(* the blocks the host did not get, a WRITE's CSW at least the blocks that *)
(* are not on the card, and "passed" leaves none.                          *)
ResidueHonest ==
  tx.kind = "csw" /\ hphase # "off" =>
    /\ tx.status = "passed" => tx.residue = 0
    /\ hcmd.op = "read" => tx.residue = hcmd.n - Len(hrecv)
    /\ hcmd.op = "write" =>
         \A i \in 1 .. hcmd.n - tx.residue : card[hcmd.lba + i - 1] = hcmd.data[i]

(* The only transfers that come to a standstill, so that the host has to   *)
(* reset the device, are WRITEs of several chunks with an odd last one.    *)
OnlyOddTailsHang ==
  Quiet /\ hphase \notin {"idle", "off"} =>
    hcmd.op = "write" /\ hcmd.n > Stream /\ hcmd.n % Stream # 0

(* The statements the comments in usbd_msc_scsi.c make of an aborted       *)
(* transfer: the CSW "re-arms [EP OUT] for the next CBW", and what a reset *)
(* abandoned "must not survive": with nothing pending the task "stays      *)
(* blocked and cannot act" on it.                                          *)
CswRearmsForCbw ==
  hphase = "idle" /\ pc = "wait" /\ q = <<>> => rx.armed /\ rx.dst = Cbw
AbandonedStaysAbandoned ==
  [][hphase = "idle" /\ hcsw = "reset" => UNCHANGED <<rx, tx, q>>]_vars

(* The steps of the task for the chunk it is at, and all the steps a       *)
(* command can still take: for each block the task's and the wire's, and   *)
(* for the status one.                                                     *)
StepsInChunk ==
  CASE pc = "wait" -> IF hcmd.op = "read" /\ (rdPend \/ rdFailed) THEN 4 ELSE Stream + 5
    [] pc = "readTake" -> IF rdPend \/ rdFailed THEN 3 ELSE Stream + 4
    [] pc = "writeArm" -> Stream + 4
    [] pc = "prefetch" -> Stream + 5 - done
    [] pc \in {"reading", "writing"} -> Stream + 3 - done
    [] pc = "send" -> 2
    [] pc = "sent" -> 1

StepsPerBlock == Stream + 6
Unmoved == hcmd.n - (IF hcmd.op = "read" THEN Len(hrecv) ELSE hsent)

StepsLeft ==
  CASE hphase \in {"idle", "confused"} -> 0
    [] hphase = "off" -> IF AtRest THEN 0 ELSE 1 + StepsPerBlock * blkLen + StepsInChunk
    [] hphase = "cbw" -> 2 + StepsPerBlock * (hcmd.n + 1) + hcmd.n
    [] hphase \in {"dataout", "datain", "csw"} ->
         IF botState = "IDLE" THEN 1 ELSE 2 + StepsPerBlock * blkLen + StepsInChunk + Unmoved

(* Nothing goes round in circles: whatever the task, the interrupt and the *)
(* wire do brings the command nearer to its end, also when the card        *)
(* refuses a block, and after a bus reset brings the task nearer to rest.  *)
(* So a command takes at most as many steps as StepsLeft is at its CBW.    *)
Progress == [][Wire \/ Task => StepsLeft' \in 0 .. StepsLeft - 1]_vars

(* Every command is answered: no lost completion and no lost re-arm leaves *)
(* the host polling a device that will not say anything any more.          *)
Answered == hphase = "cbw" ~> hphase = "idle"

(* The pipeline implements the block device: a READ's blocks come in order *)
(* from the card, a WRITE's go to their own addresses and nowhere else,    *)
(* and a "passed" status follows the whole transfer.                       *)
BD == INSTANCE BlockDevice
        WITH disk <- card, req <- hcmd, got <- hrecv,
             status <- IF hphase = "idle" THEN hcsw ELSE "busy"
ImplementsBlockDevice == BD!Spec
=============================================================================

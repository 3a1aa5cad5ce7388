---------------------------- MODULE ScsiCommands ----------------------------
(***************************************************************************)
(* The command level of the flash drive: the SCSI handlers and the sense   *)
(* ring (usbd_msc_scsi.c), the answers, statuses, stalls and resets of the *)
(* Bulk-Only layer (usbd_msc_bot.c), and a host that sends any command     *)
(* after any other and resets a device that has stopped.                   *)
(*                                                                         *)
(* Lengths are in bytes.  The data stage of an accepted READ or WRITE is   *)
(* one step of the pipeline here, all blocks or none, as MscPipeline shows *)
(* it to be for one chunk.  sd_storage_is_ready and                        *)
(* sd_storage_is_write_protected answer "yes" and "no" for ever, so the    *)
(* branches on them do not appear.                                         *)
(***************************************************************************)
EXTENDS Integers, Sequences

CONSTANTS
  Depth,        \* SENSE_LIST_DEEPTH
  Wrap,         \* stands for 2^32
  BlkSize,      \* bytes of a block; also MSC_MEDIA_PACKET, sizeof(bot_data)
  Packet,       \* bytes of a bulk packet
  Capacity,     \* blocks on the card
  SpillEntries, \* sense entries behind hmsc->cbw and hmsc->csw that a full
                \* packet received into hmsc->cbw reaches
  Commands      \* commands the host may send

CswLen == 13
InquiryLen == 36
Page00Len == 7
SenseLen == 18

Ops == {"testUnitReady", "startStop", "inquiry", "inquiryPage00", "readCapacity",
        "readFormatCapacity", "modeSense", "requestSense", "verify", "verifyBytes",
        "read", "write", "unsupported"}
AnswerKinds == Ops \cup {"zeroed"}

ASSUME SizesAssumption ==
  /\ Depth \in Nat /\ Depth > 1
  /\ BlkSize \in Nat /\ Packet \in Nat /\ InquiryLen < Packet /\ Packet <= BlkSize
  /\ Capacity \in Nat \ {0} /\ Wrap \in Nat /\ Wrap > Capacity /\ Wrap > 2 * BlkSize
  /\ SpillEntries \in 0 .. Depth

(* want is dCBWDataTransferLength and dir the direction it goes; alloc is  *)
(* CB[4], lba and n are what READ and WRITE take from the CDB.             *)
NoDataOps == {"testUnitReady", "startStop", "verify", "verifyBytes"}
TransferOps == {"read", "write", "unsupported"}
CommandShape ==
  [op : Ops, dir : {"in", "out"}, want : 0 .. Wrap - 1, alloc : Nat, lba : 0 .. Wrap - 1,
   n : {0, 1}]

ASSUME CommandsAssumption ==
  \A c \in Commands :
    /\ c \in CommandShape
    /\ c.op \in NoDataOps => c.want = 0
    /\ c.op \notin NoDataOps \cup TransferOps => c.dir = "in" /\ c.want > 0 /\ c.alloc > 0

VARIABLES
  (* the host *)
  hphase,    \* "idle", "dataout", "datain", "csw" or "confused"
  hcmd,      \* the command it is running
  hsent,     \* bytes of its data stage sent so far
  hgot,      \* bytes of its data stage received so far
  (* hmsc *)
  botState, botStatus,
  dataLen,   \* bot_data_length
  botData,   \* the answer bot_data holds: of which command, which key
  residue, blkNbr, blkAddr, blkLen,
  sense, head, tail,
  capOk,     \* s_cap_ok: the capacity was read once
  pipe,      \* the item the scsi_msc task has: "none", "read" or "write"
  out,       \* EP OUT: "none", armed for "cbw" or "data", or "stall"
  tx,        \* what EP IN sends
  inStall,   \* STAT_TX = STALL
  (* history *)
  unread,    \* keys raised and not reported yet
  raised,    \* the command being run has raised a sense
  spilled    \* a data packet was received into hmsc->cbw

hostVars == <<hphase, hcmd, hsent, hgot>>
blkVars == <<blkNbr, blkAddr, blkLen>>
senseVars == <<sense, head, tail, unread, raised, spilled>>
answerVars == <<dataLen, botData>>
vars == <<hostVars, botState, botStatus, answerVars, residue, blkVars, senseVars, capOk,
          pipe, out, tx, inStall>>

-----------------------------------------------------------------------------
Least(a, b) == IF a <= b THEN a ELSE b
Minus(a, b) == IF b <= a THEN a - b ELSE a - b + Wrap
Plus(a, b) == IF a + b < Wrap THEN a + b ELSE a + b - Wrap

NoCommand == [op |-> "none", dir |-> "in", want |-> 0, alloc |-> 0, lba |-> 0, n |-> 0]

NoKey == "NO_SENSE"
Junk == "junk"
Keys == {"NOT_READY", "ILLEGAL_REQUEST", "HARDWARE_ERROR"}

NoTx == [kind |-> "none", size |-> 0, status |-> "none", residue |-> 0,
         data |-> [op |-> "zeroed", key |-> NoKey]]
DataTx(n, d) == [NoTx EXCEPT !.kind = "data", !.size = n, !.data = d]
CswTx(st, res) == [NoTx EXCEPT !.kind = "csw", !.status = st, !.residue = res]

(* PMA_DB_Transmit: HAL_BUSY, which nobody looks at, while a transfer is   *)
(* under way; else the endpoint goes VALID.  t is the endpoint at the call.*)
Transmit(t, new) ==
  /\ tx' = IF t.kind = "none" THEN new ELSE t
  /\ inStall' = (inStall /\ t.kind # "none")

(* MSC_BOT_SendCSW.                                                        *)
SendCSW(t, st, res) ==
  /\ botState' = "IDLE"
  /\ Transmit(t, CswTx(st, res))
  /\ out' = "cbw"

(* MSC_BOT_SendData: the length is cut to what the host asked for, the     *)
(* residue counts the whole answer.  The variant leaves the residue alone. *)
SendDataKeepsResidue(want, n, d) ==
  /\ residue' = want
  /\ botState' = "SEND_DATA"
  /\ Transmit(tx, DataTx(Least(want, n), d))
  /\ out' = "none"
SendData(want, n, d) ==
  /\ residue' = Minus(want, n)
  /\ botState' = "SEND_DATA"
  /\ Transmit(tx, DataTx(Least(want, n), d))
  /\ out' = "none"

-----------------------------------------------------------------------------
(* The sense ring                                                          *)

(* The index of the next entry; the variant wraps one entry too late.      *)
AdvanceLate(i) == IF i = Depth THEN 0 ELSE i + 1
Advance(i) == IF i + 1 = Depth THEN 0 ELSE i + 1

(* SCSI_SenseCode into the ring s.  The additional code is shifted out of  *)
(* its 8 bits (ASC << 8 into w.ASC), so that only the key is kept.  There  *)
(* is no test for a full ring: the entry that fills it makes it empty.     *)
Raise(s, key) ==
  /\ sense' = [s EXCEPT ![tail] = key]
  /\ tail' = Advance(tail)
  /\ raised' = TRUE
  /\ unread' = IF Len(unread) + 1 = Depth THEN <<>> ELSE Append(unread, key)
  /\ UNCHANGED head

-----------------------------------------------------------------------------
(* Answers                                                                 *)

(* The end of MSC_BOT_CBW_Decode for a command without a data stage of     *)
(* blocks: the answer in bot_data, or the status.                          *)
Reply(want, n, d) ==
  IF n > 0 THEN SendData(want, n, d)
  ELSE SendCSW(tx, "passed", want) /\ residue' = want

(* A handler that succeeds with n bytes d in bot_data.                     *)
Answer(want, n, d) ==
  /\ dataLen' = n /\ botData' = d
  /\ Reply(want, n, d)

(* A handler that refuses: SCSI_ProcessCmd drops its result, so what       *)
(* follows is the reply of a success, with the bot_data and the            *)
(* bot_data_length of an earlier command.                                  *)
Refuse(want, key) ==
  /\ Raise(sense, key)
  /\ UNCHANGED <<answerVars, spilled>>
  /\ Reply(want, dataLen, botData)

(* SCSI_TestUnitReady, SCSI_StartStopUnit, SCSI_Inquiry, SCSI_ModeSense6   *)
(* and SCSI_ModeSense10.  In the variant the first two leave the length of *)
(* the answer as it was.                                                   *)
NoData(c) == c.op \in {"testUnitReady", "startStop"}
FixedLen(c) ==
  CASE c.op = "inquiry" -> Least(c.alloc, InquiryLen)
    [] c.op = "inquiryPage00" -> Page00Len
    [] c.op = "modeSense" -> 8
    [] OTHER -> 0
FixedAnswerStale(c) ==
  /\ IF NoData(c)
     THEN UNCHANGED answerVars /\ Reply(c.want, dataLen, botData)
     ELSE Answer(c.want, FixedLen(c), [op |-> c.op, key |-> NoKey])
  /\ UNCHANGED <<senseVars, blkVars, capOk, pipe>>
FixedAnswer(c) ==
  /\ IF NoData(c)
     THEN Answer(c.want, 0, botData)
     ELSE Answer(c.want, FixedLen(c), [op |-> c.op, key |-> NoKey])
  /\ UNCHANGED <<senseVars, blkVars, capOk, pipe>>

(* SCSI_RequestSense takes the oldest entry; the variant leaves it there.  *)
RequestSensePeek(c) ==
  /\ Answer(c.want, Least(c.alloc, SenseLen),
            [op |-> c.op, key |-> IF head # tail THEN sense[head] ELSE NoKey])
  /\ unread' = IF head # tail THEN Tail(unread) ELSE unread
  /\ UNCHANGED <<head, sense, tail, raised, spilled, blkVars, capOk, pipe>>
RequestSense(c) ==
  /\ Answer(c.want, Least(c.alloc, SenseLen),
            [op |-> c.op, key |-> IF head # tail THEN sense[head] ELSE NoKey])
  /\ IF head # tail
     THEN head' = Advance(head) /\ unread' = Tail(unread)
     ELSE UNCHANGED <<head, unread>>
  /\ UNCHANGED <<sense, tail, raised, spilled, blkVars, capOk, pipe>>

(* sd_storage_get_capacity: once read, the capacity is remembered.         *)
CapacityKnown == capOk' = TRUE
CapacityFails == ~capOk /\ UNCHANGED capOk

ReadCapacity(c) ==
  \/ /\ CapacityKnown
     /\ blkNbr' = Capacity
     /\ Answer(c.want, 8, [op |-> c.op, key |-> NoKey])
     /\ UNCHANGED <<senseVars, blkAddr, blkLen, pipe>>
  \/ /\ CapacityFails
     /\ Refuse(c.want, "NOT_READY")
     /\ UNCHANGED <<blkVars, pipe>>

(* SCSI_ReadFormatCapacity has cleared bot_data when it is refused.        *)
ReadFormatCapacity(c) ==
  \/ /\ CapacityKnown
     /\ Answer(c.want, 12, [op |-> c.op, key |-> NoKey])
     /\ UNCHANGED <<senseVars, blkVars, pipe>>
  \/ /\ CapacityFails
     /\ Raise(sense, "NOT_READY")
     /\ botData' = NoTx.data
     /\ Reply(c.want, dataLen, NoTx.data)
     /\ UNCHANGED <<dataLen, spilled, blkVars, pipe>>

(* SCSI_CheckAddressRange: the sum has 32 bits.  The variant compares the  *)
(* first block alone.                                                      *)
FirstInRange(a, n) == a <= blkNbr
InRange(a, n) == Plus(a, n) <= blkNbr

(* SCSI_Verify10 checks the range an earlier command left behind, not the  *)
(* one in its own CDB.                                                     *)
Verify10(c) ==
  /\ IF c.op = "verifyBytes" \/ ~InRange(blkAddr, blkLen)
     THEN Refuse(c.want, "ILLEGAL_REQUEST")
     ELSE Answer(c.want, 0, botData) /\ UNCHANGED senseVars
  /\ UNCHANGED <<blkVars, capOk, pipe>>

-----------------------------------------------------------------------------
(* READ and WRITE                                                          *)

(* scsi_blk_size is 0 until a READ CAPACITY has set it.                    *)
Bytes(n) == IF blkNbr = 0 THEN 0 ELSE n * BlkSize

TakesAddress(c, dir) ==
  /\ IF c.dir = dir
     THEN blkAddr' = c.lba /\ blkLen' = c.n
     ELSE UNCHANGED <<blkAddr, blkLen>>
  /\ UNCHANGED blkNbr
RefusedAt(c) == Refuse(c.want, "ILLEGAL_REQUEST") /\ UNCHANGED pipe

(* SCSI_Read10 has set DATA_IN when it finds that the lengths differ: then *)
(* nothing at all is sent.                                                 *)
Read10(c) ==
  /\ TakesAddress(c, "in")
  /\ UNCHANGED capOk
  /\ \/ /\ c.dir # "in" \/ ~InRange(c.lba, c.n)
        /\ RefusedAt(c)
     \/ /\ c.dir = "in" /\ InRange(c.lba, c.n)
        /\ botState' = "DATA_IN"
        /\ residue' = c.want
        /\ out' = "none"
        /\ IF c.want # Bytes(c.n)
           THEN Raise(sense, "ILLEGAL_REQUEST") /\ UNCHANGED <<dataLen, spilled, pipe>>
           ELSE dataLen' = BlkSize /\ pipe' = "read" /\ UNCHANGED senseVars
        /\ UNCHANGED <<botData, tx, inStall>>

Write10(c) ==
  /\ TakesAddress(c, "out")
  /\ UNCHANGED capOk
  /\ \/ /\ c.dir # "out" \/ ~InRange(c.lba, c.n) \/ c.want # Bytes(c.n)
        /\ RefusedAt(c)
     \/ /\ c.dir = "out" /\ InRange(c.lba, c.n) /\ c.want = Bytes(c.n)
        /\ botState' = "DATA_OUT"
        /\ residue' = c.want
        /\ out' = "data"
        /\ UNCHANGED <<answerVars, senseVars, pipe, tx, inStall>>

-----------------------------------------------------------------------------
(* MSC_BOT_CBW_Decode                                                      *)

(* MSC_BOT_Abort.  A transfer on EP IN stays where it is, under the stall. *)
Abort(hasOut, status) ==
  /\ inStall' = TRUE
  /\ out' = IF status = "ERROR" THEN "cbw"
            ELSE IF hasOut /\ status = "NORMAL" THEN "stall" ELSE "none"

(* The default branch of SCSI_ProcessCmd, the only refusal whose result is *)
(* looked at: bot_state is IDLE, so the command is stalled, not failed.    *)
Unsupported(c) ==
  /\ Raise(sense, "ILLEGAL_REQUEST")
  /\ residue' = c.want
  /\ Abort(c.dir = "out" /\ c.want # 0, botStatus)
  /\ UNCHANGED <<botState, answerVars, spilled, blkVars, capOk, pipe, tx>>

CbwDecode(c) ==
  /\ \/ c.op \in {"testUnitReady", "startStop", "inquiry", "inquiryPage00", "modeSense"}
        /\ FixedAnswer(c)
     \/ c.op = "requestSense" /\ RequestSense(c)
     \/ c.op = "readCapacity" /\ ReadCapacity(c)
     \/ c.op = "readFormatCapacity" /\ ReadFormatCapacity(c)
     \/ c.op \in {"verify", "verifyBytes"} /\ Verify10(c)
     \/ c.op = "read" /\ Read10(c)
     \/ c.op = "write" /\ Write10(c)
     \/ c.op = "unsupported" /\ Unsupported(c)
  /\ UNCHANGED botStatus

(* A full packet of data instead of a CBW: usbd_pma_db.c copies all of it, *)
(* over cbw, csw and the first entries of the sense ring.  Whatever the    *)
(* residue becomes, the next CBW overwrites it.                            *)
Spill(s) == [i \in DOMAIN s |-> IF i < SpillEntries THEN Junk ELSE s[i]]
BadCbw ==
  /\ Raise(Spill(sense), "ILLEGAL_REQUEST")
  /\ spilled' = TRUE
  /\ botStatus' = "ERROR"
  /\ Abort(FALSE, "ERROR")
  /\ UNCHANGED <<botState, answerVars, residue, blkVars, capOk, pipe, tx>>

-----------------------------------------------------------------------------
(* The task                                                                *)

(* One READ item; the host reads on, and MSC_BOT_DataIn sends the status.  *)
TaskRead ==
  /\ pipe = "read"
  /\ pipe' = "none"
  /\ \/ /\ Raise(sense, "HARDWARE_ERROR")
        /\ SendCSW(tx, "failed", residue)
        /\ UNCHANGED <<residue, blkVars, spilled>>
     \/ /\ blkAddr + blkLen <= Capacity
        /\ Transmit(tx, DataTx(blkLen * BlkSize, [op |-> "read", key |-> NoKey]))
        /\ blkAddr' = blkAddr + blkLen /\ blkLen' = 0
        /\ residue' = Minus(residue, blkLen * BlkSize)
        /\ botState' = "LAST_DATA_IN"
        /\ UNCHANGED <<blkNbr, senseVars, out>>
  /\ UNCHANGED <<hostVars, botStatus, answerVars, capOk>>

TaskWrite ==
  /\ pipe = "write"
  /\ pipe' = "none"
  /\ \/ /\ Raise(sense, "HARDWARE_ERROR")
        /\ SendCSW(tx, "failed", residue)
        /\ UNCHANGED <<residue, blkVars, spilled>>
     \/ /\ blkAddr + blkLen <= Capacity
        /\ blkAddr' = blkAddr + blkLen /\ blkLen' = 0
        /\ residue' = Minus(residue, blkLen * BlkSize)
        /\ SendCSW(tx, "passed", residue')
        /\ UNCHANGED <<blkNbr, senseVars>>
  /\ UNCHANGED <<hostVars, botStatus, answerVars, capOk>>

Task == TaskRead \/ TaskWrite

-----------------------------------------------------------------------------
(* The host and the wire                                                   *)

(* A CBW: nothing moves between two commands, so the host's decision and   *)
(* the reception are one step.  MSC_BOT_DataOut only decodes in IDLE.      *)
HostIssue ==
  /\ hphase = "idle" /\ out = "cbw" /\ botState = "IDLE"
  /\ \E c \in Commands :
       /\ hcmd' = c
       /\ hphase' = IF c.want = 0 THEN "csw" ELSE IF c.dir = "in" THEN "datain" ELSE "dataout"
       /\ CbwDecode(c)
  /\ UNCHANGED <<hsent, hgot>>

(* The data stage of a WRITE: into the buffer armed for it, all of it ...  *)
OutData ==
  /\ hphase = "dataout" /\ out = "data"
  /\ hphase' = "csw" /\ hsent' = hcmd.want
  /\ out' = "none"
  /\ pipe' = "write"
  /\ UNCHANGED <<hcmd, hgot, botState, botStatus, answerVars, residue, blkVars, senseVars, capOk,
                 tx, inStall>>

(* ... or, when the WRITE was refused with a status, packet by packet into *)
(* hmsc->cbw.                                                              *)
OutSpill ==
  /\ hphase = "dataout" /\ out = "cbw"
  /\ hsent' = hsent + Packet
  /\ hphase' = IF hsent' >= hcmd.want THEN "csw" ELSE "dataout"
  /\ BadCbw
  /\ UNCHANGED <<hcmd, hgot>>

(* MSC_BOT_DataIn.  One in DATA_IN would ask for the next chunk: those are *)
(* MscPipeline's.  The variant forgets the answers out of bot_data.        *)
DataInOfBlocks ==
  \/ /\ botState = "LAST_DATA_IN"
     /\ SendCSW(NoTx, "passed", residue)
  \/ /\ botState \in {"IDLE", "SEND_DATA"}
     /\ tx' = NoTx
     /\ UNCHANGED <<botState, out, inStall>>
DataIn ==
  \/ /\ botState \in {"SEND_DATA", "LAST_DATA_IN"}
     /\ SendCSW(NoTx, "passed", residue)
  \/ /\ botState = "IDLE"
     /\ tx' = NoTx
     /\ UNCHANGED <<botState, out, inStall>>

(* Data in the data stage; too much of it is an error the host does not    *)
(* acknowledge.                                                            *)
InBytes ==
  /\ hphase = "datain" /\ tx.size > 0
  /\ IF tx.size <= hcmd.want - hgot
     THEN /\ hgot' = hgot + tx.size
          /\ hphase' = IF hgot' = hcmd.want \/ tx.size % Packet # 0 THEN "csw" ELSE "datain"
          /\ DataIn
     ELSE /\ hphase' = "confused"
          /\ UNCHANGED <<hgot, botState, out, tx, inStall>>

(* An empty packet ends the data stage; data where the status belongs is   *)
(* an error.                                                               *)
InStray ==
  /\ hphase = "csw" \/ tx.size = 0
  /\ hphase' = IF hphase = "datain" THEN "csw" ELSE "confused"
  /\ IF tx.size = 0 THEN DataIn ELSE UNCHANGED <<botState, out, tx, inStall>>
  /\ UNCHANGED hgot

InData ==
  /\ hphase \in {"datain", "csw"} /\ tx.kind = "data" /\ ~inStall
  /\ InBytes \/ InStray
  /\ UNCHANGED <<hcmd, hsent, botStatus, answerVars, residue, blkVars, senseVars, capOk, pipe>>

CommandOver ==
  hphase' = "idle" /\ hcmd' = NoCommand /\ hsent' = 0 /\ hgot' = 0 /\ raised' = FALSE

(* The status; the host recognises one that cuts a data stage short, when  *)
(* there is room for it.                                                   *)
InCsw ==
  /\ hphase \in {"datain", "csw"} /\ tx.kind = "csw" /\ ~inStall
  /\ \/ /\ hphase = "datain" /\ hcmd.want - hgot < CswLen
        /\ hphase' = "confused"
        /\ UNCHANGED <<hcmd, hsent, hgot, raised, botState, out, tx, inStall>>
     \/ /\ hphase = "datain" => hcmd.want - hgot >= CswLen
        /\ CommandOver
        /\ DataIn
  /\ UNCHANGED <<botStatus, answerVars, residue, blkVars, sense, head, tail, unread, spilled,
                 capOk, pipe>>

(* Nothing is left that the device or the wire could still do.             *)
Quiet ==
  /\ pipe = "none"
  /\ ~(hphase = "dataout" /\ out \in {"cbw", "data"})
  /\ tx.kind = "none" \/ inStall \/ hphase \in {"confused", "dataout"}

(* Bulk-Only reset of a device that has stopped: MSC_BOT_Reset.  The stall *)
(* of EP IN stays, USB_EPClearStall does nothing for a double-buffered     *)
(* endpoint.  What the reset means for a transfer EP IN still holds is     *)
(* PmaDoubleBuffer's matter; here a host then resets the bus.  The variant *)
(* leaves EP OUT as it is.                                                 *)
ResetKeepsOut == UNCHANGED out
ResetOut == out' = "cbw"

HostReset ==
  /\ Quiet /\ hphase # "idle" /\ tx.kind = "none"
  /\ CommandOver
  /\ botState' = "IDLE" /\ botStatus' = "RECOVERY"
  /\ pipe' = "none"
  /\ ResetOut
  /\ UNCHANGED <<answerVars, residue, blkVars, sense, head, tail, unread, spilled, capOk, tx,
                 inStall>>

(* A bus reset and SET_CONFIGURATION, the next thing a host tries:         *)
(* USBD_MSC_DeInit and USBD_MSC_Init open both endpoints afresh, hmsc is   *)
(* the same static block with its old contents.                            *)
HostReconfigure ==
  /\ Quiet /\ hphase # "idle"
  /\ CommandOver
  /\ botState' = "IDLE" /\ botStatus' = "NORMAL"
  /\ head' = 0 /\ tail' = 0 /\ unread' = <<>> /\ spilled' = FALSE
  /\ out' = "cbw" /\ tx' = NoTx /\ inStall' = FALSE
  /\ UNCHANGED <<answerVars, residue, blkVars, sense, capOk, pipe>>

(* MSC_BOT_Init the first time; usb_storage_preinit has read the capacity  *)
(* if there was a card.                                                    *)
Init ==
  /\ hphase = "idle" /\ hcmd = NoCommand /\ hsent = 0 /\ hgot = 0
  /\ botState = "IDLE" /\ botStatus = "NORMAL"
  /\ dataLen = 0 /\ botData = NoTx.data
  /\ residue = 0 /\ blkNbr = 0 /\ blkAddr = 0 /\ blkLen = 0
  /\ sense = [i \in 0 .. Depth - 1 |-> NoKey] /\ head = 0 /\ tail = 0
  /\ unread = <<>> /\ raised = FALSE /\ spilled = FALSE
  /\ capOk \in BOOLEAN
  /\ pipe = "none" /\ out = "cbw" /\ tx = NoTx /\ inStall = FALSE

Wire == OutData \/ OutSpill \/ InData \/ InCsw

Next == HostIssue \/ Wire \/ Task \/ HostReset \/ HostReconfigure

Spec == Init /\ [][Next]_vars

-----------------------------------------------------------------------------
(* Properties                                                              *)

Stored == Keys \cup {NoKey, Junk}
Answers == [op : AnswerKinds, key : Stored]
TypeOK ==
  /\ hphase \in {"idle", "dataout", "datain", "csw", "confused"}
  /\ hcmd \in Commands \cup {NoCommand} /\ hsent \in Nat /\ hgot \in 0 .. hcmd.want
  /\ botState \in {"IDLE", "SEND_DATA", "DATA_IN", "LAST_DATA_IN", "DATA_OUT"}
  /\ botStatus \in {"NORMAL", "RECOVERY", "ERROR"}
  /\ dataLen \in 0 .. BlkSize /\ botData \in Answers
  /\ residue \in 0 .. Wrap - 1
  /\ blkNbr \in {0, Capacity} /\ blkAddr \in 0 .. Wrap - 1 /\ blkLen \in {0, 1}
  /\ sense \in [0 .. Depth - 1 -> Stored] /\ head \in 0 .. Depth - 1 /\ tail \in 0 .. Depth - 1
  /\ unread \in Seq(Keys) /\ raised \in BOOLEAN /\ spilled \in BOOLEAN /\ capOk \in BOOLEAN
  /\ pipe \in {"none", "read", "write"}
  /\ out \in {"none", "cbw", "data", "stall"}
  /\ tx \in [kind : {"none", "data", "csw"}, size : 0 .. BlkSize,
             status : {"none", "passed", "failed"}, residue : 0 .. Wrap - 1, data : Answers]
  /\ inStall \in BOOLEAN

(* Between two commands, however the last one ended, the device can take   *)
(* the next: EP OUT is armed for a CBW, bot_state is IDLE, the task has no *)
(* item and EP IN is free; and EP OUT is armed for a CBW in IDLE only.     *)
ReadyForCbw ==
  /\ hphase = "idle" => out = "cbw" /\ pipe = "none" /\ tx.kind = "none"
  /\ out = "cbw" => botState = "IDLE"

(* The ring of senses is a queue of the keys not reported yet, oldest      *)
(* first, as long as fewer than Depth errors wait and no refused WRITE has *)
(* spilled its data over it; the Depth-th error forgets all of them.       *)
Slot(i) == IF i < Depth THEN i ELSE i - Depth
SenseRingIsQueue ==
  /\ Len(unread) < Depth
  /\ tail = Slot(head + Len(unread))
  /\ ~spilled => \A i \in 1 .. Len(unread) : sense[Slot(head + i - 1)] = unread[i]

(* A READ or WRITE that was accepted lies on the card, unless its 32-bit   *)
(* sum of address and length has wrapped: the one hole of the range check. *)
AcceptedInRange ==
  botState \in {"DATA_IN", "DATA_OUT"} =>
    blkAddr + blkLen <= Capacity \/ blkAddr + blkLen >= Wrap

(* The residue in a status is what the host did not get of the answer it   *)
(* asked for, except that an answer longer than what it asked for has made *)
(* it wrap.                                                                *)
ResidueAccounts ==
  tx.kind = "csw" /\ hcmd.dir = "in" /\ hphase # "confused" =>
    \/ tx.residue = hcmd.want - hgot
    \/ hgot = hcmd.want /\ tx.residue > Wrap - BlkSize

(* The data a host gets is the answer to its own command: what an earlier  *)
(* one left in bot_data and bot_data_length is sent only for a command     *)
(* that was refused (and whose refusal the host is not told).              *)
AnswerBelongs == tx.kind = "data" /\ ~raised => tx.data.op = hcmd.op

(* Only a refused command, or a READ or WRITE of no blocks or one that     *)
(* slips through the range check, can bring the device to a standstill or  *)
(* confuse the host, so that it has to reset.                              *)
OddTransfer ==
  hcmd.op \in {"read", "write"} /\ (hcmd.n = 0 \/ hcmd.lba + hcmd.n >= Wrap)
OnlyRefusalsHang == Quiet /\ hphase # "idle" => raised \/ OddTransfer
=============================================================================

------------------------- MODULE ScsiCommandsProofs -------------------------
(***************************************************************************)
(* Proofs about ScsiCommands, for every set of commands, depth of the      *)
(* sense ring, capacity, block and packet size.                            *)
(***************************************************************************)
EXTENDS ScsiCommands, SequenceTheorems, TLAPS

(* TypeOK, a group of variables at a time.                                 *)
HostTypes ==
  /\ hphase \in {"idle", "dataout", "datain", "csw", "confused"}
  /\ hcmd \in Commands \cup {NoCommand} /\ hsent \in Nat /\ hgot \in 0 .. hcmd.want
BotTypes ==
  /\ botState \in {"IDLE", "SEND_DATA", "DATA_IN", "LAST_DATA_IN", "DATA_OUT"}
  /\ botStatus \in {"NORMAL", "RECOVERY", "ERROR"}
  /\ dataLen \in 0 .. BlkSize /\ botData \in Answers
  /\ residue \in 0 .. Wrap - 1
  /\ blkNbr \in {0, Capacity} /\ blkAddr \in 0 .. Wrap - 1 /\ blkLen \in {0, 1}
  /\ capOk \in BOOLEAN /\ pipe \in {"none", "read", "write"}
SenseTypes ==
  /\ sense \in [0 .. Depth - 1 -> Stored] /\ head \in 0 .. Depth - 1 /\ tail \in 0 .. Depth - 1
  /\ unread \in Seq(Keys) /\ raised \in BOOLEAN /\ spilled \in BOOLEAN
Txs == [kind : {"none", "data", "csw"}, size : 0 .. BlkSize,
        status : {"none", "passed", "failed"}, residue : 0 .. Wrap - 1, data : Answers]
EndpointTypes ==
  out \in {"none", "cbw", "data", "stall"} /\ tx \in Txs /\ inStall \in BOOLEAN

(* The host and its command.                                               *)
Asked ==
  /\ hphase = "idle" => hcmd = NoCommand /\ hgot = 0
  /\ hphase # "idle" => hcmd \in Commands
  /\ hphase = "dataout" => hcmd.dir = "out" /\ hcmd.want > 0
  /\ hphase = "datain" => hcmd.dir = "in" /\ hcmd.want > 0

(* What goes with each state of the Bulk-Only layer.                       *)
Idle ==
  /\ hphase = "idle" =>
       botState = "IDLE" /\ out = "cbw" /\ pipe = "none" /\ tx.kind = "none" /\ ~raised
  /\ out = "cbw" => botState = "IDLE"
  /\ botState = "IDLE" => tx.kind # "data" /\ pipe = "none"
Answering ==
  botState = "SEND_DATA" =>
    /\ tx.kind = "data" /\ pipe = "none" /\ ~inStall /\ hgot = 0
    /\ hphase \in {"csw", "datain", "dataout"} /\ (hphase = "csw" <=> hcmd.want = 0)
    /\ tx.size <= hcmd.want /\ (hcmd.want > 0 => tx.size > 0)
    /\ \/ residue = hcmd.want - tx.size
       \/ tx.size = hcmd.want /\ (hcmd.want > 0 => residue > Wrap - BlkSize)
    /\ ~raised => hphase = "datain" /\ tx.size < Packet /\ tx.data.op = hcmd.op
Reading ==
  /\ botState = "DATA_IN" => tx.kind = "none" /\ (pipe = "none" => raised)
  /\ pipe = "read" =>
       /\ botState = "DATA_IN" /\ out = "none" /\ ~raised /\ residue = hcmd.want /\ hgot = 0
       /\ hphase \in {"csw", "datain"} /\ (hphase = "csw" <=> hcmd.want = 0)
       /\ hcmd.op = "read" /\ hcmd.dir = "in" /\ hcmd.want = Bytes(hcmd.n)
       /\ blkAddr = hcmd.lba /\ blkLen = hcmd.n /\ InRange(blkAddr, blkLen)
  /\ botState = "LAST_DATA_IN" =>
       /\ tx.kind = "data" /\ pipe = "none" /\ ~inStall /\ ~raised /\ residue = 0 /\ hgot = 0
       /\ hphase \in {"csw", "datain"} /\ (hphase = "csw" <=> hcmd.want = 0)
       /\ tx.size = hcmd.want /\ tx.data.op = "read" /\ hcmd.op = "read"
       /\ hcmd.want = 0 => hcmd.n = 0
Writing ==
  /\ botState = "DATA_OUT" =>
       /\ tx.kind = "none" /\ ~raised /\ hcmd.op = "write" /\ hcmd.dir = "out"
       /\ out = "data" \/ pipe = "write"
       /\ out = "data" => (hphase = "dataout" \/ (hphase = "csw" /\ OddTransfer))
  /\ pipe = "write" =>
       botState = "DATA_OUT" /\ out = "none" /\ hphase = "csw"
  /\ out = "data" => botState = "DATA_OUT" /\ pipe = "none"

(* A status on its way, and a command that meets nothing odd.              *)
Status ==
  /\ tx.kind = "csw" => botState = "IDLE" /\ out = "cbw"
  /\ ResidueAccounts
Straight ==
  hphase # "idle" /\ ~raised /\ ~OddTransfer =>
    /\ hphase # "confused"
    /\ hphase = "dataout" => out = "data"
    /\ botState = "IDLE" => tx.kind = "csw" /\ ~inStall /\ hphase = "csw"
    /\ botState = "DATA_IN" => pipe = "read"

Shape == Asked /\ Idle /\ Answering /\ Reading /\ Writing /\ Status /\ Straight
Types == HostTypes /\ BotTypes /\ SenseTypes /\ EndpointTypes
IInv == Types /\ SenseRingIsQueue /\ AcceptedInRange /\ Shape

-----------------------------------------------------------------------------
(* Facts about commands, counters and answers                              *)

LEMMA SizeFacts ==
  /\ Depth \in Nat /\ Depth > 1 /\ BlkSize \in Nat /\ Packet \in Nat
  /\ 36 < Packet /\ Packet <= BlkSize /\ Capacity \in Nat /\ Capacity > 0
  /\ Wrap \in Nat /\ Wrap > Capacity /\ Wrap > 2 * BlkSize /\ SpillEntries \in Nat
  BY SizesAssumption DEF InquiryLen

LEMMA CommandFacts ==
  ASSUME NEW c \in Commands
  PROVE  /\ c.op \in Ops /\ c.dir \in {"in", "out"} /\ c.want \in 0 .. Wrap - 1 /\ c.alloc \in Nat
         /\ c.lba \in 0 .. Wrap - 1 /\ c.n \in {0, 1}
         /\ c.op \in NoDataOps => c.want = 0
         /\ c.op \notin NoDataOps \cup TransferOps => c.dir = "in" /\ c.want > 0 /\ c.alloc > 0
  BY CommandsAssumption DEF CommandShape

LEMMA MinusFacts ==
  ASSUME NEW a \in 0 .. Wrap - 1, NEW b \in 0 .. BlkSize
  PROVE  /\ Minus(a, b) \in 0 .. Wrap - 1
         /\ b <= a => Minus(a, b) = a - b
         /\ b > a => Minus(a, b) = a - b + Wrap
  BY SizeFacts DEF Minus

LEMMA TxFacts ==
  ASSUME NEW d \in Answers
  PROVE  /\ NoTx \in Txs /\ NoTx.kind = "none" /\ NoTx.data \in Answers
         /\ \A n \in 0 .. BlkSize :
              /\ DataTx(n, d) \in Txs /\ DataTx(n, d).kind = "data" /\ DataTx(n, d).size = n
              /\ DataTx(n, d).data = d
         /\ \A st \in {"passed", "failed"}, r \in 0 .. Wrap - 1 :
              CswTx(st, r) \in Txs /\ CswTx(st, r).kind = "csw" /\ CswTx(st, r).residue = r
<1>1. 0 \in 0 .. BlkSize /\ 0 \in 0 .. Wrap - 1
  BY SizeFacts
<1>2. NoTx.data \in Answers /\ NoTx.kind = "none"
  BY DEF NoTx, Answers, AnswerKinds, Stored
<1>3. NoTx \in Txs
  BY <1>1, <1>2 DEF NoTx, Txs
<1>4. ASSUME NEW n \in 0 .. BlkSize
      PROVE  /\ DataTx(n, d) \in Txs /\ DataTx(n, d).kind = "data" /\ DataTx(n, d).size = n
             /\ DataTx(n, d).data = d
  BY <1>1 DEF DataTx, NoTx, Txs
<1>5. ASSUME NEW st \in {"passed", "failed"}, NEW r \in 0 .. Wrap - 1
      PROVE  CswTx(st, r) \in Txs /\ CswTx(st, r).kind = "csw" /\ CswTx(st, r).residue = r
  BY <1>1, <1>2 DEF CswTx, NoTx, Txs
<1> QED
  BY <1>2, <1>3, <1>4, <1>5

LEMMA NoTxFacts ==
  /\ NoTx \in Txs /\ NoTx.kind = "none"
  /\ \A st \in {"passed", "failed"}, r \in 0 .. Wrap - 1 :
       CswTx(st, r) \in Txs /\ CswTx(st, r).kind = "csw" /\ CswTx(st, r).residue = r
<1>1. [op |-> "zeroed", key |-> NoKey] \in Answers
  BY DEF Answers, AnswerKinds, Stored
<1> QED
  BY <1>1, TxFacts

-----------------------------------------------------------------------------
(* The sense ring                                                          *)

LEMMA RaiseStep ==
  ASSUME SenseTypes, SenseRingIsQueue, NEW s \in [0 .. Depth - 1 -> Stored], NEW key \in Keys,
         Raise(s, key), spilled' \in BOOLEAN, ~spilled' => s = sense /\ ~spilled
  PROVE  SenseTypes' /\ SenseRingIsQueue' /\ raised' = TRUE
<1>1. /\ sense' = [s EXCEPT ![tail] = key] /\ tail' = Advance(tail) /\ head' = head
      /\ raised' = TRUE /\ Len(unread) \in Nat /\ Len(unread) < Depth
      /\ tail = Slot(head + Len(unread))
  BY DEF Raise, SenseTypes, SenseRingIsQueue
<1>2. sense' \in [0 .. Depth - 1 -> Stored] /\ tail' \in 0 .. Depth - 1
  BY <1>1, SizeFacts DEF SenseTypes, Stored, Advance
<1>3. CASE Len(unread) + 1 = Depth
  <2>1. unread' = <<>> /\ Len(unread') = 0 /\ unread' \in Seq(Keys)
    BY <1>3, EmptySeq DEF Raise
  <2>2. tail' = Slot(head' + 0)
    BY <1>1, <1>3, SizeFacts DEF SenseTypes, Slot, Advance
  <2>3. SenseTypes'
    BY <1>1, <1>2, <2>1 DEF SenseTypes
  <2>4. SenseRingIsQueue'
    BY <2>1, <2>2, SizeFacts DEF SenseRingIsQueue
  <2> QED
    BY <1>1, <2>3, <2>4
<1>4. CASE Len(unread) + 1 # Depth
  <2>1. unread' = Append(unread, key) /\ unread \in Seq(Keys)
    BY <1>4 DEF Raise, SenseTypes
  <2>2. /\ unread' \in Seq(Keys) /\ Len(unread') = Len(unread) + 1
        /\ \A i \in 1 .. Len(unread) : unread'[i] = unread[i]
        /\ unread'[Len(unread) + 1] = key
    BY <2>1, AppendProperties
  <2>3. Len(unread') < Depth /\ tail' = Slot(head' + Len(unread'))
    BY <1>1, <1>4, <2>2, SizeFacts DEF SenseTypes, Slot, Advance
  <2>4. ASSUME ~spilled', NEW i \in 1 .. Len(unread')
        PROVE  sense'[Slot(head' + i - 1)] = unread'[i]
    <3>1. CASE i = Len(unread) + 1
      BY <1>1, <1>2, <2>2, <3>1, SizeFacts DEF SenseTypes, Slot
    <3>2. CASE i # Len(unread) + 1
      <4>1. i \in 1 .. Len(unread) /\ sense[Slot(head + i - 1)] = unread[i] /\ s = sense
        BY <1>1, <2>2, <2>4, <3>2 DEF SenseRingIsQueue
      <4>2. Slot(head + i - 1) \in 0 .. Depth - 1 /\ Slot(head + i - 1) # tail
        BY <1>1, <4>1, SizeFacts DEF SenseTypes, Slot
      <4> QED
        BY <1>1, <2>2, <4>1, <4>2 DEF SenseTypes
    <3> QED
      BY <3>1, <3>2
  <2>5. SenseTypes'
    BY <1>1, <1>2, <2>2 DEF SenseTypes
  <2> QED
    BY <1>1, <2>3, <2>4, <2>5 DEF SenseRingIsQueue
<1> QED
  BY <1>3, <1>4

(* REQUEST SENSE takes the oldest key, if there is one.                    *)
LEMMA TakeStep ==
  ASSUME SenseTypes, SenseRingIsQueue,
         IF head # tail THEN head' = Advance(head) /\ unread' = Tail(unread)
                        ELSE UNCHANGED <<head, unread>>,
         UNCHANGED <<sense, tail, raised, spilled>>
  PROVE  SenseTypes' /\ SenseRingIsQueue'
<1>1. /\ Len(unread) \in Nat /\ Len(unread) < Depth /\ tail = Slot(head + Len(unread))
      /\ unread \in Seq(Keys) /\ head \in 0 .. Depth - 1
  BY DEF SenseTypes, SenseRingIsQueue
<1>2. CASE head = tail
  BY <1>2 DEF SenseTypes, SenseRingIsQueue
<1>3. CASE head # tail
  <2>1. Len(unread) > 0
    BY <1>1, <1>3, SizeFacts DEF Slot
  <2>2. unread # <<>>
    BY <2>1
  <2>3. /\ unread' \in Seq(Keys) /\ Len(unread') = Len(unread) - 1
        /\ \A i \in 1 .. Len(unread') : unread'[i] = unread[i + 1]
    BY <1>1, <1>3, <2>2, HeadTailProperties
  <2>4. head' = Advance(head) /\ head' \in 0 .. Depth - 1
    BY <1>1, <1>3, SizeFacts DEF Advance
  <2>5. Len(unread') < Depth /\ tail' = Slot(head' + Len(unread'))
    BY <1>1, <2>1, <2>3, <2>4, SizeFacts DEF Slot, Advance
  <2>6. ASSUME ~spilled', NEW i \in 1 .. Len(unread')
        PROVE  sense'[Slot(head' + i - 1)] = unread'[i]
    <3>1. i + 1 \in 1 .. Len(unread) /\ Slot(head' + i - 1) = Slot(head + (i + 1) - 1)
      BY <1>1, <2>1, <2>3, <2>4, SizeFacts DEF Slot, Advance
    <3> QED
      BY <2>3, <2>6, <3>1 DEF SenseRingIsQueue
  <2>7. SenseTypes'
    BY <2>3, <2>4 DEF SenseTypes
  <2> QED
    BY <2>5, <2>6, <2>7 DEF SenseRingIsQueue
<1> QED
  BY <1>2, <1>3

-----------------------------------------------------------------------------
(* Commands                                                                *)

LEMMA InitEstablishes == Init => IInv
<1> SUFFICES ASSUME Init PROVE IInv
  OBVIOUS
<1>1. NoTx \in Txs /\ NoTx.kind = "none" /\ NoTx.data \in Answers
  <2>1. [op |-> "zeroed", key |-> NoKey] \in Answers
    BY DEF Answers, AnswerKinds, Stored
  <2> QED
    BY <2>1, TxFacts
<1>2. /\ hphase = "idle" /\ hcmd = NoCommand /\ hsent = 0 /\ hgot = 0 /\ botState = "IDLE"
      /\ botStatus = "NORMAL" /\ dataLen = 0 /\ botData = NoTx.data /\ residue = 0 /\ blkNbr = 0
      /\ blkAddr = 0 /\ blkLen = 0 /\ head = 0 /\ tail = 0 /\ raised = FALSE /\ spilled = FALSE
      /\ capOk \in BOOLEAN /\ pipe = "none" /\ out = "cbw" /\ tx = NoTx /\ inStall = FALSE
      /\ sense = [i \in 0 .. Depth - 1 |-> NoKey]
  BY DEF Init
<1>3. unread \in Seq(Keys) /\ Len(unread) = 0
  BY EmptySeq DEF Init
<1>4. HostTypes
  BY <1>2 DEF HostTypes, NoCommand
<1>5. BotTypes
  BY <1>1, <1>2, SizeFacts DEF BotTypes
<1>6. SenseTypes /\ EndpointTypes
  <2>1. sense \in [0 .. Depth - 1 -> Stored] /\ 0 \in 0 .. Depth - 1
    BY <1>2, SizeFacts DEF Stored
  <2>2. SenseTypes
    BY <1>2, <1>3, <2>1 DEF SenseTypes
  <2>3. EndpointTypes
    BY <1>1, <1>2 DEF EndpointTypes
  <2> QED
    BY <2>2, <2>3
<1>7. SenseRingIsQueue
  BY <1>2, <1>3, SizeFacts DEF SenseRingIsQueue, Slot
<1>8. AcceptedInRange
  BY <1>2 DEF AcceptedInRange
<1>9. Shape
  BY <1>1, <1>2
     DEF Shape, Asked, Idle, Answering, Reading, Writing, Status, ResidueAccounts, Straight
<1> QED
  BY <1>4, <1>5, <1>6, <1>7, <1>8, <1>9 DEF IInv, Types

(* What every command begins with.                                         *)
Issued(c) ==
  /\ hphase = "idle" /\ hcmd' = c
  /\ hphase' = IF c.want = 0 THEN "csw" ELSE IF c.dir = "in" THEN "datain" ELSE "dataout"
  /\ UNCHANGED <<hsent, hgot>>

LEMMA IssuedFacts ==
  ASSUME IInv, NEW c \in Commands, Issued(c)
  PROVE  /\ hgot = 0 /\ hgot' = 0 /\ hcmd' = c /\ hcmd' \in Commands
         /\ botState = "IDLE" /\ out = "cbw" /\ pipe = "none" /\ tx.kind = "none" /\ ~raised
         /\ HostTypes' /\ Asked'
         /\ hphase' \in {"csw", "datain", "dataout"} /\ (hphase' = "csw" <=> c.want = 0)
         /\ hphase' = "datain" <=> c.want > 0 /\ c.dir = "in"
<1>1. hgot = 0 /\ botState = "IDLE" /\ out = "cbw" /\ pipe = "none" /\ tx.kind = "none" /\ ~raised
  BY DEF IInv, Shape, Asked, Idle, Issued
<1>2. hgot' = 0 /\ hcmd' = c /\ hsent' \in Nat
  BY <1>1 DEF Issued, IInv, Types, HostTypes
<1>3. c.want \in Nat /\ c.dir \in {"in", "out"}
  BY CommandFacts
<1>4. /\ hphase' \in {"csw", "datain", "dataout"} /\ (hphase' = "csw" <=> c.want = 0)
      /\ hphase' = "datain" <=> c.want > 0 /\ c.dir = "in"
      /\ hphase' = "dataout" => c.want > 0 /\ c.dir = "out"
  BY <1>3 DEF Issued
<1>5. HostTypes'
  BY <1>2, <1>3, <1>4 DEF HostTypes
<1>6. Asked'
  BY <1>2, <1>4 DEF Asked
<1> QED
  BY <1>1, <1>2, <1>4, <1>5, <1>6

(* The answer or the status that a handler's return leads to.  Without a   *)
(* refusal the answer is the command's own, short, and asked for.          *)
LEMMA ReplyStep ==
  ASSUME IInv, NEW c \in Commands, Issued(c), NEW n \in 0 .. BlkSize, NEW d \in Answers,
         Reply(c.want, n, d), UNCHANGED pipe, raised' \in BOOLEAN,
         ~raised' => IF n = 0 THEN c.want = 0
                     ELSE c.dir = "in" /\ c.want > 0 /\ n < Packet /\ d.op = c.op
  PROVE  /\ Shape' /\ HostTypes' /\ EndpointTypes' /\ residue' \in 0 .. Wrap - 1
         /\ botState' \in {"IDLE", "SEND_DATA"}
<1>0. /\ hgot' = 0 /\ hcmd' = c /\ hcmd' \in Commands /\ pipe' = "none" /\ tx.kind = "none"
      /\ HostTypes' /\ Asked'
      /\ hphase' \in {"csw", "datain", "dataout"} /\ (hphase' = "csw" <=> c.want = 0)
      /\ hphase' = "datain" <=> c.want > 0 /\ c.dir = "in"
      /\ c.want \in 0 .. Wrap - 1
  BY IssuedFacts, CommandFacts
<1>1. CASE n = 0
  <2>1. /\ botState' = "IDLE" /\ out' = "cbw" /\ inStall' = FALSE /\ residue' = c.want
        /\ tx' = CswTx("passed", c.want)
    <3>1. SendCSW(tx, "passed", c.want) /\ residue' = c.want
      BY <1>1 DEF Reply
    <3> QED
      BY <1>0, <3>1 DEF SendCSW, Transmit
  <2>2. tx' \in Txs /\ tx'.kind = "csw" /\ tx'.residue = c.want
    BY <1>0, <2>1, TxFacts
  <2>3. EndpointTypes'
    BY <2>1, <2>2 DEF EndpointTypes
  <2>4. Shape'
    BY <1>0, <1>1, <2>1, <2>2
       DEF Shape, Idle, Answering, Reading, Writing, Status, ResidueAccounts, Straight
  <2> QED
    BY <1>0, <2>1, <2>3, <2>4
<1>2. CASE n > 0
  <2>1. /\ botState' = "SEND_DATA" /\ out' = "none" /\ inStall' = FALSE
        /\ residue' = Minus(c.want, n) /\ tx' = DataTx(Least(c.want, n), d)
    BY <1>0, <1>2 DEF Reply, SendData, Transmit
  <2>2. /\ Least(c.want, n) \in 0 .. BlkSize /\ Least(c.want, n) <= c.want
        /\ Least(c.want, n) <= n /\ (c.want > 0 => Least(c.want, n) > 0)
        /\ Least(c.want, n) = c.want \/ Least(c.want, n) = n
    BY <1>0, <1>2, SizeFacts DEF Least
  <2>3. /\ tx' \in Txs /\ tx'.kind = "data" /\ tx'.size = Least(c.want, n) /\ tx'.data = d
    BY <2>1, <2>2, TxFacts
  <2>4. residue' \in 0 .. Wrap - 1
    BY <1>0, <2>1, MinusFacts
  <2>5. \/ residue' = c.want - tx'.size
        \/ tx'.size = c.want /\ (c.want > 0 => residue' > Wrap - BlkSize)
    <3>1. CASE n <= c.want
      BY <1>0, <2>1, <2>3, <3>1, MinusFacts DEF Least
    <3>2. CASE n > c.want
      BY <1>0, <2>1, <2>3, <3>2, MinusFacts, SizeFacts DEF Least
    <3> QED
      BY <1>0, <3>1, <3>2
  <2>6. ~raised' => tx'.size < Packet /\ tx'.data.op = hcmd'.op /\ hphase' = "datain"
    BY <1>0, <1>2, <2>2, <2>3, SizeFacts
  <2>7. Answering'
    BY <1>0, <2>1, <2>2, <2>3, <2>5, <2>6 DEF Answering
  <2>8. Shape'
    BY <1>0, <2>1, <2>3, <2>6, <2>7
       DEF Shape, Idle, Reading, Writing, Status, ResidueAccounts, Straight
  <2>9. EndpointTypes'
    BY <2>1, <2>3 DEF EndpointTypes
  <2> QED
    BY <1>0, <2>1, <2>4, <2>8, <2>9
<1> QED
  BY <1>1, <1>2

LEMMA KeyFacts ==
  /\ "NOT_READY" \in Keys /\ "ILLEGAL_REQUEST" \in Keys /\ "HARDWARE_ERROR" \in Keys
  BY DEF Keys

(* A refusal: whatever is left of an earlier answer goes to the host.      *)
LEMMA RefuseStep ==
  ASSUME IInv, NEW c \in Commands, Issued(c), NEW key \in Keys, Refuse(c.want, key),
         UNCHANGED <<botStatus, blkNbr, pipe>>, capOk' \in BOOLEAN,
         blkAddr' \in 0 .. Wrap - 1, blkLen' \in {0, 1}
  PROVE  IInv'
<1>1. /\ Raise(sense, key) /\ UNCHANGED <<dataLen, botData, spilled>>
      /\ Reply(c.want, dataLen, botData)
  BY DEF Refuse, answerVars
<1>2. SenseTypes' /\ SenseRingIsQueue' /\ raised' = TRUE
  BY <1>1, RaiseStep DEF IInv, Types, SenseTypes
<1>3. dataLen \in 0 .. BlkSize /\ botData \in Answers
  BY DEF IInv, Types, BotTypes
<1>4. /\ Shape' /\ HostTypes' /\ EndpointTypes' /\ residue' \in 0 .. Wrap - 1
      /\ botState' \in {"IDLE", "SEND_DATA"}
  BY <1>1, <1>2, <1>3, ReplyStep
<1>5. BotTypes'
  BY <1>1, <1>4 DEF IInv, Types, BotTypes
<1>6. AcceptedInRange'
  BY <1>4 DEF AcceptedInRange
<1> QED
  BY <1>2, <1>4, <1>5, <1>6 DEF IInv, Types

(* A success: the command's own answer.                                    *)
LEMMA AnswerStep ==
  ASSUME IInv, NEW c \in Commands, Issued(c), NEW n \in 0 .. BlkSize, NEW d \in Answers,
         Answer(c.want, n, d), SenseTypes', SenseRingIsQueue', UNCHANGED raised,
         UNCHANGED <<botStatus, blkAddr, blkLen, pipe>>, capOk' \in BOOLEAN,
         blkNbr' \in {0, Capacity},
         IF n = 0 THEN c.want = 0 ELSE c.dir = "in" /\ c.want > 0 /\ n < Packet /\ d.op = c.op
  PROVE  IInv'
<1>1. dataLen' = n /\ botData' = d /\ Reply(c.want, n, d) /\ raised' \in BOOLEAN
  BY DEF Answer, IInv, Types, SenseTypes
<1>2. /\ Shape' /\ HostTypes' /\ EndpointTypes' /\ residue' \in 0 .. Wrap - 1
      /\ botState' \in {"IDLE", "SEND_DATA"}
  BY <1>1, ReplyStep
<1>3. BotTypes'
  BY <1>1, <1>2 DEF IInv, Types, BotTypes
<1>4. AcceptedInRange'
  BY <1>2 DEF AcceptedInRange
<1> QED
  BY <1>2, <1>3, <1>4 DEF IInv, Types

LEMMA AnswerFacts ==
  ASSUME NEW op \in Ops, NEW key \in Stored
  PROVE  [op |-> op, key |-> key] \in Answers
  BY DEF Answers, AnswerKinds

LEMMA LeastFacts ==
  ASSUME NEW a \in Nat, NEW b \in Nat
  PROVE  Least(a, b) \in Nat /\ Least(a, b) <= b /\ (a > 0 /\ b > 0 => Least(a, b) > 0)
  BY DEF Least

LEMMA FixedAnswerStep ==
  ASSUME IInv, NEW c \in Commands, Issued(c), UNCHANGED botStatus,
         c.op \in {"testUnitReady", "startStop", "inquiry", "inquiryPage00", "modeSense"},
         FixedAnswer(c)
  PROVE  IInv'
<1>1. /\ UNCHANGED <<sense, head, tail, unread, raised, spilled, blkNbr, blkAddr, blkLen, capOk,
                     pipe>>
      /\ SenseTypes' /\ SenseRingIsQueue' /\ capOk' \in BOOLEAN /\ blkNbr' \in {0, Capacity}
  BY DEF FixedAnswer, senseVars, blkVars, IInv, Types, SenseTypes, SenseRingIsQueue, BotTypes
<1>2. CASE NoData(c)
  <2>1. Answer(c.want, 0, botData) /\ c.want = 0
    BY <1>2, CommandFacts DEF FixedAnswer, NoData, NoDataOps
  <2>2. 0 \in 0 .. BlkSize /\ botData \in Answers
    BY SizeFacts DEF IInv, Types, BotTypes
  <2> QED
    BY <1>1, <2>1, <2>2, AnswerStep
<1>3. CASE ~NoData(c)
  <2>1. /\ c.op \in {"inquiry", "inquiryPage00", "modeSense"} /\ c.op \in Ops
        /\ c.dir = "in" /\ c.want > 0 /\ c.alloc > 0 /\ c.alloc \in Nat
    BY <1>3, CommandFacts DEF NoData, NoDataOps, TransferOps
  <2>2. FixedLen(c) \in 1 .. 36
    <3>1. CASE c.op = "inquiry"
      BY <2>1, <3>1, LeastFacts DEF FixedLen, InquiryLen
    <3>2. CASE c.op = "inquiryPage00"
      BY <3>2 DEF FixedLen, Page00Len
    <3>3. CASE c.op = "modeSense"
      BY <3>3 DEF FixedLen
    <3> QED
      BY <2>1, <3>1, <3>2, <3>3
  <2>3. FixedLen(c) \in 0 .. BlkSize /\ FixedLen(c) < Packet /\ FixedLen(c) # 0
    BY <2>2, SizeFacts
  <2>4. Answer(c.want, FixedLen(c), [op |-> c.op, key |-> NoKey])
    BY <1>3 DEF FixedAnswer
  <2>5. [op |-> c.op, key |-> NoKey] \in Answers /\ [op |-> c.op, key |-> NoKey].op = c.op
    BY <2>1, AnswerFacts DEF Stored
  <2> QED
    BY <1>1, <2>1, <2>3, <2>4, <2>5, AnswerStep
<1> QED
  BY <1>2, <1>3

LEMMA RequestSenseStep ==
  ASSUME IInv, NEW c \in Commands, Issued(c), UNCHANGED botStatus, c.op = "requestSense",
         RequestSense(c)
  PROVE  IInv'
<1> DEFINE key == IF head # tail THEN sense[head] ELSE NoKey
<1>1. /\ UNCHANGED <<sense, tail, raised, spilled, blkNbr, blkAddr, blkLen, capOk, pipe>>
      /\ Answer(c.want, Least(c.alloc, SenseLen), [op |-> c.op, key |-> key])
      /\ IF head # tail THEN head' = Advance(head) /\ unread' = Tail(unread)
                        ELSE UNCHANGED <<head, unread>>
  BY DEF RequestSense, blkVars
<1>2. SenseTypes' /\ SenseRingIsQueue'
  BY <1>1, TakeStep DEF IInv, Types
<1>3. capOk' \in BOOLEAN /\ blkNbr' \in {0, Capacity}
  BY <1>1 DEF IInv, Types, BotTypes
<1>4. c.op \in Ops /\ c.dir = "in" /\ c.want > 0 /\ c.alloc > 0 /\ c.alloc \in Nat
  BY CommandFacts DEF NoDataOps, TransferOps
<1>5. Least(c.alloc, SenseLen) \in 1 .. 18
  BY <1>4 DEF SenseLen, Least
<1>6. /\ Least(c.alloc, SenseLen) \in 0 .. BlkSize /\ Least(c.alloc, SenseLen) < Packet
      /\ Least(c.alloc, SenseLen) # 0
  BY <1>5, SizeFacts
<1>7. key \in Stored
  BY DEF IInv, Types, SenseTypes, Stored
<1>8. [op |-> c.op, key |-> key] \in Answers /\ [op |-> c.op, key |-> key].op = c.op
  BY <1>4, <1>7, AnswerFacts
<1> QED
  BY <1>1, <1>2, <1>3, <1>4, <1>6, <1>8, AnswerStep

LEMMA CapacityStep ==
  ASSUME IInv, NEW c \in Commands, Issued(c), UNCHANGED botStatus,
         \/ c.op = "readCapacity" /\ ReadCapacity(c)
         \/ c.op = "readFormatCapacity" /\ ReadFormatCapacity(c)
  PROVE  IInv'
<1>1. c.op \in Ops /\ c.dir = "in" /\ c.want > 0 /\ 8 \in 0 .. BlkSize /\ 12 \in 0 .. BlkSize
      /\ 8 < Packet /\ 12 < Packet
  BY CommandFacts, SizeFacts DEF NoDataOps, TransferOps
<1>2. [op |-> c.op, key |-> NoKey] \in Answers /\ [op |-> c.op, key |-> NoKey].op = c.op
  BY <1>1, AnswerFacts DEF Stored
<1>3. /\ blkAddr \in 0 .. Wrap - 1 /\ blkLen \in {0, 1} /\ blkNbr \in {0, Capacity}
      /\ capOk \in BOOLEAN /\ dataLen \in 0 .. BlkSize
  BY DEF IInv, Types, BotTypes
<1>4. CASE /\ CapacityKnown /\ blkNbr' \in {blkNbr, Capacity}
           /\ \E n \in {8, 12} : Answer(c.want, n, [op |-> c.op, key |-> NoKey])
           /\ UNCHANGED <<senseVars, blkAddr, blkLen, pipe>>
  <2>1. /\ SenseTypes' /\ SenseRingIsQueue' /\ UNCHANGED raised /\ capOk' = TRUE
        /\ blkNbr' \in {0, Capacity}
    BY <1>3, <1>4 DEF CapacityKnown, senseVars, IInv, Types, SenseTypes, SenseRingIsQueue
  <2>2. PICK n \in {8, 12} : Answer(c.want, n, [op |-> c.op, key |-> NoKey])
    BY <1>4
  <2>3. n \in 0 .. BlkSize /\ n # 0 /\ n < Packet /\ capOk' \in BOOLEAN
    BY <1>1, <2>1
  <2>4. UNCHANGED <<botStatus, blkAddr, blkLen, pipe>>
    BY <1>4
  <2> QED
    BY <1>1, <1>2, <2>1, <2>2, <2>3, <2>4, AnswerStep
<1>5. CASE CapacityFails /\ Refuse(c.want, "NOT_READY") /\ UNCHANGED <<blkVars, pipe>>
  <2>1. /\ UNCHANGED <<botStatus, blkNbr, pipe>> /\ capOk' \in BOOLEAN
        /\ blkAddr' \in 0 .. Wrap - 1 /\ blkLen' \in {0, 1}
    BY <1>3, <1>5 DEF blkVars, CapacityFails
  <2> QED
    BY <1>5, <2>1, KeyFacts, RefuseStep
<1>6. CASE /\ CapacityFails /\ Raise(sense, "NOT_READY") /\ botData' = NoTx.data
           /\ Reply(c.want, dataLen, NoTx.data)
           /\ UNCHANGED <<dataLen, spilled, blkVars, pipe>>
  <2>1. SenseTypes' /\ SenseRingIsQueue' /\ raised' = TRUE
    BY <1>6, RaiseStep, KeyFacts DEF IInv, Types, SenseTypes
  <2>2. NoTx.data \in Answers
    BY AnswerFacts DEF NoTx, Answers, AnswerKinds, Stored
  <2>3. /\ Shape' /\ HostTypes' /\ EndpointTypes' /\ residue' \in 0 .. Wrap - 1
        /\ botState' \in {"IDLE", "SEND_DATA"}
    BY <1>3, <1>6, <2>1, <2>2, ReplyStep
  <2>4. BotTypes'
    BY <1>6, <2>2, <2>3 DEF IInv, Types, BotTypes, CapacityFails, blkVars
  <2>5. AcceptedInRange'
    BY <2>3 DEF AcceptedInRange
  <2> QED
    BY <2>1, <2>3, <2>4, <2>5 DEF IInv, Types
<1>7. CASE c.op = "readCapacity" /\ ReadCapacity(c)
  BY <1>4, <1>5, <1>7 DEF ReadCapacity
<1>8. CASE c.op = "readFormatCapacity" /\ ReadFormatCapacity(c)
  BY <1>4, <1>6, <1>8 DEF ReadFormatCapacity, blkVars
<1> QED
  BY <1>7, <1>8

LEMMA VerifyStep ==
  ASSUME IInv, NEW c \in Commands, Issued(c), UNCHANGED botStatus,
         c.op \in {"verify", "verifyBytes"}, Verify10(c)
  PROVE  IInv'
<1>1. /\ blkAddr' \in 0 .. Wrap - 1 /\ blkLen' \in {0, 1} /\ blkNbr' \in {0, Capacity}
      /\ capOk' \in BOOLEAN /\ UNCHANGED <<botStatus, blkNbr, blkAddr, blkLen, pipe>>
  BY DEF Verify10, blkVars, IInv, Types, BotTypes
<1>2. CASE Refuse(c.want, "ILLEGAL_REQUEST")
  BY <1>1, <1>2, KeyFacts, RefuseStep
<1>3. CASE Answer(c.want, 0, botData) /\ UNCHANGED senseVars
  <2>1. SenseTypes' /\ SenseRingIsQueue' /\ UNCHANGED raised
    BY <1>3 DEF senseVars, IInv, Types, SenseTypes, SenseRingIsQueue
  <2>2. 0 \in 0 .. BlkSize /\ botData \in Answers /\ c.want = 0
    BY SizeFacts, CommandFacts DEF IInv, Types, BotTypes, NoDataOps
  <2> QED
    BY <1>1, <1>3, <2>1, <2>2, AnswerStep
<1> QED
  BY <1>2, <1>3 DEF Verify10

LEMMA RangeFacts ==
  ASSUME blkNbr \in {0, Capacity}, NEW a \in 0 .. Wrap - 1, NEW n \in {0, 1}, InRange(a, n)
  PROVE  a + n <= Capacity \/ a + n >= Wrap
  BY SizeFacts DEF InRange, Plus

LEMMA ReadStep ==
  ASSUME IInv, NEW c \in Commands, Issued(c), UNCHANGED botStatus, c.op = "read", Read10(c)
  PROVE  IInv'
<1>1. /\ hgot = 0 /\ hgot' = 0 /\ hcmd' = c /\ pipe = "none" /\ tx.kind = "none" /\ ~raised
      /\ HostTypes' /\ Asked' /\ hphase' \in {"csw", "datain", "dataout"}
      /\ (hphase' = "csw" <=> c.want = 0)
      /\ hphase' = "datain" <=> c.want > 0 /\ c.dir = "in"
  BY IssuedFacts
<1>2. c.lba \in 0 .. Wrap - 1 /\ c.n \in {0, 1} /\ c.want \in 0 .. Wrap - 1
  BY CommandFacts
<1>3. /\ blkAddr' \in 0 .. Wrap - 1 /\ blkLen' \in {0, 1} /\ blkNbr' = blkNbr
      /\ blkNbr' \in {0, Capacity} /\ capOk' \in BOOLEAN /\ UNCHANGED capOk
      /\ c.dir = "in" => blkAddr' = c.lba /\ blkLen' = c.n
  BY <1>2 DEF Read10, TakesAddress, IInv, Types, BotTypes
<1>4. CASE RefusedAt(c)
  BY <1>3, <1>4, KeyFacts, RefuseStep DEF RefusedAt
<1>5. CASE /\ c.dir = "in" /\ InRange(c.lba, c.n) /\ botState' = "DATA_IN" /\ residue' = c.want
           /\ out' = "none"
           /\ IF c.want # Bytes(c.n)
              THEN Raise(sense, "ILLEGAL_REQUEST") /\ UNCHANGED <<dataLen, spilled, pipe>>
              ELSE dataLen' = BlkSize /\ pipe' = "read" /\ UNCHANGED senseVars
           /\ UNCHANGED <<botData, tx, inStall>>
  <2>1. EndpointTypes' /\ tx'.kind = "none"
    BY <1>1, <1>5 DEF EndpointTypes, IInv, Types
  <2>2. AcceptedInRange'
    BY <1>2, <1>3, <1>5, RangeFacts DEF AcceptedInRange, IInv, Types, BotTypes
  <2>3. InRange(blkAddr, blkLen)'
    BY <1>3, <1>5 DEF InRange
  <2>4. CASE c.want # Bytes(c.n)
    <3>1. SenseTypes' /\ SenseRingIsQueue' /\ raised' = TRUE
      BY <1>5, <2>4, RaiseStep, KeyFacts DEF IInv, Types, SenseTypes
    <3>2. BotTypes'
      BY <1>2, <1>3, <1>5, <2>4 DEF BotTypes, IInv, Types
    <3>3. Shape'
      BY <1>1, <1>5, <2>1, <2>4, <3>1
         DEF Shape, Idle, Answering, Reading, Writing, Status, ResidueAccounts, Straight
    <3> QED
      BY <1>1, <2>1, <2>2, <3>1, <3>2, <3>3 DEF IInv, Types
  <2>5. CASE c.want = Bytes(c.n)
    <3>1. /\ SenseTypes' /\ SenseRingIsQueue' /\ raised' = raised /\ pipe' = "read"
          /\ dataLen' = BlkSize
      BY <1>5, <2>5 DEF senseVars, IInv, Types, SenseTypes, SenseRingIsQueue
    <3>2. BotTypes'
      BY <1>2, <1>3, <1>5, <3>1, SizeFacts DEF BotTypes, IInv, Types
    <3>3. (hcmd.want = Bytes(hcmd.n))'
      BY <1>1, <1>3, <2>5 DEF Bytes
    <3>4. Reading'
      BY <1>1, <1>2, <1>3, <1>5, <2>1, <2>3, <3>1, <3>3 DEF Reading
    <3>5. Shape'
      BY <1>1, <1>2, <1>5, <2>1, <3>1, <3>4
         DEF Shape, Idle, Answering, Writing, Status, ResidueAccounts, Straight
    <3> QED
      BY <1>1, <2>1, <2>2, <3>1, <3>2, <3>5 DEF IInv, Types
  <2> QED
    BY <2>4, <2>5
<1> QED
  BY <1>4, <1>5 DEF Read10

LEMMA WriteStep ==
  ASSUME IInv, NEW c \in Commands, Issued(c), UNCHANGED botStatus, c.op = "write", Write10(c)
  PROVE  IInv'
<1>1. /\ hgot = 0 /\ hgot' = 0 /\ hcmd' = c /\ pipe = "none" /\ tx.kind = "none" /\ ~raised
      /\ HostTypes' /\ Asked' /\ hphase' \in {"csw", "datain", "dataout"}
      /\ (hphase' = "csw" <=> c.want = 0)
      /\ hphase' = "datain" <=> c.want > 0 /\ c.dir = "in"
  BY IssuedFacts
<1>2. c.lba \in 0 .. Wrap - 1 /\ c.n \in {0, 1} /\ c.want \in 0 .. Wrap - 1
  BY CommandFacts
<1>3. /\ blkAddr' \in 0 .. Wrap - 1 /\ blkLen' \in {0, 1} /\ blkNbr' = blkNbr
      /\ blkNbr' \in {0, Capacity} /\ capOk' \in BOOLEAN /\ UNCHANGED capOk
      /\ c.dir = "out" => blkAddr' = c.lba /\ blkLen' = c.n
  BY <1>2 DEF Write10, TakesAddress, IInv, Types, BotTypes
<1>4. CASE RefusedAt(c)
  BY <1>3, <1>4, KeyFacts, RefuseStep DEF RefusedAt
<1>5. CASE /\ c.dir = "out" /\ InRange(c.lba, c.n) /\ c.want = Bytes(c.n)
           /\ botState' = "DATA_OUT" /\ residue' = c.want /\ out' = "data"
           /\ UNCHANGED <<answerVars, senseVars, pipe, tx, inStall>>
  <2>1. EndpointTypes' /\ tx'.kind = "none"
    BY <1>1, <1>5 DEF EndpointTypes, IInv, Types
  <2>2. AcceptedInRange'
    BY <1>2, <1>3, <1>5, RangeFacts DEF AcceptedInRange, IInv, Types, BotTypes
  <2>3. SenseTypes' /\ SenseRingIsQueue' /\ raised' = raised
    BY <1>5 DEF senseVars, IInv, Types, SenseTypes, SenseRingIsQueue
  <2>4. BotTypes'
    BY <1>2, <1>3, <1>5 DEF BotTypes, IInv, Types, answerVars
  <2>5. c.want = 0 => OddTransfer'
    <3>1. CASE blkNbr = 0
      BY <1>1, <1>2, <1>5, <3>1, SizeFacts DEF OddTransfer, InRange, Plus
    <3>2. CASE blkNbr # 0 /\ c.want = 0
      BY <1>1, <1>2, <1>5, <3>2, SizeFacts DEF OddTransfer, Bytes
    <3> QED
      BY <3>1, <3>2
  <2>6. hphase' = "dataout" \/ (hphase' = "csw" /\ OddTransfer')
    BY <1>1, <1>5, <2>5
  <2>7. Shape'
    BY <1>1, <1>5, <2>1, <2>3, <2>6
       DEF Shape, Idle, Answering, Reading, Writing, Status, ResidueAccounts, Straight
  <2> QED
    BY <1>1, <2>1, <2>2, <2>3, <2>4, <2>7 DEF IInv, Types
<1> QED
  BY <1>4, <1>5 DEF Write10

LEMMA UnsupportedStep ==
  ASSUME IInv, NEW c \in Commands, Issued(c), UNCHANGED botStatus, Unsupported(c)
  PROVE  IInv'
<1>1. /\ hgot = 0 /\ hgot' = 0 /\ hcmd' = c /\ pipe = "none" /\ tx.kind = "none"
      /\ botState = "IDLE" /\ HostTypes' /\ Asked' /\ hphase' \in {"csw", "datain", "dataout"}
  BY IssuedFacts
<1>2. /\ Raise(sense, "ILLEGAL_REQUEST") /\ residue' = c.want /\ inStall' = TRUE
      /\ out' \in {"cbw", "stall", "none"}
      /\ UNCHANGED <<botState, dataLen, botData, spilled, blkNbr, blkAddr, blkLen, capOk, pipe, tx>>
  BY DEF Unsupported, Abort, answerVars, blkVars
<1>3. SenseTypes' /\ SenseRingIsQueue' /\ raised' = TRUE
  BY <1>2, RaiseStep, KeyFacts DEF IInv, Types, SenseTypes
<1>4. BotTypes'
  BY <1>2, CommandFacts DEF BotTypes, IInv, Types
<1>5. EndpointTypes'
  BY <1>2 DEF EndpointTypes, IInv, Types
<1>6. AcceptedInRange'
  BY <1>1, <1>2 DEF AcceptedInRange
<1>7. Shape'
  BY <1>1, <1>2, <1>3
     DEF Shape, Idle, Answering, Reading, Writing, Status, ResidueAccounts, Straight
<1> QED
  BY <1>1, <1>3, <1>4, <1>5, <1>6, <1>7 DEF IInv, Types

LEMMA HostIssueStep == ASSUME IInv, HostIssue PROVE IInv'
<1>1. PICK c \in Commands : Issued(c) /\ CbwDecode(c)
  BY DEF HostIssue, Issued
<1>2. UNCHANGED botStatus
  BY <1>1 DEF CbwDecode
<1> QED
  BY <1>1, <1>2, FixedAnswerStep, RequestSenseStep, CapacityStep, VerifyStep, ReadStep, WriteStep,
     UnsupportedStep DEF CbwDecode

-----------------------------------------------------------------------------
(* The task                                                                *)

LEMMA TaskReadStep == ASSUME IInv, TaskRead PROVE IInv'
<1>1. /\ pipe = "read" /\ pipe' = "none" /\ UNCHANGED <<hphase, hcmd, hsent, hgot>>
      /\ UNCHANGED <<botStatus, dataLen, botData, capOk>>
      /\ botState = "DATA_IN" /\ out = "none" /\ ~raised /\ residue = hcmd.want /\ hgot = 0
      /\ hphase \in {"csw", "datain"} /\ (hphase = "csw" <=> hcmd.want = 0)
      /\ hcmd.op = "read" /\ hcmd.dir = "in" /\ hcmd.want = Bytes(hcmd.n)
      /\ blkAddr = hcmd.lba /\ blkLen = hcmd.n /\ InRange(blkAddr, blkLen) /\ tx.kind = "none"
  BY DEF TaskRead, hostVars, answerVars, IInv, Shape, Reading
<1>2. HostTypes' /\ Asked'
  BY <1>1 DEF HostTypes, Asked, IInv, Types, Shape
<1>3. /\ blkNbr \in {0, Capacity} /\ blkAddr \in 0 .. Wrap - 1 /\ blkLen \in {0, 1}
      /\ residue \in 0 .. Wrap - 1
  BY DEF IInv, Types, BotTypes
<1>4. CASE Raise(sense, "HARDWARE_ERROR") /\ SendCSW(tx, "failed", residue)
           /\ UNCHANGED <<residue, blkVars, spilled>>
  <2>1. SenseTypes' /\ SenseRingIsQueue' /\ raised' = TRUE
    BY <1>4, RaiseStep, KeyFacts DEF IInv, Types, SenseTypes
  <2>2. /\ botState' = "IDLE" /\ out' = "cbw" /\ inStall' = FALSE
        /\ tx' = CswTx("failed", residue)
    BY <1>1, <1>4 DEF SendCSW, Transmit
  <2>3. tx' \in Txs /\ tx'.kind = "csw" /\ tx'.residue = residue
    BY <1>3, <2>2, NoTxFacts
  <2>4. EndpointTypes'
    BY <2>2, <2>3 DEF EndpointTypes
  <2>5. BotTypes'
    BY <1>1, <1>4, <2>2 DEF BotTypes, IInv, Types, blkVars
  <2>6. AcceptedInRange'
    BY <2>2 DEF AcceptedInRange
  <2>7. Shape'
    BY <1>1, <1>2, <1>3, <2>1, <2>2, <2>3, <1>4
       DEF Shape, Idle, Answering, Reading, Writing, Status, ResidueAccounts, Straight
  <2> QED
    BY <1>2, <2>1, <2>4, <2>5, <2>6, <2>7 DEF IInv, Types
<1>5. CASE /\ blkAddr + blkLen <= Capacity
           /\ Transmit(tx, DataTx(blkLen * BlkSize, [op |-> "read", key |-> NoKey]))
           /\ blkAddr' = blkAddr + blkLen /\ blkLen' = 0
           /\ residue' = Minus(residue, blkLen * BlkSize)
           /\ botState' = "LAST_DATA_IN"
           /\ UNCHANGED <<blkNbr, senseVars, out>>
  <2>1. hcmd.want = blkLen * BlkSize /\ (hcmd.want = 0 => hcmd.n = 0) /\ blkLen * BlkSize \in 0 .. BlkSize
    <3>1. CASE blkLen = 0
      BY <1>1, <3>1, SizeFacts DEF Bytes
    <3>2. CASE blkLen = 1
      <4>1. blkNbr # 0
        BY <1>1, <1>3, <1>5, <3>2, SizeFacts DEF InRange, Plus
      <4> QED
        BY <1>1, <3>2, <4>1, SizeFacts DEF Bytes
    <3> QED
      BY <1>3, <3>1, <3>2
  <2>2. residue' = 0
    BY <1>1, <1>3, <1>5, <2>1, MinusFacts
  <2>3. [op |-> "read", key |-> NoKey] \in Answers
    BY AnswerFacts DEF Ops, Stored
  <2>4. /\ tx' = DataTx(blkLen * BlkSize, [op |-> "read", key |-> NoKey]) /\ inStall' = FALSE
    BY <1>1, <1>5 DEF Transmit
  <2>5. tx' \in Txs /\ tx'.kind = "data" /\ tx'.size = hcmd.want /\ tx'.data.op = "read"
    BY <2>1, <2>3, <2>4, TxFacts
  <2>6. EndpointTypes'
    BY <1>1, <1>5, <2>4, <2>5 DEF EndpointTypes
  <2>7. BotTypes'
    <3>1. /\ botStatus \in {"NORMAL", "RECOVERY", "ERROR"} /\ dataLen \in 0 .. BlkSize
          /\ botData \in Answers /\ capOk \in BOOLEAN
      BY DEF IInv, Types, BotTypes
    <3>2. blkAddr' \in 0 .. Wrap - 1 /\ blkLen' \in {0, 1} /\ residue' \in 0 .. Wrap - 1
      BY <1>3, <1>5, <2>2, SizeFacts
    <3> QED
      BY <1>1, <1>3, <1>5, <3>1, <3>2 DEF BotTypes
  <2>8. SenseTypes' /\ SenseRingIsQueue' /\ raised' = raised
    BY <1>5 DEF senseVars, IInv, Types, SenseTypes, SenseRingIsQueue
  <2>9. AcceptedInRange'
    BY <1>5 DEF AcceptedInRange
  <2>10. Shape'
    <3>1. Idle' /\ Answering' /\ Writing'
      BY <1>1, <1>5, <2>5 DEF Idle, Answering, Writing
    <3>2. Reading'
      BY <1>1, <1>5, <2>1, <2>2, <2>4, <2>5, <2>8 DEF Reading
    <3>3. Status' /\ Straight'
      BY <1>1, <1>5, <2>5 DEF Status, ResidueAccounts, Straight
    <3> QED
      BY <1>2, <3>1, <3>2, <3>3 DEF Shape
  <2> QED
    BY <1>2, <2>6, <2>7, <2>8, <2>9, <2>10 DEF IInv, Types
<1> QED
  BY <1>4, <1>5 DEF TaskRead

LEMMA TaskWriteStep == ASSUME IInv, TaskWrite PROVE IInv'
<1>1. /\ pipe = "write" /\ pipe' = "none" /\ UNCHANGED <<hphase, hcmd, hsent, hgot>>
      /\ UNCHANGED <<botStatus, dataLen, botData, capOk>>
      /\ botState = "DATA_OUT" /\ out = "none" /\ hphase = "csw" /\ tx.kind = "none" /\ ~raised
      /\ hcmd.op = "write" /\ hcmd.dir = "out"
  BY DEF TaskWrite, hostVars, answerVars, IInv, Shape, Writing
<1>2. HostTypes' /\ Asked'
  BY <1>1 DEF HostTypes, Asked, IInv, Types, Shape
<1>3. /\ blkNbr \in {0, Capacity} /\ blkAddr \in 0 .. Wrap - 1 /\ blkLen \in {0, 1}
      /\ residue \in 0 .. Wrap - 1 /\ blkLen * BlkSize \in 0 .. BlkSize
  BY SizeFacts DEF IInv, Types, BotTypes
<1>4. /\ SenseTypes' /\ SenseRingIsQueue'
      /\ residue' \in 0 .. Wrap - 1 /\ blkNbr' = blkNbr /\ blkAddr' \in 0 .. Wrap - 1
      /\ blkLen' \in {0, 1} /\ \E st \in {"passed", "failed"} : SendCSW(tx, st, residue')
  <2>1. CASE Raise(sense, "HARDWARE_ERROR") /\ SendCSW(tx, "failed", residue)
             /\ UNCHANGED <<residue, blkVars, spilled>>
    <3>1. SenseTypes' /\ SenseRingIsQueue'
      BY <2>1, RaiseStep, KeyFacts DEF IInv, Types, SenseTypes
    <3> QED
      BY <1>3, <2>1, <3>1 DEF blkVars
  <2>2. CASE /\ blkAddr + blkLen <= Capacity
             /\ blkAddr' = blkAddr + blkLen /\ blkLen' = 0
             /\ residue' = Minus(residue, blkLen * BlkSize)
             /\ SendCSW(tx, "passed", residue')
             /\ UNCHANGED <<blkNbr, senseVars>>
    <3>1. SenseTypes' /\ SenseRingIsQueue'
      BY <2>2 DEF senseVars, IInv, Types, SenseTypes, SenseRingIsQueue
    <3>2. residue' \in 0 .. Wrap - 1
      BY <1>3, <2>2, MinusFacts
    <3> QED
      BY <1>3, <2>2, <3>1, <3>2, SizeFacts
  <2> QED
    BY <2>1, <2>2 DEF TaskWrite
<1>5. PICK st \in {"passed", "failed"} : SendCSW(tx, st, residue')
  BY <1>4
<1>6. botState' = "IDLE" /\ out' = "cbw" /\ inStall' = FALSE /\ tx' = CswTx(st, residue')
  BY <1>1, <1>5 DEF SendCSW, Transmit
<1>7. tx' \in Txs /\ tx'.kind = "csw"
  BY <1>4, <1>6, NoTxFacts
<1>8. EndpointTypes'
  BY <1>6, <1>7 DEF EndpointTypes
<1>9. BotTypes'
  <2>1. /\ botStatus \in {"NORMAL", "RECOVERY", "ERROR"} /\ dataLen \in 0 .. BlkSize
        /\ botData \in Answers /\ capOk \in BOOLEAN
    BY DEF IInv, Types, BotTypes
  <2> QED
    BY <1>1, <1>3, <1>4, <1>6, <2>1 DEF BotTypes
<1>10. AcceptedInRange'
  BY <1>6 DEF AcceptedInRange
<1>11. Shape'
  BY <1>1, <1>2, <1>6, <1>7
     DEF Shape, Idle, Answering, Reading, Writing, Status, ResidueAccounts, Straight
<1> QED
  BY <1>2, <1>4, <1>8, <1>9, <1>10, <1>11 DEF IInv, Types

-----------------------------------------------------------------------------
(* The wire                                                                *)

LEMMA OutDataStep == ASSUME IInv, OutData PROVE IInv'
<1>1. /\ hphase = "dataout" /\ out = "data" /\ hphase' = "csw" /\ hsent' = hcmd.want /\ out' = "none"
      /\ pipe' = "write"
      /\ UNCHANGED <<hcmd, hgot, botState, botStatus, dataLen, botData, residue, blkNbr, blkAddr,
                     blkLen, sense, head, tail, unread, raised, spilled, capOk, tx, inStall>>
  BY DEF OutData, answerVars, blkVars, senseVars
<1>2. /\ botState = "DATA_OUT" /\ tx.kind = "none" /\ ~raised /\ hcmd.op = "write"
      /\ hcmd.dir = "out" /\ hcmd \in Commands
  BY <1>1 DEF IInv, Shape, Writing, Asked
<1>3. hcmd.want \in Nat
  BY <1>2, CommandFacts
<1>4. HostTypes' /\ BotTypes' /\ EndpointTypes'
  BY <1>1, <1>3 DEF IInv, Types, HostTypes, BotTypes, EndpointTypes
<1>5. SenseTypes' /\ SenseRingIsQueue' /\ AcceptedInRange'
  BY <1>1 DEF IInv, Types, SenseTypes, SenseRingIsQueue, AcceptedInRange
<1>6. Shape'
  BY <1>1, <1>2
     DEF Shape, Asked, Idle, Answering, Reading, Writing, Status, ResidueAccounts, Straight
<1> QED
  BY <1>4, <1>5, <1>6 DEF IInv, Types

LEMMA OutSpillStep == ASSUME IInv, OutSpill PROVE IInv'
<1>1. /\ hphase = "dataout" /\ out = "cbw" /\ hsent' = hsent + Packet
      /\ hphase' \in {"csw", "dataout"} /\ UNCHANGED <<hcmd, hgot>>
      /\ Raise(Spill(sense), "ILLEGAL_REQUEST") /\ spilled' = TRUE /\ botStatus' = "ERROR"
      /\ inStall' = TRUE /\ out' = "cbw"
      /\ UNCHANGED <<botState, dataLen, botData, residue, blkNbr, blkAddr, blkLen, capOk, pipe, tx>>
  BY DEF OutSpill, BadCbw, Abort, answerVars, blkVars
<1>2. /\ botState = "IDLE" /\ tx.kind # "data" /\ pipe = "none" /\ hcmd.dir = "out"
      /\ hcmd.want > 0 /\ hcmd \in Commands
  BY <1>1 DEF IInv, Shape, Idle, Asked
<1>3. Spill(sense) \in [0 .. Depth - 1 -> Stored]
  BY DEF Spill, Stored, IInv, Types, SenseTypes
<1>4. SenseTypes' /\ SenseRingIsQueue' /\ raised' = TRUE
  BY <1>1, <1>3, RaiseStep, KeyFacts DEF IInv, Types
<1>5. HostTypes' /\ BotTypes' /\ EndpointTypes'
  BY <1>1, SizeFacts DEF IInv, Types, HostTypes, BotTypes, EndpointTypes
<1>6. AcceptedInRange'
  BY <1>1, <1>2 DEF AcceptedInRange
<1>7. Shape'
  BY <1>1, <1>2, <1>4
     DEF IInv, Shape, Asked, Idle, Answering, Reading, Writing, Status, ResidueAccounts, Straight
<1> QED
  BY <1>4, <1>5, <1>6, <1>7 DEF IInv, Types

(* EP IN holds an answer or the blocks of a READ: the host takes all of    *)
(* them, or, when it expected none, is confused by an empty packet.        *)
LEMMA InDataStep == ASSUME IInv, InData PROVE IInv'
<1>1. /\ hphase \in {"datain", "csw"} /\ tx.kind = "data" /\ ~inStall
      /\ UNCHANGED <<hcmd, hsent, botStatus, dataLen, botData, residue, blkNbr, blkAddr, blkLen,
                     sense, head, tail, unread, raised, spilled, capOk, pipe>>
      /\ InBytes \/ InStray
  BY DEF InData, answerVars, blkVars, senseVars
<1>2. /\ hcmd \in Commands /\ hcmd.want \in 0 .. Wrap - 1 /\ residue \in 0 .. Wrap - 1
      /\ tx.size \in 0 .. BlkSize
  <2>1. hcmd \in Commands
    BY <1>1 DEF IInv, Shape, Asked
  <2> QED
    BY <2>1, CommandFacts DEF IInv, Types, BotTypes, EndpointTypes, Txs
<1>3. botState \in {"SEND_DATA", "LAST_DATA_IN"}
  BY <1>1 DEF IInv, Shape, Idle, Reading, Writing, Types, BotTypes
<1>4. /\ pipe = "none" /\ hgot = 0 /\ (hphase = "csw" <=> hcmd.want = 0) /\ tx.size <= hcmd.want
      /\ hcmd.want > 0 => tx.size > 0
  BY <1>1, <1>2, <1>3 DEF IInv, Shape, Answering, Reading
<1>5. /\ \/ residue = hcmd.want - tx.size
         \/ tx.size = hcmd.want /\ (hcmd.want > 0 => residue > Wrap - BlkSize)
      /\ ~raised => \/ tx.size < Packet
                    \/ tx.size = hcmd.want
      /\ ~raised /\ hphase = "csw" => OddTransfer
  BY <1>1, <1>2, <1>3 DEF IInv, Shape, Answering, Reading, OddTransfer
<1>6. /\ hphase' \in {"csw", "datain", "confused"} /\ hgot' \in 0 .. hcmd.want
      /\ hphase' = "datain" => hphase = "datain"
      /\ hphase' # "confused" => hgot' = tx.size /\ hphase = "datain"
      /\ ~raised /\ ~OddTransfer => hphase' = "csw"
      /\ DataIn
  <2>1. CASE InBytes
    <3>1. /\ hphase = "datain" /\ hgot' = tx.size /\ DataIn
          /\ hphase' = IF hgot' = hcmd.want \/ tx.size % Packet # 0 THEN "csw" ELSE "datain"
      BY <1>2, <1>4, <2>1 DEF InBytes
    <3>2. tx.size < Packet /\ tx.size > 0 => tx.size % Packet # 0
      BY <1>2, SizeFacts
    <3> QED
      BY <1>2, <1>4, <1>5, <3>1, <3>2
  <2>2. CASE InStray
    <3>1. hphase = "csw" /\ tx.size = 0
      BY <1>1, <1>2, <1>4, <2>2 DEF InStray
    <3> QED
      BY <1>1, <1>2, <1>4, <1>5, <2>2, <3>1 DEF InStray
  <2> QED
    BY <1>1, <2>1, <2>2
<1>7. /\ botState' = "IDLE" /\ out' = "cbw" /\ inStall' = FALSE /\ tx' = CswTx("passed", residue)
  BY <1>1, <1>3, <1>6, NoTxFacts DEF DataIn, SendCSW, Transmit
<1>8. tx' \in Txs /\ tx'.kind = "csw" /\ tx'.residue = residue
  BY <1>2, <1>7, NoTxFacts
<1>9. EndpointTypes'
  BY <1>7, <1>8 DEF EndpointTypes
<1>10. HostTypes'
  BY <1>1, <1>6 DEF HostTypes, IInv, Types
<1>11. BotTypes' /\ SenseTypes' /\ SenseRingIsQueue' /\ AcceptedInRange'
  <2>1. BotTypes'
    BY <1>1, <1>7 DEF BotTypes, IInv, Types
  <2>2. SenseTypes' /\ SenseRingIsQueue'
    BY <1>1 DEF SenseTypes, SenseRingIsQueue, IInv, Types
  <2>3. AcceptedInRange'
    BY <1>7 DEF AcceptedInRange
  <2> QED
    BY <2>1, <2>2, <2>3
<1>12. Asked'
  BY <1>1, <1>2, <1>6 DEF Asked, IInv, Shape
<1>13. Idle' /\ Answering' /\ Reading' /\ Writing'
  BY <1>1, <1>4, <1>6, <1>7, <1>8 DEF Idle, Answering, Reading, Writing
<1>14. ResidueAccounts'
  BY <1>1, <1>2, <1>4, <1>5, <1>6, <1>8 DEF ResidueAccounts
<1>15. Status' /\ Straight'
  BY <1>1, <1>6, <1>7, <1>8, <1>14 DEF Status, Straight, OddTransfer
<1> QED
  BY <1>9, <1>10, <1>11, <1>12, <1>13, <1>15 DEF IInv, Types, Shape

(* However a command ends, the device is back where it takes another.      *)
LEMMA OverStep ==
  ASSUME CommandOver, botState' = "IDLE", out' = "cbw", pipe' = "none", tx'.kind = "none"
  PROVE  HostTypes' /\ AcceptedInRange' /\ Shape'
<1>1. /\ hphase' = "idle" /\ hcmd' = NoCommand /\ hsent' = 0 /\ hgot' = 0 /\ raised' = FALSE
  BY DEF CommandOver
<1>2. HostTypes'
  BY <1>1 DEF HostTypes, NoCommand
<1>3. AcceptedInRange'
  BY DEF AcceptedInRange
<1>4. Shape'
  BY <1>1
     DEF Shape, Asked, Idle, Answering, Reading, Writing, Status, ResidueAccounts, Straight
<1> QED
  BY <1>2, <1>3, <1>4

LEMMA InCswStep == ASSUME IInv, InCsw PROVE IInv'
<1>1. /\ hphase \in {"datain", "csw"} /\ tx.kind = "csw" /\ ~inStall
      /\ UNCHANGED <<botStatus, dataLen, botData, residue, blkNbr, blkAddr, blkLen, sense, head,
                     tail, unread, spilled, capOk, pipe>>
  BY DEF InCsw, answerVars, blkVars
<1>2. botState = "IDLE" /\ out = "cbw" /\ pipe = "none"
  BY <1>1 DEF IInv, Shape, Status, Idle
<1>3. CASE /\ hphase = "datain" /\ hphase' = "confused"
           /\ UNCHANGED <<hcmd, hsent, hgot, raised, botState, out, tx, inStall>>
  <2>1. HostTypes' /\ BotTypes' /\ EndpointTypes'
    BY <1>1, <1>3 DEF IInv, Types, HostTypes, BotTypes, EndpointTypes
  <2>2. SenseTypes' /\ SenseRingIsQueue' /\ AcceptedInRange'
    BY <1>1, <1>2, <1>3 DEF IInv, Types, SenseTypes, SenseRingIsQueue, AcceptedInRange
  <2>3. raised \/ OddTransfer
    BY <1>2, <1>3 DEF IInv, Shape, Straight
  <2>4. Shape'
    BY <1>1, <1>2, <1>3, <2>3
       DEF IInv, Shape, Asked, Idle, Answering, Reading, Writing, Status, ResidueAccounts,
           Straight, OddTransfer
  <2> QED
    BY <2>1, <2>2, <2>4 DEF IInv, Types
<1>4. CASE CommandOver /\ DataIn
  <2>1. tx' = NoTx /\ botState' = "IDLE" /\ out' = "cbw" /\ pipe' = "none" /\ UNCHANGED inStall
    BY <1>1, <1>2, <1>4 DEF DataIn
  <2>2. HostTypes' /\ AcceptedInRange' /\ Shape'
    BY <1>4, <2>1, NoTxFacts, OverStep
  <2>3. BotTypes' /\ EndpointTypes'
    BY <1>1, <2>1, NoTxFacts DEF IInv, Types, BotTypes, EndpointTypes
  <2>4. SenseTypes' /\ SenseRingIsQueue'
    BY <1>1, <1>4 DEF IInv, Types, SenseTypes, SenseRingIsQueue, CommandOver
  <2> QED
    BY <2>2, <2>3, <2>4 DEF IInv, Types
<1> QED
  BY <1>3, <1>4 DEF InCsw

-----------------------------------------------------------------------------
(* Resets                                                                  *)

LEMMA HostResetStep == ASSUME IInv, HostReset PROVE IInv'
<1>1. /\ tx.kind = "none" /\ CommandOver /\ botState' = "IDLE" /\ botStatus' = "RECOVERY"
      /\ pipe' = "none" /\ out' = "cbw"
      /\ UNCHANGED <<dataLen, botData, residue, blkNbr, blkAddr, blkLen, sense, head, tail,
                     unread, spilled, capOk, tx, inStall>>
  BY DEF HostReset, ResetOut, answerVars, blkVars
<1>2. HostTypes' /\ AcceptedInRange' /\ Shape'
  BY <1>1, OverStep
<1>3. BotTypes' /\ EndpointTypes'
  BY <1>1 DEF IInv, Types, BotTypes, EndpointTypes
<1>4. SenseTypes' /\ SenseRingIsQueue'
  BY <1>1 DEF IInv, Types, SenseTypes, SenseRingIsQueue, CommandOver
<1> QED
  BY <1>2, <1>3, <1>4 DEF IInv, Types

LEMMA HostReconfigureStep == ASSUME IInv, HostReconfigure PROVE IInv'
<1>1. /\ CommandOver /\ botState' = "IDLE" /\ botStatus' = "NORMAL" /\ out' = "cbw"
      /\ head' = 0 /\ tail' = 0 /\ unread' = <<>> /\ spilled' = FALSE
      /\ tx' = NoTx /\ inStall' = FALSE
      /\ UNCHANGED <<dataLen, botData, residue, blkNbr, blkAddr, blkLen, sense, capOk, pipe>>
  BY DEF HostReconfigure, answerVars, blkVars
<1>2. pipe' = "none"
  BY <1>1 DEF HostReconfigure, Quiet
<1>3. HostTypes' /\ AcceptedInRange' /\ Shape'
  BY <1>1, <1>2, NoTxFacts, OverStep
<1>4. BotTypes' /\ EndpointTypes'
  BY <1>1, <1>2, NoTxFacts DEF IInv, Types, BotTypes, EndpointTypes
<1>5. unread' \in Seq(Keys) /\ Len(unread') = 0
  BY <1>1, EmptySeq
<1>6. SenseTypes'
  <2>1. sense' \in [0 .. Depth - 1 -> Stored] /\ raised' = FALSE /\ 0 \in 0 .. Depth - 1
    BY <1>1, SizeFacts DEF IInv, Types, SenseTypes, CommandOver
  <2> QED
    BY <1>1, <1>5, <2>1 DEF SenseTypes
<1>7. SenseRingIsQueue'
  BY <1>1, <1>5, SizeFacts DEF SenseRingIsQueue, Slot
<1> QED
  BY <1>3, <1>4, <1>6, <1>7 DEF IInv, Types

-----------------------------------------------------------------------------
(* The theorems                                                            *)

LEMMA NextPreserves == ASSUME IInv, [Next]_vars PROVE IInv'
<1>1. CASE Next
  <2>1. ASSUME HostIssue PROVE IInv'
    BY <2>1, HostIssueStep
  <2>2. ASSUME Wire PROVE IInv'
    BY <2>2, OutDataStep, OutSpillStep, InDataStep, InCswStep DEF Wire
  <2>3. ASSUME Task PROVE IInv'
    BY <2>3, TaskReadStep, TaskWriteStep DEF Task
  <2>4. ASSUME HostReset PROVE IInv'
    BY <2>4, HostResetStep
  <2>5. ASSUME HostReconfigure PROVE IInv'
    BY <2>5, HostReconfigureStep
  <2> QED
    BY <1>1, <2>1, <2>2, <2>3, <2>4, <2>5 DEF Next
<1>2. CASE UNCHANGED vars
  <2>1. UNCHANGED <<hphase, hcmd, hsent, hgot, botState, botStatus, dataLen, botData, residue,
                    blkNbr, blkAddr, blkLen, sense, head, tail, unread, raised, spilled, capOk,
                    pipe, out, tx, inStall>>
    BY <1>2 DEF vars, hostVars, answerVars, blkVars, senseVars
  <2>2. Types' /\ SenseRingIsQueue' /\ AcceptedInRange'
    BY <2>1 DEF IInv, Types, HostTypes, BotTypes, SenseTypes, EndpointTypes, SenseRingIsQueue,
                AcceptedInRange
  <2>3. Asked' /\ Idle' /\ Writing' /\ Status' /\ Straight'
    BY <2>1 DEF IInv, Shape, Asked, Idle, Writing, Status, ResidueAccounts, Straight, OddTransfer
  <2>4. Answering' /\ Reading'
    BY <2>1 DEF IInv, Shape, Answering, Reading, Bytes, InRange
  <2> QED
    BY <2>2, <2>3, <2>4 DEF IInv, Shape
<1> QED
  BY <1>1, <1>2

(* The invariant of the command level: what the host, the Bulk-Only state, *)
(* the endpoints, the pipeline item and the sense ring have to do with     *)
(* each other, from the first command on, whatever was refused or reset.   *)
THEOREM ScsiInvariant == Spec => []IInv
<1>1. Init => IInv
  BY InitEstablishes
<1>2. IInv /\ [Next]_vars => IInv'
  BY NextPreserves
<1> QED
  BY <1>1, <1>2, PTL DEF Spec

(* Every variable of the command level keeps the values its C type and its *)
(* handlers give it.                                                       *)
THEOREM TypeCorrect == Spec => []TypeOK
<1>1. IInv => TypeOK
  BY DEF IInv, Types, HostTypes, BotTypes, SenseTypes, EndpointTypes, Txs, TypeOK
<1> QED
  BY <1>1, ScsiInvariant, PTL

(* Between two commands the device is always ready for a CBW.              *)
THEOREM AlwaysReady == Spec => []ReadyForCbw
<1>1. IInv => ReadyForCbw
  BY DEF IInv, Shape, Idle, ReadyForCbw
<1> QED
  BY <1>1, ScsiInvariant, PTL

(* SCSI_SenseCode and SCSI_RequestSense keep a queue, whose Depth-th entry *)
(* empties it, for every depth of the ring.                                *)
THEOREM SensesQueued == Spec => []SenseRingIsQueue
<1>1. IInv => SenseRingIsQueue
  BY DEF IInv
<1> QED
  BY <1>1, ScsiInvariant, PTL

(* SCSI_CheckAddressRange lets nothing past the end of the card through    *)
(* but a sum that wraps, for every size of the card.                       *)
THEOREM RangeChecked == Spec => []AcceptedInRange
<1>1. IInv => AcceptedInRange
  BY DEF IInv
<1> QED
  BY <1>1, ScsiInvariant, PTL

(* The residue of a status is right, or has wrapped, for every set of      *)
(* commands and allocation lengths.                                        *)
THEOREM ResidueTold == Spec => []ResidueAccounts
<1>1. IInv => ResidueAccounts
  BY DEF IInv, Shape, Status
<1> QED
  BY <1>1, ScsiInvariant, PTL

(* A command that is not refused is answered with its own data.            *)
THEOREM OwnAnswer == Spec => []AnswerBelongs
<1>1. IInv => AnswerBelongs
  BY DEF IInv, Shape, Idle, Answering, Reading, Writing, Types, BotTypes, AnswerBelongs
<1> QED
  BY <1>1, ScsiInvariant, PTL

(* Nothing but a refusal, and a transfer of nothing or past 2^32, can stop *)
(* the device or confuse the host.                                         *)
THEOREM HangsExplained == Spec => []OnlyRefusalsHang
<1>1. ASSUME IInv, Quiet, hphase # "idle", ~raised, ~OddTransfer
      PROVE  FALSE
  <2>1. /\ hphase # "confused" /\ (hphase = "dataout" => out = "data")
        /\ botState = "IDLE" => tx.kind = "csw" /\ ~inStall /\ hphase = "csw"
        /\ botState = "DATA_IN" => pipe = "read"
    BY <1>1 DEF IInv, Shape, Straight
  <2>2. /\ pipe = "none" /\ ~(hphase = "dataout" /\ out \in {"cbw", "data"})
        /\ tx.kind = "none" \/ inStall \/ hphase \in {"confused", "dataout"}
    BY <1>1 DEF Quiet
  <2>3. hphase # "dataout"
    BY <2>1, <2>2
  <2>4. botState \in {"SEND_DATA", "LAST_DATA_IN"} => tx.kind = "data" /\ ~inStall
    BY <1>1 DEF IInv, Shape, Answering, Reading
  <2>5. botState = "DATA_OUT" => out = "data" \/ pipe = "write"
    BY <1>1 DEF IInv, Shape, Writing
  <2>6. out = "data" => hphase = "dataout" \/ OddTransfer
    BY <1>1 DEF IInv, Shape, Writing
  <2> QED
    BY <1>1, <2>1, <2>2, <2>3, <2>4, <2>5, <2>6 DEF IInv, Types, BotTypes
<1>2. IInv => OnlyRefusalsHang
  BY <1>1 DEF OnlyRefusalsHang
<1> QED
  BY <1>2, ScsiInvariant, PTL
=============================================================================

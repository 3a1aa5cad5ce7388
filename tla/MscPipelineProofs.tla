------------------------- MODULE MscPipelineProofs -------------------------
(***************************************************************************)
(* Proofs about MscPipeline, for every card size, chunk size, queue depth, *)
(* set of commands and block contents.                                     *)
(***************************************************************************)
EXTENDS MscPipeline, SequenceTheorems, TLAPS

(* What a host may ask for: a transfer that fits the card.                 *)
LEMMA CommandFacts ==
  ASSUME NEW c \in Commands
  PROVE  /\ c.op \in {"read", "write", "test"} /\ c.lba \in Blocks
         /\ c.n \in 0 .. NumBlocks /\ c.n < LenMod /\ c.lba + c.n <= NumBlocks
         /\ c.op = "test" => c.n = 0
         /\ c.op # "test" => c.n >= 1
         /\ c.op = "write" => c.data \in Seq(Data) /\ Len(c.data) = c.n
  BY CommandsAssumption, SizesAssumption DEF Blocks

LEMMA ChunkFacts ==
  ASSUME NEW n \in Nat
  PROVE  /\ Chunk(n) \in 0 .. Stream /\ Chunk(n) <= n
         /\ n > 0 => Chunk(n) > 0
         /\ Chunk(n) = n \/ Chunk(n) = Stream
         /\ Chunk(n) < n => Chunk(n) = Stream
  BY SizesAssumption DEF Chunk, Least

LEMMA MinusFacts ==
  ASSUME NEW a \in 0 .. LenMod - 1, NEW b \in 0 .. Stream
  PROVE  Minus(a, b) \in 0 .. LenMod - 1 /\ (b <= a => Minus(a, b) = a - b)
  BY SizesAssumption DEF Minus

(* The parts of TypeOK that the shared steps of the handlers re-establish. *)
LEMMA SignalTypes ==
  ASSUME NEW op \in {"read", "write"}, NEW b \in BufIds,
         q \in Seq(SigItems), Len(q) <= QDepth, Signal(op, b)
  PROVE  q' \in Seq(SigItems) /\ Len(q') <= QDepth
<1>1. [op |-> op, buf |-> b] \in SigItems
  BY DEF SigItems
<1>2. /\ Append(q, [op |-> op, buf |-> b]) \in Seq(SigItems)
      /\ Len(Append(q, [op |-> op, buf |-> b])) = Len(q) + 1
  BY <1>1
<1>3. Len(q) \in Nat /\ QDepth \in Nat
  BY SizesAssumption
<1> QED
  BY <1>2, <1>3 DEF Signal

LEMMA RxFacts ==
  /\ RxOK(ArmCbw)
  /\ \A b \in BufIds, n \in 0 .. Stream : RxOK(Arm(b, n))
  /\ \A r : RxOK(r) => RxOK(Disarmed(r))
<1>1. RxOK(ArmCbw)
  BY SizesAssumption DEF RxOK, ArmCbw, Arm, Cbw
<1>2. ASSUME NEW b \in BufIds, NEW n \in 0 .. Stream
      PROVE  RxOK(Arm(b, n))
  BY SizesAssumption DEF RxOK, Arm
<1>3. ASSUME NEW r, RxOK(r)
      PROVE  RxOK(Disarmed(r))
  BY <1>3 DEF RxOK, Disarmed
<1> QED
  BY <1>1, <1>2, <1>3

LEMMA TxFacts ==
  /\ TxOK(NoTx)
  /\ \A b \in BufIds, n \in 0 .. Stream : TxOK(DataTx(b, n))
  /\ \A st \in {"passed", "failed"}, t \in Tags, r \in 0 .. LenMod - 1 : TxOK(CswTx(st, t, r))
<1>1. 0 \in BufIds /\ 0 \in 0 .. Stream /\ 0 \in Tags /\ 0 \in 0 .. LenMod - 1
  BY SizesAssumption DEF BufIds, Tags
<1>2. TxOK(NoTx)
  BY <1>1 DEF TxOK, NoTx
<1>3. ASSUME NEW b \in BufIds, NEW n \in 0 .. Stream
      PROVE  TxOK(DataTx(b, n))
  BY <1>1 DEF TxOK, NoTx, DataTx
<1>4. ASSUME NEW st \in {"passed", "failed"}, NEW t \in Tags, NEW r \in 0 .. LenMod - 1
      PROVE  TxOK(CswTx(st, t, r))
  BY <1>1, <1>4 DEF TxOK, NoTx, CswTx
<1> QED
  BY <1>2, <1>3, <1>4

LEMMA SendCswTypes ==
  ASSUME NEW t, TxOK(t), inStall \in BOOLEAN,
         NEW st \in {"passed", "failed"}, NEW tag \in Tags, NEW r \in 0 .. LenMod - 1,
         SendCSW(t, st, tag, r)
  PROVE  botState' = "IDLE" /\ RxOK(rx') /\ TxOK(tx') /\ inStall' \in BOOLEAN
  BY RxFacts, TxFacts DEF SendCSW, Transmit

Cbws == [cmd : Commands, tag : Tags, ok : BOOLEAN]

LEMMA CbwDecodeTypes ==
  ASSUME HmscTypes, PipeTypes, EndpointTypes,
         NEW cbwLen \in BOOLEAN, NEW c \in Cbws, CbwDecode(cbwLen, c)
  PROVE  HmscTypes' /\ PipeTypes' /\ EndpointTypes'
<1> USE DEF HmscTypes, PipeTypes, EndpointTypes, Cbws
<1>0. c.cmd \in Commands /\ c.tag \in Tags
  OBVIOUS
<1>1. /\ c.cmd.n \in 0 .. NumBlocks /\ c.cmd.n \in 0 .. LenMod - 1
      /\ c.cmd.lba \in Nat /\ Chunk(c.cmd.n) \in 0 .. Stream
      /\ c.cmd.op \in {"read", "write", "test"}
  <2>1. c.cmd.n \in 0 .. NumBlocks /\ c.cmd.lba \in Blocks /\ c.cmd.n < LenMod
        /\ c.cmd.op \in {"read", "write", "test"}
    BY <1>0, CommandFacts
  <2>2. Chunk(c.cmd.n) \in 0 .. Stream
    BY <2>1, SizesAssumption DEF Chunk, Least
  <2>3. c.cmd.n \in 0 .. LenMod - 1 /\ c.cmd.lba \in Nat
    BY <2>1, SizesAssumption DEF Blocks
  <2> QED
    BY <2>1, <2>2, <2>3
<1>2. cbw' \in Cbws /\ cswTag' \in Tags /\ residue' \in 0 .. LenMod - 1
  BY <1>0, <1>1 DEF CbwDecode
<1>3. CASE ~(cbwLen /\ c.ok)
  BY <1>1, <1>2, <1>3, RxFacts DEF CbwDecode
<1>4. CASE cbwLen /\ c.ok /\ c.cmd.op = "test"
  <2>1. SendCSW(tx, "passed", c.tag, c.cmd.n)
    BY <1>4 DEF CbwDecode
  <2>2. botState' = "IDLE" /\ RxOK(rx') /\ TxOK(tx') /\ inStall' \in BOOLEAN
    BY <1>0, <1>1, <2>1, SendCswTypes
  <2> QED
    BY <1>2, <1>4, <2>2 DEF CbwDecode
<1>5. CASE cbwLen /\ c.ok /\ c.cmd.op = "read"
  <2>1. q' \in Seq(SigItems) /\ Len(q') <= QDepth
    BY <1>5, SignalTypes DEF CbwDecode, Read10, BufIds
  <2>2. RxOK(rx')
    BY <1>5, RxFacts DEF CbwDecode, Read10
  <2>3. sIdx' = 0 /\ rdPend' = FALSE /\ rdFailed' = FALSE /\ rdBuf' = rdBuf
    BY <1>5 DEF CbwDecode, Read10
  <2>4. PipeTypes'
    <3>1. sIdx' \in BufIds /\ rdBuf' \in BufIds
      BY <2>3 DEF BufIds
    <3> QED
      BY <2>1, <2>3, <3>1, Zenon
  <2> QED
    BY <1>1, <1>2, <1>5, <2>2, <2>4 DEF CbwDecode, Read10
<1>6. CASE cbwLen /\ c.ok /\ c.cmd.op = "write"
  BY <1>1, <1>2, <1>6, RxFacts DEF CbwDecode, Write10, BufIds
<1> QED
  BY <1>1, <1>3, <1>4, <1>5, <1>6

LEMMA DataOutTypes ==
  ASSUME HmscTypes, PipeTypes, EndpointTypes,
         NEW cbwLen \in BOOLEAN, NEW c \in Cbws, DataOut(cbwLen, c)
  PROVE  HmscTypes' /\ PipeTypes' /\ EndpointTypes'
<1>1. CASE botState = "IDLE"
  BY <1>1, CbwDecodeTypes DEF DataOut
<1>2. CASE botState = "DATA_OUT"
  <2>1. q' \in Seq(SigItems) /\ Len(q') <= QDepth
    BY <1>2, SignalTypes DEF DataOut, PipeTypes
  <2> QED
    BY <1>2, <2>1, RxFacts DEF DataOut, Cbws, HmscTypes, PipeTypes, EndpointTypes
<1>3. CASE botState \notin {"IDLE", "DATA_OUT"}
  BY <1>3, RxFacts DEF DataOut, Cbws, HmscTypes, PipeTypes, EndpointTypes, pipeVars
<1> QED
  BY <1>1, <1>2, <1>3

LEMMA DataInTypes ==
  ASSUME HmscTypes, PipeTypes, EndpointTypes, DataIn
  PROVE  HmscTypes' /\ PipeTypes' /\ EndpointTypes'
<1> USE DEF HmscTypes, PipeTypes, EndpointTypes
<1>1. CASE botState = "DATA_IN"
  <2>1. q' \in Seq(SigItems) /\ Len(q') <= QDepth
    BY <1>1, SignalTypes DEF DataIn
  <2> QED
    BY <1>1, <2>1, TxFacts DEF DataIn, hmscVars
<1>2. CASE botState = "LAST_DATA_IN"
  <2>1. SendCSW(NoTx, "passed", cswTag, residue)
    BY <1>2 DEF DataIn
  <2>2. botState' = "IDLE" /\ RxOK(rx') /\ TxOK(tx') /\ inStall' \in BOOLEAN
    BY <2>1, SendCswTypes, TxFacts
  <2> QED
    BY <1>2, <2>2 DEF DataIn, pipeVars
<1>3. CASE botState \in {"IDLE", "DATA_OUT"}
  BY <1>3, TxFacts DEF DataIn, hmscVars, pipeVars
<1> QED
  BY <1>1, <1>2, <1>3

-----------------------------------------------------------------------------
(* Type correctness                                                        *)

LEMMA TypeInit == Init => TypeOK
<1> SUFFICES ASSUME Init
             PROVE  TypeOK
  OBVIOUS
<1>1. hcmd.n \in 0 .. NumBlocks /\ hcmd \in Commands
  BY CommandFacts DEF Init
<1>2. HostTypes
  BY <1>1, SizesAssumption DEF Init, HostTypes, Tags
<1>3. HmscTypes
  BY <1>1, SizesAssumption DEF Init, HmscTypes, Tags
<1>4. PipeTypes
  BY SizesAssumption DEF Init, PipeTypes, BufIds
<1>5. TaskTypes
  BY SizesAssumption DEF Init, TaskTypes, BufIds
<1>6. EndpointTypes
  BY RxFacts, TxFacts DEF Init, EndpointTypes
<1>7. MemoryTypes
  BY DEF Init, MemoryTypes, BufIds, Cells, Cell
<1> QED
  BY <1>2, <1>3, <1>4, <1>5, <1>6, <1>7 DEF TypeOK

(* One lemma per action of the interrupt, the host and the wire ...        *)
LEMMA HostIssueTypes == TypeOK /\ HostIssue => TypeOK'
<1> SUFFICES ASSUME TypeOK, HostIssue
             PROVE  TypeOK'
  OBVIOUS
<1>1. hcmd' \in Commands /\ hcmd'.n \in 0 .. NumBlocks /\ (hcmd'.op = "write" => hcmd'.n >= 1)
  BY CommandFacts DEF HostIssue
<1>2. htag' \in Tags
  BY SizesAssumption DEF HostIssue, TypeOK, HostTypes, Tags
<1>3. HostTypes'
  BY <1>1, <1>2, SizesAssumption DEF HostIssue, TypeOK, HostTypes
<1> QED
  BY <1>3 DEF HostIssue, TypeOK, HmscTypes, PipeTypes, TaskTypes, EndpointTypes, MemoryTypes,
              hmscVars, pipeVars, taskVars, epVars

LEMMA OutCbwTypes == TypeOK /\ OutCbw => TypeOK'
<1> SUFFICES ASSUME TypeOK, OutCbw
             PROVE  TypeOK'
  OBVIOUS
<1> USE DEF TypeOK
<1>1. hcmd \in Commands /\ hcmd.op \in {"read", "write", "test"}
  BY CommandFacts DEF HostTypes
<1>2. HostTypes'
  BY <1>1 DEF OutCbw, HostTypes
<1>3. TaskTypes'
  BY DEF OutCbw, TaskTypes, taskVars
<1>4. CASE rx.dst = Cbw
  <2>1. [cmd |-> hcmd, tag |-> htag, ok |-> TRUE] \in Cbws
    BY <1>1 DEF HostTypes, Cbws
  <2>2. DataOut(TRUE, [cmd |-> hcmd, tag |-> htag, ok |-> TRUE])
    BY <1>4 DEF OutCbw
  <2>3. HmscTypes' /\ PipeTypes' /\ EndpointTypes'
    BY <2>1, <2>2, DataOutTypes
  <2>4. MemoryTypes'
    BY <1>4 DEF OutCbw, MemoryTypes
  <2> QED
    BY <1>2, <1>3, <2>3, <2>4
<1>5. CASE rx.dst # Cbw
  <2>1. DataOut(rx.got = 0, cbw) /\ (rx.got = 0) \in BOOLEAN /\ cbw \in Cbws
    BY <1>5 DEF OutCbw, HmscTypes, Cbws
  <2>2. HmscTypes' /\ PipeTypes' /\ EndpointTypes'
    BY <2>1, DataOutTypes
  <2>3. rx.dst \in BufIds /\ rx.got \in Cells
    BY <1>5, SizesAssumption DEF OutCbw, EndpointTypes, RxOK, Cells
  <2>4. buf' = [buf EXCEPT ![rx.dst][rx.got] = Junk] /\ card' = card
    BY <1>5 DEF OutCbw
  <2>5. MemoryTypes'
    BY <2>3, <2>4 DEF MemoryTypes, Cell
  <2> QED
    BY <1>2, <1>3, <2>2, <2>5
<1> QED
  BY <1>4, <1>5

LEMMA OutBlockTypes == TypeOK /\ OutBlock => TypeOK'
<1> SUFFICES ASSUME TypeOK, OutBlock
             PROVE  TypeOK'
  OBVIOUS
<1> USE DEF TypeOK
<1>1. hcmd \in Commands /\ hcmd.n \in 0 .. NumBlocks /\ hsent < hcmd.n /\ hsent \in Nat
  BY CommandFacts, SizesAssumption DEF OutBlock, HostTypes
<1>2. HostTypes'
  BY <1>1, SizesAssumption DEF OutBlock, HostTypes
<1>3. TaskTypes'
  BY DEF OutBlock, TaskTypes, taskVars
<1>4. CASE rx.dst = Cbw
  <2>1. [cbw EXCEPT !.ok = FALSE] \in Cbws
    BY DEF HmscTypes, Cbws
  <2>2. DataOut(FALSE, [cbw EXCEPT !.ok = FALSE])
    BY <1>4 DEF OutBlock
  <2>3. HmscTypes' /\ PipeTypes' /\ EndpointTypes'
    BY <2>1, <2>2, DataOutTypes
  <2>4. MemoryTypes'
    BY <1>4 DEF OutBlock, MemoryTypes
  <2> QED
    BY <1>2, <1>3, <2>3, <2>4
<1>5. CASE rx.dst # Cbw
  <2>1. HmscTypes' /\ PipeTypes' /\ EndpointTypes'
    <3>1. CASE rx.got + 1 >= rx.size
      <4>1. DataOut(FALSE, cbw) /\ cbw \in Cbws
        BY <1>5, <3>1 DEF OutBlock, HmscTypes, Cbws
      <4> QED
        BY <4>1, DataOutTypes
    <3>2. CASE ~(rx.got + 1 >= rx.size)
      <4>1. RxOK(rx')
        BY <1>5, <3>2, SizesAssumption DEF OutBlock, EndpointTypes, RxOK
      <4> QED
        BY <1>5, <3>2, <4>1
           DEF OutBlock, HmscTypes, PipeTypes, EndpointTypes, hmscVars, pipeVars
    <3> QED
      BY <3>1, <3>2
  <2>2. rx.dst \in BufIds /\ rx.got \in Cells
    BY <1>5, SizesAssumption DEF OutBlock, EndpointTypes, RxOK, Cells
  <2>3. hcmd.data[hsent + 1] \in Cell
    <3>1. hcmd.op = "write"
      BY <1>1 DEF OutBlock, HostTypes
    <3> QED
      BY <1>1, <3>1, CommandFacts DEF Cell
  <2>4. buf' = [buf EXCEPT ![rx.dst][rx.got] = hcmd.data[hsent + 1]] /\ card' = card
    BY <1>5 DEF OutBlock
  <2>5. MemoryTypes'
    BY <2>2, <2>3, <2>4 DEF MemoryTypes
  <2> QED
    BY <1>2, <1>3, <2>1, <2>5
<1> QED
  BY <1>4, <1>5

LEMMA InDataTypes == TypeOK /\ InData => TypeOK'
<1> SUFFICES ASSUME TypeOK, InData
             PROVE  TypeOK'
  OBVIOUS
<1> USE DEF TypeOK
<1>1. TaskTypes' /\ MemoryTypes'
  BY DEF InData, TaskTypes, MemoryTypes, taskVars
<1>2. CASE InBlock
  <2>1. tx.buf \in BufIds /\ tx.sent \in Cells /\ tx.sent < tx.size
    BY <1>2, SizesAssumption DEF InData, InBlock, EndpointTypes, TxOK, Cells
  <2>2. buf[tx.buf][tx.sent] \in Cell
    BY <2>1 DEF MemoryTypes
  <2>3. hrecv' \in Seq(Cell)
    BY <1>2, <2>2 DEF InBlock, HostTypes
  <2>4. HostTypes'
    BY <1>2, <2>3 DEF InData, InBlock, HostTypes
  <2>5. HmscTypes' /\ PipeTypes' /\ EndpointTypes'
    <3>1. CASE tx.sent + 1 = tx.size
      BY <1>2, <3>1, DataInTypes DEF InBlock
    <3>2. CASE tx.sent + 1 # tx.size
      <4>1. tx' = [tx EXCEPT !.sent = @ + 1] /\ UNCHANGED <<hmscVars, pipeVars, rx, inStall>>
        BY <1>2, <3>2 DEF InBlock
      <4>2. TxOK(tx')
        BY <2>1, <3>2, <4>1, SizesAssumption DEF EndpointTypes, TxOK
      <4> QED
        BY <4>1, <4>2 DEF HmscTypes, PipeTypes, EndpointTypes, hmscVars, pipeVars
    <3> QED
      BY <3>1, <3>2
  <2> QED
    BY <1>1, <2>4, <2>5
<1>3. CASE InStray
  <2>1. HostTypes'
    BY <1>3 DEF InData, InStray, HostTypes
  <2>2. HmscTypes' /\ PipeTypes' /\ EndpointTypes'
    <3>1. CASE tx.size = 0
      BY <1>3, <3>1, DataInTypes DEF InStray
    <3>2. CASE tx.size # 0
      BY <1>3, <3>2 DEF InStray, HmscTypes, PipeTypes, EndpointTypes, hmscVars, pipeVars
    <3> QED
      BY <3>1, <3>2
  <2> QED
    BY <1>1, <2>1, <2>2
<1> QED
  BY <1>2, <1>3 DEF InData

LEMMA InCswTypes == TypeOK /\ InCsw => TypeOK'
<1> SUFFICES ASSUME TypeOK, InCsw
             PROVE  TypeOK'
  OBVIOUS
<1> USE DEF TypeOK
<1>1. TaskTypes' /\ MemoryTypes'
  BY DEF InCsw, TaskTypes, MemoryTypes, taskVars
<1>2. HmscTypes' /\ PipeTypes' /\ EndpointTypes'
  BY DataInTypes DEF InCsw
<1>3. hcsw' \in {"none", "passed", "failed", "reset"}
  BY DEF InCsw, HostTypes, EndpointTypes, TxOK
<1>4. HostTypes'
  BY <1>3 DEF InCsw, HostTypes
<1> QED
  BY <1>1, <1>2, <1>4

LEMMA HostResetTypes == TypeOK /\ HostReset => TypeOK'
<1> SUFFICES ASSUME TypeOK, HostReset
             PROVE  TypeOK'
  OBVIOUS
<1> USE DEF TypeOK
<1>1. HostTypes' /\ HmscTypes' /\ TaskTypes' /\ MemoryTypes'
  BY DEF HostReset, HostTypes, HmscTypes, TaskTypes, MemoryTypes, taskVars
<1>2. PipeTypes'
  BY SizesAssumption DEF HostReset, PipeTypes
<1>3. EndpointTypes'
  BY RxFacts DEF HostReset, ResetEndpoint, EndpointTypes
<1> QED
  BY <1>1, <1>2, <1>3

LEMMA BusResetTypes == TypeOK /\ (BusReset \/ HostConfigure) => TypeOK'
<1> SUFFICES ASSUME TypeOK, BusReset \/ HostConfigure
             PROVE  TypeOK'
  OBVIOUS
<1> USE DEF TypeOK
<1>1. HostTypes' /\ HmscTypes' /\ PipeTypes' /\ TaskTypes' /\ MemoryTypes'
  BY DEF BusReset, HostConfigure, HostTypes, HmscTypes, PipeTypes, TaskTypes, MemoryTypes,
         pipeVars, taskVars
<1>2. EndpointTypes'
  BY RxFacts, TxFacts DEF BusReset, HostConfigure, InitEndpoints, EndpointTypes
<1> QED
  BY <1>1, <1>2

(* ... one per action of the task ...                                      *)
LEMMA TaskRecvTypes == TypeOK /\ TaskRecv => TypeOK'
<1> SUFFICES ASSUME TypeOK, TaskRecv
             PROVE  TypeOK'
  OBVIOUS
<1> USE DEF TypeOK
<1>1. HostTypes' /\ HmscTypes' /\ EndpointTypes' /\ MemoryTypes'
  BY DEF TaskRecv, HostTypes, HmscTypes, EndpointTypes, MemoryTypes, hostVars, hmscVars, epVars
<1>2. Head(q) \in SigItems /\ Tail(q) \in Seq(SigItems) /\ Len(Tail(q)) <= QDepth
  BY SizesAssumption DEF TaskRecv, PipeTypes
<1>3. PipeTypes'
  BY <1>2 DEF TaskRecv, PipeTypes
<1>4. cur' \in BufIds /\ cnt' \in 0 .. Stream
  <2>1. cur' = Head(q).buf /\ cnt' = Chunk(blkLen)
    BY DEF TaskRecv
  <2>2. Head(q).buf \in BufIds
    BY <1>2 DEF SigItems
  <2>3. blkLen \in Nat
    BY SizesAssumption DEF HmscTypes
  <2>4. Chunk(blkLen) \in 0 .. Stream
    BY <2>3, ChunkFacts
  <2> QED
    BY <2>1, <2>2, <2>4
<1>5. TaskTypes'
  BY <1>4 DEF TaskRecv, TaskTypes
<1> QED
  BY <1>1, <1>3, <1>5

LEMMA NextBufFacts == \A b \in BufIds : NextBuf(b) \in BufIds /\ NextBuf(b) # b
  BY DEF NextBuf, BufIds

LEMMA TaskWriteTypes ==
  TypeOK /\ (TaskWriteArm \/ TaskWriteBlock \/ TaskWriteFail \/ TaskWriteDone) => TypeOK'
<1> USE DEF TypeOK
<1>1. ASSUME TypeOK, TaskWriteArm
      PROVE  TypeOK'
  <2>1. HostTypes' /\ HmscTypes' /\ MemoryTypes'
    BY <1>1 DEF TaskWriteArm, HostTypes, HmscTypes, MemoryTypes, hostVars, hmscVars
  <2>2. PipeTypes'
    BY <1>1, NextBufFacts DEF TaskWriteArm, PipeTypes, TaskTypes
  <2>3. TaskTypes'
    BY <1>1, SizesAssumption DEF TaskWriteArm, TaskTypes, HmscTypes
  <2>4. EndpointTypes'
    BY <1>1, NextBufFacts, RxFacts DEF TaskWriteArm, EndpointTypes, TaskTypes
  <2> QED
    BY <2>1, <2>2, <2>3, <2>4
<1>2. ASSUME TypeOK, TaskWriteBlock
      PROVE  TypeOK'
  <2>1. HostTypes' /\ HmscTypes' /\ PipeTypes' /\ EndpointTypes'
    BY <1>2 DEF TaskWriteBlock, HostTypes, HmscTypes, PipeTypes, EndpointTypes, hostVars,
                hmscVars, pipeVars, epVars
  <2>2. TaskTypes'
    BY <1>2, SizesAssumption DEF TaskWriteBlock, TaskTypes
  <2>3. addr + done \in Blocks /\ cur \in BufIds /\ done \in Cells
    BY <1>2, SizesAssumption DEF TaskWriteBlock, TaskTypes, Blocks, Cells
  <2>4. MemoryTypes'
    BY <1>2, <2>3 DEF TaskWriteBlock, MemoryTypes
  <2> QED
    BY <2>1, <2>2, <2>4
<1>3. ASSUME TypeOK, TaskWriteFail
      PROVE  TypeOK'
  <2>1. HostTypes' /\ PipeTypes' /\ MemoryTypes' /\ TaskTypes'
    BY <1>3 DEF TaskWriteFail, HostTypes, PipeTypes, MemoryTypes, TaskTypes, hostVars, pipeVars
  <2>2. SendCSW(tx, "failed", cswTag, residue)
    BY <1>3 DEF TaskWriteFail, Refuse
  <2>3. botState' = "IDLE" /\ RxOK(rx') /\ TxOK(tx') /\ inStall' \in BOOLEAN
    BY <1>3, <2>2, SendCswTypes DEF EndpointTypes, HmscTypes
  <2>4. HmscTypes' /\ EndpointTypes'
    BY <1>3, <2>3 DEF TaskWriteFail, HmscTypes, EndpointTypes
  <2> QED
    BY <2>1, <2>4
<1>4. ASSUME TypeOK, TaskWriteDone
      PROVE  TypeOK'
  <2>1. HostTypes' /\ PipeTypes' /\ MemoryTypes' /\ TaskTypes'
    BY <1>4 DEF TaskWriteDone, HostTypes, PipeTypes, MemoryTypes, TaskTypes, hostVars, pipeVars
  <2>2. blkLen' \in 0 .. LenMod - 1 /\ residue' \in 0 .. LenMod - 1
    BY <1>4, MinusFacts DEF TaskWriteDone, HmscTypes, TaskTypes
  <2>3. blkAddr' \in Nat
    BY <1>4 DEF TaskWriteDone, HmscTypes, TaskTypes
  <2>4. botState' \in {"IDLE", "DATA_OUT", "DATA_IN", "LAST_DATA_IN"} /\ EndpointTypes'
    <3>1. CASE blkLen' = 0
      <4>1. SendCSW(tx, "passed", cswTag, residue')
        BY <1>4, <3>1 DEF TaskWriteDone
      <4> QED
        BY <1>4, <2>2, <4>1, SendCswTypes DEF EndpointTypes, HmscTypes
    <3>2. CASE blkLen' # 0
      BY <1>4, <3>2 DEF TaskWriteDone, EndpointTypes, HmscTypes, epVars
    <3> QED
      BY <3>1, <3>2
  <2>5. HmscTypes'
    BY <1>4, <2>2, <2>3, <2>4 DEF TaskWriteDone, HmscTypes
  <2> QED
    BY <2>1, <2>4, <2>5
<1> QED
  BY <1>1, <1>2, <1>3, <1>4

LEMMA TaskReadTakeTypes == TypeOK /\ TaskReadTake => TypeOK'
<1> SUFFICES ASSUME TypeOK, TaskReadTake
             PROVE  TypeOK'
  OBVIOUS
<1> USE DEF TypeOK
<1>1. HostTypes' /\ MemoryTypes'
  BY DEF TaskReadTake, HostTypes, MemoryTypes, hostVars
<1>2. CASE rdFailed
  <2>1. /\ SendCSW(tx, "failed", cswTag, residue) /\ rdFailed' = FALSE
        /\ pc' = "wait" /\ UNCHANGED <<rdPend, cur, addr, done>>
    BY <1>2 DEF TaskReadTake, Refuse
  <2>2. botState' = "IDLE" /\ RxOK(rx') /\ TxOK(tx') /\ inStall' \in BOOLEAN
    BY <2>1, SendCswTypes DEF EndpointTypes, HmscTypes
  <2>3. HmscTypes' /\ EndpointTypes'
    BY <2>2 DEF TaskReadTake, HmscTypes, EndpointTypes
  <2>4. PipeTypes'
    <3>1. q' = q /\ sIdx' = sIdx /\ rdBuf' = rdBuf
      BY DEF TaskReadTake
    <3> QED
      BY <2>1, <3>1, Zenon DEF PipeTypes
  <2>5. TaskTypes'
    BY <2>1 DEF TaskReadTake, TaskTypes
  <2> QED
    BY <1>1, <2>3, <2>4, <2>5
<1>3. CASE ~rdFailed /\ rdPend
  BY <1>1, <1>3 DEF TaskReadTake, HmscTypes, PipeTypes, TaskTypes, EndpointTypes, epVars
<1>4. CASE ~rdFailed /\ ~rdPend
  BY <1>1, <1>4, SizesAssumption
     DEF TaskReadTake, HmscTypes, PipeTypes, TaskTypes, EndpointTypes, epVars
<1> QED
  BY <1>2, <1>3, <1>4

LEMMA TaskReadTypes ==
  TypeOK /\ (TaskReadBlock \/ TaskReadFail \/ TaskReadDone) => TypeOK'
<1> USE DEF TypeOK
<1>1. ASSUME TypeOK, TaskReadBlock
      PROVE  TypeOK'
  <2>1. HostTypes' /\ HmscTypes' /\ PipeTypes' /\ EndpointTypes'
    BY <1>1 DEF TaskReadBlock, HostTypes, HmscTypes, PipeTypes, EndpointTypes, hostVars,
                hmscVars, pipeVars, epVars
  <2>2. TaskTypes'
    BY <1>1, SizesAssumption DEF TaskReadBlock, TaskTypes
  <2>3. addr + done \in Blocks /\ cur \in BufIds /\ done \in Cells
    BY <1>1, SizesAssumption DEF TaskReadBlock, TaskTypes, Blocks, Cells
  <2>4. MemoryTypes'
    BY <1>1, <2>3 DEF TaskReadBlock, MemoryTypes
  <2> QED
    BY <2>1, <2>2, <2>4
<1>2. ASSUME TypeOK, TaskReadFail
      PROVE  TypeOK'
  <2>1. HostTypes' /\ MemoryTypes' /\ TaskTypes'
    BY <1>2 DEF TaskReadFail, HostTypes, MemoryTypes, TaskTypes, hostVars
  <2>2. CASE pc = "reading"
    <3>1. SendCSW(tx, "failed", cswTag, residue) /\ rdFailed' = rdFailed
      BY <1>2, <2>2 DEF TaskReadFail, Refuse
    <3>2. botState' = "IDLE" /\ RxOK(rx') /\ TxOK(tx') /\ inStall' \in BOOLEAN
      BY <1>2, <3>1, SendCswTypes DEF EndpointTypes, HmscTypes
    <3> QED
      BY <1>2, <2>1, <3>1, <3>2 DEF TaskReadFail, HmscTypes, EndpointTypes, PipeTypes
  <2>3. CASE pc = "prefetch"
    <3>1. rdFailed' = TRUE /\ UNCHANGED <<botState, epVars>>
      BY <1>2, <2>3 DEF TaskReadFail, ReadAheadFailed
    <3>2. HmscTypes' /\ EndpointTypes'
      BY <1>2, <3>1 DEF TaskReadFail, HmscTypes, EndpointTypes, epVars
    <3>3. q' = q /\ sIdx' = sIdx /\ rdBuf' = rdBuf /\ rdPend' = rdPend
      BY <1>2 DEF TaskReadFail
    <3>4. PipeTypes'
      BY <1>2, <3>1, <3>3, Zenon DEF PipeTypes
    <3> QED
      BY <2>1, <3>2, <3>4
  <2> QED
    BY <1>2, <2>2, <2>3 DEF TaskReadFail
<1>3. ASSUME TypeOK, TaskReadDone
      PROVE  TypeOK'
  <2>1. HostTypes' /\ HmscTypes' /\ EndpointTypes' /\ MemoryTypes'
    BY <1>3 DEF TaskReadDone, HostTypes, HmscTypes, EndpointTypes, MemoryTypes, hostVars,
                hmscVars, epVars
  <2>2. TaskTypes'
    BY <1>3 DEF TaskReadDone, TaskTypes
  <2>3. q' = q /\ sIdx' = sIdx /\ rdFailed' = rdFailed
    BY <1>3 DEF TaskReadDone
  <2>4. rdPend' \in BOOLEAN
    BY <1>3, Zenon DEF TaskReadDone, PipeTypes
  <2>5. rdBuf' \in BufIds
    BY <1>3 DEF TaskReadDone, PipeTypes, TaskTypes
  <2>6. PipeTypes'
    BY <1>3, <2>3, <2>4, <2>5, Zenon DEF PipeTypes
  <2> QED
    BY <2>1, <2>2, <2>6
<1> QED
  BY <1>1, <1>2, <1>3

LEMMA TaskSendTypes == TypeOK /\ (TaskSend \/ TaskSent) => TypeOK'
<1> USE DEF TypeOK
<1>1. ASSUME TypeOK, TaskSend
      PROVE  TypeOK'
  <2>1. HostTypes' /\ HmscTypes' /\ PipeTypes' /\ MemoryTypes' /\ TaskTypes'
    BY <1>1 DEF TaskSend, HostTypes, HmscTypes, PipeTypes, MemoryTypes, TaskTypes, hostVars,
                hmscVars, pipeVars
  <2>2. EndpointTypes'
    BY <1>1, TxFacts DEF TaskSend, Transmit, EndpointTypes, TaskTypes
  <2> QED
    BY <2>1, <2>2
<1>2. ASSUME TypeOK, TaskSent
      PROVE  TypeOK'
  <2>1. HostTypes' /\ PipeTypes' /\ MemoryTypes' /\ EndpointTypes'
    BY <1>2 DEF TaskSent, HostTypes, PipeTypes, MemoryTypes, EndpointTypes, hostVars, pipeVars,
                epVars
  <2>2. blkLen' \in 0 .. LenMod - 1 /\ residue' \in 0 .. LenMod - 1
    BY <1>2, MinusFacts DEF TaskSent, HmscTypes, TaskTypes
  <2>3. blkAddr' \in Nat
    BY <1>2 DEF TaskSent, HmscTypes, TaskTypes
  <2>4. HmscTypes'
    BY <1>2, <2>2, <2>3 DEF TaskSent, HmscTypes
  <2>5. Chunk(blkLen') \in 0 .. Stream
    BY <2>2, ChunkFacts
  <2>6. TaskTypes'
    BY <1>2, <2>3, <2>5, NextBufFacts, SizesAssumption DEF TaskSent, TaskTypes
  <2> QED
    BY <2>1, <2>4, <2>6
<1> QED
  BY <1>1, <1>2

(* ... and they make up the whole next-state relation.                     *)
LEMMA TypeStep == TypeOK /\ [Next]_vars => TypeOK'
<1> SUFFICES ASSUME TypeOK, [Next]_vars
             PROVE  TypeOK'
  OBVIOUS
<1>1. CASE HostIssue
  BY <1>1, HostIssueTypes
<1>2. CASE Wire
  BY <1>2, OutCbwTypes, OutBlockTypes, InDataTypes, InCswTypes DEF Wire
<1>3. CASE Task
  BY <1>3, TaskRecvTypes, TaskWriteTypes, TaskReadTakeTypes, TaskReadTypes, TaskSendTypes
     DEF Task
<1>4. CASE HostReset
  BY <1>4, HostResetTypes
<1>5. CASE BusReset \/ HostConfigure
  BY <1>5, BusResetTypes
<1>6. CASE UNCHANGED vars
  BY <1>6 DEF TypeOK, HostTypes, HmscTypes, PipeTypes, TaskTypes, EndpointTypes, MemoryTypes,
              vars, hostVars, hmscVars, pipeVars, taskVars, epVars
<1> QED
  BY <1>1, <1>2, <1>3, <1>4, <1>5, <1>6 DEF Next

(* No state of the device, whatever the card refuses and whenever the host *)
(* resets it, leaves its type: in particular no SD access and no packet    *)
(* leaves its buffer, and the signal queue is never overrun.               *)
THEOREM TypeCorrect == Spec => []TypeOK
<1>1. Init => TypeOK
  BY TypeInit
<1>2. TypeOK /\ [Next]_vars => TypeOK'
  BY TypeStep
<1> QED
  BY <1>1, <1>2, PTL DEF Spec

-----------------------------------------------------------------------------
(* The shape of a transfer                                                 *)

LEMMA StateFacts ==
  ASSUME TypeOK
  PROVE  /\ hcmd \in Commands /\ hcmd.op \in {"read", "write", "test"}
         /\ hcmd.n \in Nat /\ hcmd.lba \in Nat /\ hcmd.n < LenMod
         /\ hcmd.lba + hcmd.n <= NumBlocks
         /\ hcmd.op # "test" => hcmd.n >= 1
         /\ blkLen \in Nat /\ blkLen < LenMod /\ blkAddr \in Nat /\ hsent \in Nat
         /\ cnt \in 0 .. Stream /\ cnt \in Nat /\ addr \in Nat /\ done \in Nat
         /\ cur \in BufIds /\ sIdx \in BufIds /\ rx.got \in Nat /\ rx.size \in Nat
         /\ tx.sent \in Nat /\ tx.size \in Nat /\ Len(hrecv) \in Nat
         /\ Stream \in Nat /\ Stream > 0
<1>1. hcmd \in Commands
  BY DEF TypeOK, HostTypes
<1>2. /\ hcmd.op \in {"read", "write", "test"}
      /\ hcmd.n \in Nat /\ hcmd.lba \in Nat /\ hcmd.n < LenMod
      /\ hcmd.lba + hcmd.n <= NumBlocks /\ (hcmd.op # "test" => hcmd.n >= 1)
  BY <1>1, CommandFacts, SizesAssumption DEF Blocks
<1>3. /\ blkLen \in Nat /\ blkLen < LenMod /\ blkAddr \in Nat /\ hsent \in Nat
      /\ Len(hrecv) \in Nat /\ sIdx \in BufIds
  BY SizesAssumption DEF TypeOK, HostTypes, HmscTypes, PipeTypes
<1>4. /\ cnt \in 0 .. Stream /\ cnt \in Nat /\ addr \in Nat /\ done \in Nat
      /\ cur \in BufIds /\ Stream \in Nat /\ Stream > 0
  BY SizesAssumption DEF TypeOK, TaskTypes
<1>5. rx.got \in Nat /\ rx.size \in Nat /\ tx.sent \in Nat /\ tx.size \in Nat
  BY SizesAssumption DEF TypeOK, EndpointTypes, RxOK, TxOK
<1> QED
  BY <1>1, <1>2, <1>3, <1>4, <1>5

LEMMA ShapeInit == Init => ShapeOK
  BY DEF Init, ShapeOK, Resting

LEMMA HostIssueShape == ShapeOK /\ HostIssue => ShapeOK'
  BY DEF ShapeOK, Resting, Answering, Storing, Fetching, HostIssue, hmscVars, pipeVars,
         taskVars, epVars

(* The CBW finds EP OUT armed for it, and the state machine idle.          *)
LEMMA OutCbwShape ==
  ASSUME TypeOK, ShapeOK, OutCbw
  PROVE  ShapeOK'
<1> DEFINE c == [cmd |-> hcmd, tag |-> htag, ok |-> TRUE]
<1>1. Resting /\ hphase = "cbw" /\ ~inStall
  BY DEF ShapeOK, Resting, Answering, Storing, Fetching, OutCbw
<1>2. rx.dst = Cbw
  BY <1>1 DEF Resting, ArmCbw, Arm
<1>3. CbwDecode(TRUE, c)
  BY <1>1, <1>2 DEF OutCbw, DataOut, Resting
<1>4. UNCHANGED <<hcmd, htag, hsent, hrecv, pc, cur, cnt, addr, done>>
  BY DEF OutCbw, taskVars
<1>5. c.cmd = hcmd /\ c.tag = htag /\ c.ok = TRUE
  OBVIOUS
<1> HIDE DEF c
<1>6. cswTag' = htag
  BY <1>3, <1>5 DEF CbwDecode
<1>7. hsent = 0 /\ hrecv = <<>>
  BY <1>1 DEF TypeOK, HostTypes
<1>8. CASE hcmd.op = "test"
  <2>1. SendCSW(tx, "passed", htag, hcmd.n) /\ q' = q
    BY <1>3, <1>5, <1>8 DEF CbwDecode
  <2>2. hphase' = "csw"
    BY <1>8 DEF OutCbw
  <2>3. tx' = CswTx("passed", htag, hcmd.n) /\ ~inStall' /\ rx' = ArmCbw /\ botState' = "IDLE"
    BY <1>1, <2>1 DEF SendCSW, Transmit, Resting, NoTx
  <2>4. Answering'
    BY <1>1, <1>4, <2>1, <2>2, <2>3 DEF Answering, Resting, CswTx, NoTx
  <2> QED
    BY <2>3, <2>4 DEF ShapeOK
<1>9. CASE hcmd.op = "read"
  <2>1. /\ blkAddr' = hcmd.lba /\ blkLen' = hcmd.n /\ botState' = "DATA_IN"
        /\ Signal("read", 0) /\ rx' = Disarmed(rx) /\ UNCHANGED <<tx, inStall>>
    BY <1>3, <1>5, <1>9 DEF CbwDecode, Read10
  <2>2. hphase' = "datain"
    BY <1>9 DEF OutCbw
  <2>3. Len(q') = 1 /\ q'[1].op = "read"
    BY <1>1, <2>1, SizesAssumption DEF Signal, Resting
  <2>4. ~rx'.armed /\ tx' = NoTx /\ tx'.kind = "none" /\ pc' = "wait" /\ ~inStall'
    BY <1>1, <1>4, <2>1, RxFacts DEF Resting, Disarmed, ArmCbw, Arm, NoTx
  <2>5. hcmd.n >= 1 /\ hcmd.n \in Nat /\ Len(hrecv') = 0
    BY <1>4, <1>7, <1>9, StateFacts
  <2>6. Fetching'
    BY <1>4, <1>6, <1>9, <2>1, <2>2, <2>3, <2>4, <2>5 DEF Fetching, WireFree
  <2> QED
    BY <2>4, <2>6 DEF ShapeOK
<1>10. CASE hcmd.op = "write"
  <2>1. /\ blkAddr' = hcmd.lba /\ blkLen' = hcmd.n /\ botState' = "DATA_OUT" /\ sIdx' = 0
        /\ rx' = Arm(0, Chunk(hcmd.n)) /\ UNCHANGED <<tx, inStall, q>>
    BY <1>3, <1>5, <1>10 DEF CbwDecode, Write10
  <2>2. hphase' = "dataout"
    BY <1>10 DEF OutCbw
  <2>3. hcmd.n >= 1 /\ hcmd.n \in Nat /\ hcmd.lba \in Nat
    BY <1>10, StateFacts
  <2>4. Chunk(hcmd.n) \in Nat
    BY <2>3, ChunkFacts, SizesAssumption
  <2>5. rx'.armed /\ rx'.dst = 0 /\ rx'.size = Chunk(hcmd.n) /\ rx'.got = 0
    BY <2>1 DEF Arm
  <2>6. pc' = "wait" /\ q' = <<>> /\ tx' = NoTx /\ ~inStall' /\ hsent' = 0
    BY <1>1, <1>4, <1>7, <2>1 DEF Resting
  <2>7. Storing'
    BY <1>4, <1>6, <1>10, <2>1, <2>2, <2>3, <2>4, <2>5, <2>6 DEF Storing, Filling
  <2> QED
    BY <2>6, <2>7 DEF ShapeOK
<1> QED
  BY <1>8, <1>9, <1>10, StateFacts

(* A block of a WRITE finds a buffer armed for it; the last one queues it. *)
LEMMA OutBlockShape ==
  ASSUME TypeOK, ShapeOK, OutBlock
  PROVE  ShapeOK'
<1>1. Storing /\ ~inStall /\ hphase = "dataout" /\ rx.armed
  BY DEF ShapeOK, Resting, Answering, Storing, Fetching, OutBlock
<1>2. Filling /\ pc \in {"wait", "writing"} /\ rx.dst # Cbw
  <2>1. Filling /\ pc \in {"wait", "writing"}
    BY <1>1 DEF Storing, QueuedWrite, Holding
  <2>2. sIdx \in BufIds
    BY StateFacts
  <2>3. rx.dst = sIdx /\ sIdx # Cbw
    BY <2>1, <2>2 DEF Filling, BufIds, Cbw
  <2> QED
    BY <2>1, <2>3
<1>3. /\ hsent' = hsent + 1 /\ hphase' = (IF hsent' = hcmd'.n THEN "csw" ELSE "dataout")
      /\ UNCHANGED <<hcmd, htag, hrecv, hcsw, pc, cur, cnt, addr, done, card>>
  BY DEF OutBlock, taskVars
<1>4. /\ hcmd.n \in Nat /\ blkLen \in Nat /\ Stream \in Nat /\ hsent \in Nat
      /\ rx.got \in Nat /\ rx.size \in Nat /\ cnt \in Nat /\ hsent < hcmd.n
  BY <1>1, StateFacts DEF TypeOK, HostTypes
<1>5. CASE rx.got + 1 >= rx.size
  <2>1. DataOut(FALSE, cbw)
    BY <1>2, <1>5 DEF OutBlock
  <2>2. /\ Signal("write", sIdx) /\ rx' = Disarmed(rx)
        /\ UNCHANGED <<botState, cswTag, blkAddr, blkLen, sIdx, tx, inStall>>
    BY <1>1, <2>1 DEF Storing, DataOut
  <2>3. q' = <<[op |-> "write", buf |-> sIdx]>>
    BY <1>2, <2>2, SizesAssumption DEF Signal, Filling
  <2>4. QueuedWrite' /\ ~inStall'
    BY <1>1, <2>2, <2>3 DEF QueuedWrite, Disarmed
  <2>5. CASE pc = "wait"
    <3>1. rx.size >= Chunk(blkLen) /\ hsent = hcmd.n - blkLen + rx.got
      BY <1>1, <1>2, <2>5 DEF Storing, Filling, QueuedWrite
    <3>2. rx.size <= Stream /\ rx.got < rx.size
      BY <1>1, <1>2, <3>1, <1>4, StateFacts, ChunkFacts
         DEF Storing, TypeOK, EndpointTypes, RxOK
    <3>3. hsent' = hcmd.n - blkLen + Chunk(blkLen)
      BY <1>3, <1>4, <1>5, <3>1, <3>2 DEF Chunk, Least
    <3>4. Storing'
      BY <1>1, <1>3, <1>4, <2>2, <2>4, <2>5, <3>3 DEF Storing
    <3> QED
      BY <2>4, <3>4 DEF ShapeOK
  <2>6. CASE pc = "writing"
    <3>1. /\ cnt < blkLen /\ sIdx = 1 - cur /\ rx.size = Stream
          /\ hsent = hcmd.n - blkLen + cnt + rx.got
      BY <1>1, <1>2, <2>6 DEF Storing, Filling, QueuedWrite, Holding
    <3>2. rx.got < rx.size
      BY <1>1, <1>2, <3>1, <1>4, SizesAssumption DEF TypeOK, EndpointTypes, RxOK
    <3>3. hsent' = hcmd.n - blkLen + cnt + Stream
      BY <1>3, <1>4, <1>5, <3>1, <3>2
    <3>4. Storing'
      BY <1>1, <1>3, <1>4, <2>2, <2>4, <2>6, <3>1, <3>3 DEF Storing
    <3> QED
      BY <2>4, <3>4 DEF ShapeOK
  <2> QED
    BY <1>2, <2>5, <2>6
<1>6. CASE ~(rx.got + 1 >= rx.size)
  <2>1. rx' = [rx EXCEPT !.got = @ + 1] /\ UNCHANGED <<hmscVars, pipeVars, tx, inStall>>
    BY <1>2, <1>6 DEF OutBlock
  <2>2. /\ rx'.armed = rx.armed /\ rx'.dst = rx.dst /\ rx'.size = rx.size
        /\ rx'.got = rx.got + 1
    BY <2>1 DEF TypeOK, EndpointTypes, RxOK
  <2>3. Filling' /\ ~inStall' /\ UNCHANGED <<botState, cswTag, blkAddr, blkLen, sIdx, tx>>
    BY <1>1, <1>2, <2>1, <2>2 DEF Filling, hmscVars, pipeVars
  <2>4. CASE pc = "wait"
    <3>1. rx.size >= Chunk(blkLen) /\ hsent = hcmd.n - blkLen + rx.got
      BY <1>1, <1>2, <2>4 DEF Storing, Filling, QueuedWrite
    <3>2. hsent' = hcmd.n - blkLen + rx'.got
      BY <1>3, <1>4, <2>2, <3>1
    <3>3. Storing'
      BY <1>1, <1>3, <1>4, <2>2, <2>3, <2>4, <3>1, <3>2 DEF Storing
    <3> QED
      BY <2>3, <3>3 DEF ShapeOK
  <2>5. CASE pc = "writing"
    <3>1. /\ cnt < blkLen /\ sIdx = 1 - cur /\ rx.size = Stream
          /\ hsent = hcmd.n - blkLen + cnt + rx.got
      BY <1>1, <1>2, <2>5 DEF Storing, Filling, QueuedWrite, Holding
    <3>2. hsent' = hcmd.n - blkLen + cnt + rx'.got
      BY <1>3, <1>4, <2>2, <3>1
    <3>3. Storing'
      BY <1>1, <1>3, <1>4, <2>2, <2>3, <2>5, <3>1, <3>2 DEF Storing
    <3> QED
      BY <2>3, <3>3 DEF ShapeOK
  <2> QED
    BY <1>2, <2>4, <2>5
<1> QED
  BY <1>5, <1>6

(* A block of a READ: the last of a transfer frees the endpoint and queues *)
(* the completion, or ends the command when it was the last of all.        *)
LEMMA InDataShape ==
  ASSUME TypeOK, ShapeOK, InData
  PROVE  ShapeOK'
<1>1. Fetching /\ ~inStall /\ tx.kind = "data" /\ tx.size > 0 /\ hphase = "datain"
  BY DEF ShapeOK, Resting, Answering, Storing, Fetching, InData, ArmCbw, Arm, NoTx
<1>2. InBlock
  BY <1>1, StateFacts DEF InData, InStray
<1>3. UNCHANGED <<hcmd, htag, hsent, hcsw, pc, cur, cnt, addr, done, card>>
  BY DEF InData, taskVars
<1>4. Len(hrecv') = Len(hrecv) + 1
  BY <1>2 DEF InBlock, TypeOK, HostTypes
<1>5. /\ hcmd.n \in Nat /\ blkLen \in Nat /\ tx.sent \in Nat /\ tx.size \in Nat
      /\ tx.sent < tx.size /\ Len(hrecv) \in Nat /\ cnt \in Nat /\ Stream \in Nat
  BY <1>1, StateFacts DEF TypeOK, EndpointTypes, TxOK
<1>6. tx # NoTx
  BY <1>1 DEF NoTx
<1>7. CASE tx.sent + 1 = tx.size
  <2>1. DataIn /\ pc # "sent"
    BY <1>2, <1>7 DEF InBlock, TaskKeptUp
  <2>2. CASE blkLen > 0
    <3>1. /\ botState = "DATA_IN" /\ pc \in {"prefetch", "wait"}
          /\ OnWire(blkLen + tx.size)
      BY <1>1, <1>5, <1>6, <2>1, <2>2 DEF Fetching, WireFree
    <3>2. Signal("read", sIdx) /\ tx' = NoTx /\ UNCHANGED <<hmscVars, rx, inStall>>
      BY <2>1, <3>1 DEF DataIn
    <3>3. Len(q') = 1 /\ q'[1].op = "read"
      BY <3>1, <3>2, SizesAssumption DEF Signal, OnWire
    <3>4. Len(hrecv') = hcmd.n - blkLen /\ Len(hrecv') < hcmd.n
      <4>1. Len(hrecv) = hcmd.n - (blkLen + tx.size) + tx.sent
        BY <3>1 DEF OnWire
      <4>2. tx.size = tx.sent + 1
        BY <1>7
      <4>3. Len(hrecv) + 1 = hcmd.n - blkLen
        BY <1>5, <4>1, <4>2
      <4>4. Len(hrecv') = hcmd.n - blkLen
        BY <1>4, <4>3
      <4> QED
        BY <1>5, <2>2, <4>4
    <3>5. hphase' = "datain" /\ tx'.kind = "none"
      BY <1>2, <1>4, <3>2, <3>4 DEF InBlock, NoTx
    <3>6. UNCHANGED <<botState, cswTag, blkAddr, blkLen>>
      BY <3>2 DEF hmscVars
    <3>7. Fetching'
      BY <1>1, <1>3, <2>2, <3>1, <3>2, <3>3, <3>4, <3>5, <3>6 DEF Fetching, WireFree
    <3> QED
      BY <1>1, <3>2, <3>7 DEF ShapeOK
  <2>3. CASE blkLen = 0
    <3>1. botState = "LAST_DATA_IN" /\ pc = "wait" /\ OnWire(tx.size)
      BY <1>1, <2>3 DEF Fetching
    <3>2. SendCSW(NoTx, "passed", cswTag, residue) /\ UNCHANGED <<q, cswTag>>
      BY <2>1, <3>1 DEF DataIn, pipeVars
    <3>3. tx' = CswTx("passed", cswTag, residue) /\ ~inStall' /\ rx' = ArmCbw /\ botState' = "IDLE"
      BY <1>1, <3>2 DEF SendCSW, Transmit, NoTx
    <3>4. hphase' = "csw"
      BY <1>2, <1>4, <1>5, <1>7, <3>1 DEF InBlock, OnWire
    <3>5. cswTag = htag /\ q = <<>>
      BY <1>1, <3>1 DEF Fetching, OnWire
    <3>6. Answering'
      BY <1>3, <3>1, <3>2, <3>3, <3>4, <3>5 DEF Answering, CswTx, NoTx
    <3> QED
      BY <3>3, <3>6 DEF ShapeOK
  <2> QED
    BY <1>5, <2>2, <2>3
<1>8. CASE tx.sent + 1 # tx.size
  <2>1. tx' = [tx EXCEPT !.sent = @ + 1] /\ UNCHANGED <<hmscVars, pipeVars, rx, inStall>>
    BY <1>2, <1>8 DEF InBlock
  <2>2. /\ tx'.kind = tx.kind /\ tx'.size = tx.size /\ tx'.buf = tx.buf
        /\ tx'.sent = tx.sent + 1
    BY <2>1 DEF TypeOK, EndpointTypes, TxOK
  <2>3. UNCHANGED <<botState, cswTag, blkAddr, blkLen, q>>
    BY <2>1 DEF hmscVars, pipeVars
  <2>4. CASE blkLen = 0
    <3>1. botState = "LAST_DATA_IN" /\ pc = "wait" /\ OnWire(tx.size)
      BY <1>1, <2>4 DEF Fetching
    <3>2. OnWire(tx.size)' /\ Len(hrecv') < hcmd.n
      BY <1>1, <1>3, <1>4, <1>5, <1>8, <2>2, <2>3, <3>1 DEF OnWire
    <3>3. hphase' = "datain"
      BY <1>2, <1>4, <3>2 DEF InBlock
    <3>4. Fetching'
      BY <1>1, <1>3, <2>1, <2>2, <2>3, <2>4, <3>1, <3>2, <3>3 DEF Fetching
    <3> QED
      BY <1>1, <2>1, <3>4 DEF ShapeOK
  <2>5. CASE blkLen > 0 /\ pc = "sent"
    <3>1. botState = "DATA_IN" /\ OnWire(blkLen) /\ tx.buf = cur /\ tx.size = cnt /\ cnt = Chunk(blkLen)
      BY <1>1, <2>5 DEF Fetching
    <3>2. OnWire(blkLen)' /\ Len(hrecv') < hcmd.n
      <4>1. Len(hrecv) = hcmd.n - blkLen + tx.sent /\ tx.size <= blkLen
        BY <1>5, <3>1, ChunkFacts DEF OnWire
      <4>2. Len(hrecv') = hcmd.n - blkLen + tx'.sent /\ Len(hrecv') < hcmd.n
        BY <1>4, <1>5, <1>8, <2>2, <4>1
      <4> QED
        BY <1>1, <1>3, <2>2, <2>3, <3>1, <4>2 DEF OnWire
    <3>3. hphase' = "datain"
      BY <1>2, <1>4, <3>2 DEF InBlock
    <3>4. Fetching'
      BY <1>1, <1>3, <2>1, <2>2, <2>3, <2>5, <3>1, <3>2, <3>3 DEF Fetching
    <3> QED
      BY <1>1, <2>1, <3>4 DEF ShapeOK
  <2>6. CASE blkLen > 0 /\ pc # "sent"
    <3>1. /\ botState = "DATA_IN" /\ pc \in {"prefetch", "wait"}
          /\ OnWire(blkLen + tx.size) /\ (pc = "prefetch" => tx.buf = 1 - cur)
      BY <1>1, <1>5, <1>6, <2>6 DEF Fetching, WireFree
    <3>2. OnWire(blkLen + tx.size)' /\ Len(hrecv') < hcmd.n
      <4>1. Len(hrecv) = hcmd.n - (blkLen + tx.size) + tx.sent
        BY <3>1 DEF OnWire
      <4>2. tx.sent < tx.size /\ tx.sent + 1 # tx.size
        BY <1>5, <1>8
      <4>3. tx'.sent = tx.sent + 1 /\ Len(hrecv') = Len(hrecv) + 1
        BY <1>4, <2>2
      <4>4. /\ Len(hrecv) + 1 = hcmd.n - (blkLen + tx.size) + (tx.sent + 1)
            /\ Len(hrecv) + 1 < hcmd.n
        <5> DEFINE got == Len(hrecv)
                   n == hcmd.n
                   left == blkLen
                   size == tx.size
                   sent == tx.sent
        <5>1. /\ n \in Nat /\ left \in Nat /\ size \in Nat /\ sent \in Nat /\ got \in Nat
              /\ got = n - (left + size) + sent /\ sent < size /\ sent + 1 # size
          BY <1>5, <4>1, <4>2
        <5> HIDE DEF got, n, left, size, sent
        <5>2. got + 1 = n - (left + size) + (sent + 1) /\ got + 1 < n
          BY <5>1
        <5> QED
          BY <5>2 DEF got, n, left, size, sent
      <4>5. Len(hrecv') = hcmd.n - (blkLen + tx.size) + tx'.sent /\ Len(hrecv') < hcmd.n
        BY <4>3, <4>4
      <4> QED
        BY <1>1, <1>3, <2>2, <2>3, <3>1, <4>5 DEF OnWire
    <3>3. hphase' = "datain"
      BY <1>2, <1>4, <3>2 DEF InBlock
    <3>4. Fetching'
      BY <1>1, <1>3, <2>1, <2>2, <2>3, <2>6, <3>1, <3>2, <3>3 DEF Fetching
    <3> QED
      BY <1>1, <2>1, <3>4 DEF ShapeOK
  <2> QED
    BY <1>5, <2>4, <2>5, <2>6
<1> QED
  BY <1>7, <1>8

(* The status carries the tag the host waits for, and ends the command.    *)
LEMMA InCswShape ==
  ASSUME TypeOK, ShapeOK, InCsw
  PROVE  ShapeOK' /\ tx.tag = htag
<1>1. Answering /\ ~inStall
  BY StateFacts DEF ShapeOK, Resting, Answering, Storing, Fetching, OnWire, WireFree,
                    InCsw, NoTx
<1>2. hphase' = "idle" /\ DataIn /\ pc' = pc /\ tx.tag = htag
  BY <1>1 DEF InCsw, Answering, taskVars
<1>3. tx' = NoTx /\ UNCHANGED <<hmscVars, pipeVars, rx, inStall>>
  BY <1>1, <1>2 DEF DataIn, Answering
<1>4. Resting' /\ ~inStall'
  BY <1>1, <1>2, <1>3 DEF Answering, Resting, hmscVars, pipeVars
<1> QED
  BY <1>2, <1>4 DEF ShapeOK

(* A device that has stopped holds nothing but an armed OUT endpoint.      *)
LEMMA HostResetShape ==
  ASSUME TypeOK, ShapeOK, ContainedFaults, HostReset
  PROVE  ShapeOK'
<1>1. Quiet /\ ~inStall
  BY DEF ContainedFaults, HostReset, ShapeOK
<1>2. tx = NoTx
  BY <1>1 DEF Quiet, ShapeOK, Resting, Answering, Storing, Fetching, WireFree, OnWire
<1>3. Resting' /\ ~inStall'
  BY <1>1, <1>2 DEF HostReset, ResetEndpoint, Quiet, Resting, taskVars
<1> QED
  BY <1>3 DEF ShapeOK

LEMMA TaskRecvShape ==
  ASSUME TypeOK, ShapeOK, TaskRecv
  PROVE  ShapeOK'
<1>1. (Storing \/ Fetching) /\ ~inStall /\ q # <<>>
  BY DEF ShapeOK, Resting, Answering, TaskRecv
<1>2. /\ UNCHANGED <<hphase, hcmd, htag, hsent, hrecv, botState, cswTag, blkAddr, blkLen, sIdx>>
      /\ UNCHANGED <<rx, tx, inStall>>
      /\ q' = Tail(q) /\ cur' = Head(q).buf /\ cnt' = Chunk(blkLen) /\ pc = "wait"
  BY DEF TaskRecv, hostVars, hmscVars, epVars
<1>3. CASE Storing
  <2>1. QueuedWrite /\ hsent = hcmd.n - blkLen + Chunk(blkLen)
    BY <1>1, <1>2, <1>3 DEF Storing, Filling
  <2>2. q' = <<>> /\ cur' = sIdx /\ Head(q).op = "write"
    BY <1>2, <2>1 DEF QueuedWrite
  <2>3. pc' = "writeArm"
    BY <2>2 DEF TaskRecv
  <2>4. Holding'
    BY <1>2, <2>1, <2>2 DEF Holding, QueuedWrite
  <2>5. Storing'
    BY <1>2, <1>3, <2>1, <2>2, <2>3, <2>4 DEF Storing
  <2> QED
    BY <1>1, <1>2, <2>5 DEF ShapeOK
<1>4. CASE Fetching
  <2>1. blkLen > 0 /\ botState = "DATA_IN" /\ Len(q) = 1 /\ q[1].op = "read" /\ WireFree
    BY <1>1, <1>2, <1>4 DEF Fetching, OnWire
  <2>2. Tail(q) = <<>> /\ Head(q) = q[1]
    <3>1. q \in Seq(SigItems) /\ Tail(q) \in Seq(SigItems) /\ Len(Tail(q)) = 0
      BY <1>1, <2>1 DEF TypeOK, PipeTypes
    <3>2. Tail(q) # <<>> => Len(Tail(q)) \in Nat \ {0}
      BY <3>1, EmptySeq, Zenon
    <3>3. Head(q) = q[1]
      BY <2>1, <3>1
    <3> QED
      BY <3>1, <3>2, <3>3
  <2>3. pc' = "readTake" /\ q' = <<>>
    BY <1>2, <2>1, <2>2 DEF TaskRecv
  <2>4. WireFree'
    BY <1>2, <2>1 DEF WireFree
  <2>5. Fetching'
    BY <1>2, <1>4, <2>1, <2>3, <2>4 DEF Fetching
  <2> QED
    BY <1>1, <1>2, <2>5 DEF ShapeOK
<1> QED
  BY <1>1, <1>3, <1>4

(* The task in a WRITE: it arms the other buffer only when more is to come *)
(* and answers only when nothing is armed or queued any more.              *)
LEMMA TaskWriteArmShape ==
  ASSUME TypeOK, ShapeOK, TaskWriteArm
  PROVE  ShapeOK'
<1>1. /\ Storing /\ ~inStall /\ Holding /\ cur = sIdx /\ cnt = Chunk(blkLen)
      /\ hsent = hcmd.n - blkLen + cnt
  BY StateFacts DEF ShapeOK, Resting, Answering, Storing, Fetching, TaskWriteArm
<1>2. /\ UNCHANGED <<hphase, hcmd, htag, hsent, hrecv, botState, cswTag, blkAddr, blkLen>>
      /\ UNCHANGED <<q, cur, cnt, tx, inStall>>
      /\ addr' = blkAddr /\ done' = 0 /\ pc' = "writing"
  BY DEF TaskWriteArm, hostVars, hmscVars
<1>3. hcmd.n \in Nat /\ blkLen \in Nat /\ cnt \in Nat /\ hsent \in Nat /\ cnt <= blkLen
  BY <1>1, StateFacts, ChunkFacts
<1>4. CASE cnt < blkLen
  <2>1. sIdx' = NextBuf(cur) /\ rx' = Arm(NextBuf(cur), cnt)
    BY <1>4 DEF TaskWriteArm, MoreToCome
  <2>2. cnt = Stream
    BY <1>1, <1>4, StateFacts, ChunkFacts
  <2>3. /\ rx'.armed /\ rx'.dst = sIdx' /\ rx'.size = Stream /\ rx'.got = 0
        /\ sIdx' = 1 - cur
    BY <2>1, <2>2 DEF Arm, NextBuf
  <2>4. Filling'
    BY <1>1, <1>2, <2>3 DEF Filling, Holding
  <2>5. Storing'
    BY <1>1, <1>2, <1>3, <1>4, <2>3, <2>4 DEF Storing
  <2> QED
    BY <1>1, <1>2, <2>5 DEF ShapeOK
<1>5. CASE cnt = blkLen
  <2>1. UNCHANGED <<sIdx, rx>>
    BY <1>3, <1>5 DEF TaskWriteArm, MoreToCome
  <2>2. Holding' /\ hsent = hcmd.n
    BY <1>1, <1>2, <1>3, <1>5, <2>1 DEF Holding
  <2>3. Storing'
    BY <1>1, <1>2, <1>3, <1>5, <2>1, <2>2 DEF Storing
  <2> QED
    BY <1>1, <1>2, <2>3 DEF ShapeOK
<1> QED
  BY <1>3, <1>4, <1>5

LEMMA WritingFacts ==
  ASSUME TypeOK, ShapeOK, pc = "writing"
  PROVE  /\ Storing /\ ~inStall /\ cnt = Chunk(blkLen) /\ addr = blkAddr /\ done <= cnt
         /\ cnt <= blkLen /\ addr + cnt <= NumBlocks
         /\ cnt = blkLen => Holding /\ hsent = hcmd.n
<1>1. /\ Storing /\ ~inStall /\ cnt = Chunk(blkLen) /\ addr = blkAddr /\ done <= cnt
      /\ blkAddr + blkLen = hcmd.lba + hcmd.n
  BY DEF ShapeOK, Resting, Answering, Storing, Fetching
<1>2. cnt = blkLen => Holding /\ hsent = hcmd.n
  BY <1>1, StateFacts DEF Storing
<1>3. /\ blkLen \in Nat /\ cnt \in Nat /\ blkAddr \in Nat /\ NumBlocks \in Nat
      /\ hcmd.lba \in Nat /\ hcmd.n \in Nat /\ hcmd.lba + hcmd.n <= NumBlocks
  BY StateFacts, SizesAssumption
<1>4. cnt <= blkLen
  BY <1>1, <1>3, ChunkFacts
<1>5. blkAddr + cnt <= NumBlocks
  <2>1. blkAddr + cnt <= blkAddr + blkLen
    BY <1>3, <1>4
  <2>2. blkAddr + blkLen <= NumBlocks
    BY <1>1, <1>3
  <2> QED
    BY <1>3, <2>1, <2>2
<1> QED
  BY <1>1, <1>2, <1>4, <1>5

LEMMA TaskWriteBlockShape ==
  ASSUME TypeOK, ShapeOK, TaskWriteBlock
  PROVE  ShapeOK'
<1>1. /\ UNCHANGED <<hphase, hcmd, htag, hsent, hrecv, botState, cswTag, blkAddr, blkLen, sIdx>>
      /\ UNCHANGED <<q, pc, cur, cnt, addr, rx, tx, inStall>>
      /\ done' = done + 1 /\ pc = "writing" /\ done < cnt
  BY DEF TaskWriteBlock, hostVars, hmscVars, pipeVars, epVars
<1>2. done' <= cnt
  BY <1>1, StateFacts
<1>3. Storing'
  BY <1>1, <1>2, WritingFacts DEF Storing, Filling, QueuedWrite, Holding
<1> QED
  BY <1>1, <1>3, WritingFacts DEF ShapeOK

LEMMA TaskWriteFailShape ==
  ASSUME TypeOK, ShapeOK, ContainedFaults, TaskWriteFail
  PROVE  ShapeOK'
<1>1. cnt = blkLen
  <2>1. ~(addr + done >= NumBlocks)
    BY WritingFacts, StateFacts, SizesAssumption DEF TaskWriteFail
  <2> QED
    BY <2>1 DEF ContainedFaults, TaskWriteFail
<1>2. Storing /\ ~inStall /\ Holding /\ hsent = hcmd.n
  BY <1>1, WritingFacts DEF TaskWriteFail
<1>3. SendCSW(tx, "failed", cswTag, residue) /\ UNCHANGED <<hphase, hcmd, htag, q>> /\ pc' = "wait"
  BY DEF TaskWriteFail, Refuse, hostVars, pipeVars
<1>4. tx' = CswTx("failed", cswTag, residue) /\ ~inStall' /\ rx' = ArmCbw /\ botState' = "IDLE"
  BY <1>2, <1>3 DEF SendCSW, Transmit, Storing, NoTx
<1>5. Answering'
  BY <1>2, <1>3, <1>4 DEF Answering, Storing, Holding, CswTx, NoTx
<1> QED
  BY <1>4, <1>5 DEF ShapeOK

LEMMA TaskWriteDoneShape ==
  ASSUME TypeOK, ShapeOK, TaskWriteDone
  PROVE  ShapeOK'
<1>1. /\ UNCHANGED <<hphase, hcmd, htag, hsent, hrecv, cswTag, q, sIdx>>
      /\ UNCHANGED <<cur, cnt, addr, done>> /\ pc = "writing" /\ pc' = "wait"
      /\ blkAddr' = blkAddr + cnt /\ blkLen' = Minus(blkLen, cnt)
  BY DEF TaskWriteDone, hostVars, pipeVars
<1>2. Storing /\ ~inStall /\ cnt <= blkLen
  BY <1>1, WritingFacts
<1>3. blkLen' = blkLen - cnt
  BY <1>1, <1>2 DEF Minus
<1>4. CASE cnt = blkLen
  <2>1. Holding /\ hsent = hcmd.n /\ blkLen' = 0
    BY <1>1, <1>3, <1>4, WritingFacts, StateFacts
  <2>2. SendCSW(tx, "passed", cswTag, residue')
    BY <2>1 DEF TaskWriteDone
  <2>3. tx' = CswTx("passed", cswTag, residue') /\ ~inStall' /\ rx' = ArmCbw /\ botState' = "IDLE"
    BY <1>2, <2>2 DEF SendCSW, Transmit, Storing, NoTx
  <2>4. Answering'
    BY <1>1, <1>2, <2>1, <2>3 DEF Answering, Storing, Holding, CswTx, NoTx
  <2> QED
    BY <2>3, <2>4 DEF ShapeOK
<1>5. CASE cnt < blkLen
  <2>1. blkLen' # 0 /\ UNCHANGED <<botState, rx, tx, inStall>>
    <3>1. blkLen \in Nat /\ cnt \in Nat
      BY StateFacts
    <3>2. blkLen' # 0
      BY <1>3, <1>5, <3>1
    <3> QED
      BY <3>2 DEF TaskWriteDone, epVars
  <2>2. blkLen' \in 1 .. hcmd.n /\ blkAddr' + blkLen' = hcmd.lba + hcmd.n
    <3>1. blkLen \in 1 .. hcmd.n /\ blkAddr + blkLen = hcmd.lba + hcmd.n
      BY <1>2 DEF Storing
    <3>2. blkLen - cnt \in 1 .. hcmd.n /\ (blkAddr + cnt) + (blkLen - cnt) = blkAddr + blkLen
      <4>1. /\ blkLen \in Nat /\ cnt \in Nat /\ hcmd.n \in Nat /\ blkAddr \in Nat
            /\ cnt < blkLen /\ blkLen <= hcmd.n
        BY <1>5, <3>1, StateFacts
      <4> QED
        BY <4>1
    <3> QED
      BY <1>1, <1>3, <3>1, <3>2
  <2>3. cnt = Stream /\ cnt \in Nat /\ Stream \in Nat /\ blkLen \in Nat /\ hcmd.n \in Nat
    BY <1>1, <1>5, WritingFacts, StateFacts, ChunkFacts
  <2>4. CASE Filling /\ rx.size = Stream /\ hsent = hcmd.n - blkLen + cnt + rx.got
    <3>1. rx.size >= Chunk(blkLen')
      BY <2>2, <2>3, <2>4, StateFacts, ChunkFacts
    <3>2. hsent = hcmd.n - blkLen' + rx.got
      BY <1>3, <2>3, <2>4, StateFacts
    <3>3. Storing'
      BY <1>1, <1>2, <2>1, <2>2, <2>4, <3>1, <3>2 DEF Storing, Filling
    <3> QED
      BY <1>2, <2>1, <3>3 DEF ShapeOK
  <2>5. CASE QueuedWrite /\ hsent = hcmd.n - blkLen + cnt + Stream
    <3>1. hsent = hcmd.n - blkLen' + Stream /\ hsent <= hcmd.n
      BY <1>2, <1>3, <2>3, <2>5, StateFacts DEF Storing
    <3>2. Chunk(blkLen') = Stream
      BY <2>2, <2>3, <3>1, StateFacts DEF Chunk, Least
    <3>3. Storing'
      BY <1>1, <1>2, <2>1, <2>2, <2>5, <3>1, <3>2 DEF Storing, QueuedWrite
    <3> QED
      BY <1>2, <2>1, <3>3 DEF ShapeOK
  <2> QED
    BY <1>1, <1>2, <1>5, <2>3, <2>4, <2>5 DEF Storing
<1> QED
  BY <1>2, <1>4, <1>5, StateFacts

(* The task in a READ: it reads, sends, or refuses with the wire free.     *)
LEMMA FetchingFacts ==
  ASSUME TypeOK, ShapeOK, pc \in {"readTake", "reading", "send", "sent", "prefetch"}
  PROVE  /\ Fetching /\ ~inStall /\ blkLen > 0 /\ botState = "DATA_IN"
         /\ cnt = Chunk(blkLen) /\ cnt > 0 /\ cnt <= blkLen
         /\ pc \in {"readTake", "reading", "send"} => q = <<>> /\ WireFree
<1>1. Fetching /\ ~inStall
  BY DEF ShapeOK, Resting, Answering, Storing
<1>2. /\ blkLen > 0 /\ botState = "DATA_IN" /\ cnt = Chunk(blkLen)
      /\ pc \in {"readTake", "reading", "send"} => q = <<>> /\ WireFree
  BY <1>1, StateFacts DEF Fetching
<1> QED
  BY <1>1, <1>2, StateFacts, ChunkFacts

LEMMA ReadRefusedShape ==
  ASSUME TypeOK, ShapeOK, pc \in {"readTake", "reading"}, Refuse, pc' = "wait",
         UNCHANGED <<hphase, hcmd, htag, q>>
  PROVE  ShapeOK'
<1>1. Fetching /\ ~inStall /\ q = <<>> /\ WireFree
  BY FetchingFacts
<1>2. tx' = CswTx("failed", cswTag, residue) /\ ~inStall' /\ rx' = ArmCbw /\ botState' = "IDLE"
  BY <1>1 DEF Refuse, SendCSW, Transmit, WireFree, NoTx
<1>3. Answering'
  BY <1>1, <1>2 DEF Answering, Fetching, CswTx, NoTx
<1> QED
  BY <1>2, <1>3 DEF ShapeOK

LEMMA TaskReadTakeShape ==
  ASSUME TypeOK, ShapeOK, TaskReadTake
  PROVE  ShapeOK'
<1>1. /\ pc = "readTake"
      /\ UNCHANGED <<hphase, hcmd, htag, hsent, hrecv, cswTag, blkAddr, blkLen, q, cnt>>
  BY DEF TaskReadTake, hostVars
<1>2. Fetching /\ ~inStall /\ q = <<>> /\ WireFree /\ cnt = Chunk(blkLen) /\ blkLen > 0
      /\ botState = "DATA_IN"
  BY <1>1, FetchingFacts
<1>3. CASE Refuse /\ pc' = "wait"
  BY <1>1, <1>3, ReadRefusedShape
<1>4. CASE UNCHANGED <<botState, epVars>> /\ (pc' = "send" \/ (pc' = "reading" /\ addr' = blkAddr /\ done' = 0))
  <2>1. UNCHANGED <<botState, rx, tx, inStall>>
    BY <1>4 DEF epVars
  <2>2. WireFree'
    BY <1>1, <1>2, <2>1 DEF WireFree
  <2>3. Fetching'
    BY <1>1, <1>2, <1>4, <2>1, <2>2, StateFacts DEF Fetching
  <2> QED
    BY <1>2, <2>1, <2>3 DEF ShapeOK
<1> QED
  BY <1>3, <1>4 DEF TaskReadTake

LEMMA TaskReadBlockShape ==
  ASSUME TypeOK, ShapeOK, TaskReadBlock
  PROVE  ShapeOK'
<1>1. /\ UNCHANGED <<hphase, hcmd, htag, hsent, hrecv, botState, cswTag, blkAddr, blkLen>>
      /\ UNCHANGED <<q, pc, cur, cnt, addr, rx, tx, inStall>>
      /\ done' = done + 1 /\ done < cnt /\ pc \in {"reading", "prefetch"}
  BY DEF TaskReadBlock, hostVars, hmscVars, pipeVars, epVars
<1>2. Fetching /\ ~inStall /\ done' <= cnt
  BY <1>1, FetchingFacts, StateFacts
<1>3. Fetching'
  BY <1>1, <1>2 DEF Fetching, WireFree, OnWire
<1> QED
  BY <1>1, <1>2, <1>3 DEF ShapeOK

LEMMA TaskReadFailShape ==
  ASSUME TypeOK, ShapeOK, TaskReadFail
  PROVE  ShapeOK'
<1>1. /\ UNCHANGED <<hphase, hcmd, htag, hsent, hrecv, cswTag, blkAddr, blkLen, q, cnt, cur>>
      /\ pc' = "wait" /\ pc \in {"reading", "prefetch"}
  BY DEF TaskReadFail, hostVars
<1>2. CASE pc = "reading"
  <2>1. Refuse
    BY <1>2 DEF TaskReadFail
  <2> QED
    BY <1>1, <1>2, <2>1, ReadRefusedShape
<1>3. CASE pc = "prefetch"
  <2>1. UNCHANGED <<botState, rx, tx, inStall>>
    BY <1>3 DEF TaskReadFail, ReadAheadFailed, epVars
  <2>2. Fetching /\ ~inStall
    BY <1>1, FetchingFacts
  <2>3. Fetching'
    BY <1>1, <1>3, <2>1, <2>2 DEF Fetching, WireFree, OnWire
  <2> QED
    BY <2>1, <2>2, <2>3 DEF ShapeOK
<1> QED
  BY <1>1, <1>2, <1>3

LEMMA TaskReadDoneShape ==
  ASSUME TypeOK, ShapeOK, TaskReadDone
  PROVE  ShapeOK'
<1>1. /\ UNCHANGED <<hphase, hcmd, htag, hsent, hrecv, botState, cswTag, blkAddr, blkLen>>
      /\ UNCHANGED <<q, cur, cnt, addr, done, rx, tx, inStall>>
      /\ pc \in {"reading", "prefetch"}
      /\ (pc = "reading" /\ pc' = "send") \/ (pc = "prefetch" /\ pc' = "wait")
  BY DEF TaskReadDone, hostVars, hmscVars, epVars
<1>2. Fetching /\ ~inStall
  BY <1>1, FetchingFacts
<1>3. Fetching'
  BY <1>1, <1>2 DEF Fetching, WireFree, OnWire
<1> QED
  BY <1>1, <1>2, <1>3 DEF ShapeOK

LEMMA TaskSendShape ==
  ASSUME TypeOK, ShapeOK, TaskSend
  PROVE  ShapeOK'
<1>1. /\ UNCHANGED <<hphase, hcmd, htag, hsent, hrecv, botState, cswTag, blkAddr, blkLen>>
      /\ UNCHANGED <<q, cur, cnt, addr, done, rx>>
      /\ pc = "send" /\ pc' = "sent" /\ Transmit(tx, DataTx(cur, cnt))
  BY DEF TaskSend, hostVars, hmscVars, pipeVars
<1>2. /\ Fetching /\ ~inStall /\ q = <<>> /\ WireFree /\ cnt = Chunk(blkLen) /\ blkLen > 0
      /\ botState = "DATA_IN" /\ cnt > 0
  BY <1>1, FetchingFacts
<1>3. tx' = DataTx(cur, cnt) /\ ~inStall'
  BY <1>1, <1>2 DEF Transmit, WireFree, NoTx
<1>4. tx'.kind = "data" /\ tx'.buf = cur /\ tx'.size = cnt /\ tx'.sent = 0
  BY <1>3 DEF DataTx, NoTx
<1>5. OnWire(blkLen)'
  BY <1>1, <1>2, <1>4, StateFacts DEF OnWire, WireFree
<1>6. Fetching'
  BY <1>1, <1>2, <1>4, <1>5 DEF Fetching
<1> QED
  BY <1>3, <1>6 DEF ShapeOK

LEMMA TaskSentShape ==
  ASSUME TypeOK, ShapeOK, TaskSent
  PROVE  ShapeOK'
<1>1. /\ UNCHANGED <<hphase, hcmd, htag, hsent, hrecv, cswTag, q, rx, tx, inStall>>
      /\ pc = "sent" /\ blkAddr' = blkAddr + cnt /\ blkLen' = Minus(blkLen, cnt)
  BY DEF TaskSent, hostVars, pipeVars, epVars
<1>2. /\ Fetching /\ ~inStall /\ cnt <= blkLen /\ cnt = Chunk(blkLen)
      /\ OnWire(blkLen) /\ tx.buf = cur /\ tx.size = cnt /\ botState = "DATA_IN"
  BY <1>1, FetchingFacts DEF Fetching
<1>3. blkLen' = blkLen - cnt /\ blkLen' \in Nat /\ blkLen = blkLen' + cnt
  <2>1. blkLen \in Nat /\ cnt \in Nat /\ cnt <= blkLen
    BY <1>2, StateFacts
  <2>2. blkLen' = blkLen - cnt
    BY <1>1, <2>1 DEF Minus
  <2> QED
    BY <2>1, <2>2
<1>4. /\ blkLen' \in 0 .. hcmd.n /\ blkAddr' + blkLen' = hcmd.lba + hcmd.n
  <2>1. /\ blkLen \in Nat /\ cnt \in Nat /\ hcmd.n \in Nat /\ blkAddr \in Nat
        /\ blkLen <= hcmd.n /\ blkAddr + blkLen = hcmd.lba + hcmd.n
    BY <1>2, StateFacts DEF Fetching
  <2> QED
    BY <1>1, <1>2, <1>3, <2>1
<1>5. OnWire(blkLen + tx.size)'
  BY <1>1, <1>2, <1>3 DEF OnWire
<1>6. CASE blkLen' = 0
  <2>1. botState' = "LAST_DATA_IN" /\ pc' = "wait"
    BY <1>6 DEF TaskSent
  <2>2. OnWire(tx.size)'
    BY <1>1, <1>2, <1>3, <1>6, StateFacts DEF OnWire
  <2>3. Fetching'
    BY <1>1, <1>2, <1>4, <1>6, <2>1, <2>2 DEF Fetching
  <2> QED
    BY <1>1, <1>2, <2>3 DEF ShapeOK
<1>7. CASE blkLen' # 0
  <2>1. /\ botState' = "DATA_IN" /\ pc' = "prefetch" /\ cur' = NextBuf(cur)
        /\ cnt' = Chunk(blkLen') /\ addr' = blkAddr' /\ done' = 0
    BY <1>2, <1>7 DEF TaskSent
  <2>2. tx.buf = 1 - cur'
    BY <1>2, <2>1, StateFacts DEF NextBuf, BufIds
  <2>3. 0 <= cnt'
    BY <1>3, <2>1, ChunkFacts, StateFacts
  <2>4. blkLen' > 0 /\ done' <= cnt'
    BY <1>3, <1>7, <2>1, <2>3
  <2>5. hcmd'.op = "read" /\ hphase' = "datain" /\ cswTag' = htag' /\ ~rx'.armed
        /\ tx'.size > 0 /\ tx'.buf = 1 - cur'
    BY <1>1, <1>2, <2>2, FetchingFacts, StateFacts DEF Fetching
  <2>6. Fetching'
    BY <1>1, <1>4, <1>5, <2>1, <2>4, <2>5 DEF Fetching
  <2> QED
    BY <1>1, <1>2, <2>6 DEF ShapeOK
<1> QED
  BY <1>6, <1>7

(* As long as the bus is not reset.                                        *)
LEMMA ShapeStep ==
  ASSUME TypeOK, ShapeOK, ContainedFaults, ~BusReset, [Next]_vars
  PROVE  ShapeOK'
<1>1. CASE HostIssue
  BY <1>1, HostIssueShape
<1>2. CASE Wire
  BY <1>2, OutCbwShape, OutBlockShape, InDataShape, InCswShape DEF Wire
<1>3. CASE TaskRecv
  BY <1>3, TaskRecvShape
<1>4. CASE TaskWriteArm \/ TaskWriteBlock \/ TaskWriteFail \/ TaskWriteDone
  BY <1>4, TaskWriteArmShape, TaskWriteBlockShape, TaskWriteFailShape, TaskWriteDoneShape
<1>5. CASE TaskReadTake \/ TaskReadBlock \/ TaskReadFail \/ TaskReadDone
  BY <1>5, TaskReadTakeShape, TaskReadBlockShape, TaskReadFailShape, TaskReadDoneShape
<1>6. CASE TaskSend \/ TaskSent
  BY <1>6, TaskSendShape, TaskSentShape
<1>7. CASE HostReset
  BY <1>7, HostResetShape
<1>8. ~HostConfigure
  BY DEF ShapeOK, Resting, Answering, Storing, Fetching, HostConfigure
<1>9. CASE UNCHANGED vars
  <2>1. /\ UNCHANGED <<hphase, hcmd, htag, hsent, hrecv, botState, cswTag, blkAddr, blkLen>>
        /\ UNCHANGED <<sIdx, q, pc, cur, cnt, addr, done, rx, tx, inStall>>
    BY <1>9 DEF vars, hostVars, hmscVars, pipeVars, taskVars, epVars
  <2> QED
    BY <2>1 DEF ShapeOK, Resting, Answering, Storing, Fetching, QueuedWrite, Filling,
                Holding, OnWire, WireFree
<1> QED
  BY <1>1, <1>2, <1>3, <1>4, <1>5, <1>6, <1>7, <1>8, <1>9 DEF Next, Task

-----------------------------------------------------------------------------
(* The task alone, after a bus reset                                       *)

(* The reset takes the endpoints from under a transfer; what the task and  *)
(* its queue have is what the shape said they had.                         *)
LEMMA BusResetShape ==
  ASSUME TypeOK, ShapeOK, BusReset
  PROVE  Unwinding'
<1>1. /\ hphase' = "off" /\ rx' = Disarmed(rx) /\ tx' = NoTx /\ ~inStall'
      /\ UNCHANGED <<hcmd, hsent, blkAddr, blkLen, sIdx, q, pc, cur, cnt, addr, done>>
  BY DEF BusReset, pipeVars, taskVars
<1>2. ~rx'.armed /\ tx'.kind = "none"
  BY <1>1 DEF Disarmed, NoTx, TypeOK, EndpointTypes, RxOK
<1>3. ~DataOnWire' /\ ~DataArmed'
  BY <1>2 DEF DataOnWire, DataArmed
<1>4. CASE Resting \/ Answering
  BY <1>1, <1>3, <1>4 DEF Resting, Answering, AtRest, Unwinding
<1>5. CASE Storing
  <2>1. AtRest' \/ StoringAlone'
    BY <1>1, <1>2, <1>5
       DEF Storing, Filling, Holding, QueuedWrite, AtRest, StoringAlone
  <2> QED
    BY <1>1, <1>3, <2>1 DEF Unwinding
<1>6. CASE Fetching
  <2>1. AtRest' \/ FetchingAlone'
    <3>1. CASE blkLen = 0
      BY <1>1, <1>6, <3>1 DEF Fetching, OnWire, AtRest
    <3>2. CASE blkLen # 0
      BY <1>1, <1>2, <1>6, <3>2 DEF Fetching, OnWire, WireFree, AtRest, FetchingAlone
    <3> QED
      BY <3>1, <3>2
  <2> QED
    BY <1>1, <1>3, <2>1 DEF Unwinding
<1> QED
  BY <1>4, <1>5, <1>6 DEF ShapeOK

(* What the task is at tells in which of the two transfers it is.          *)
LEMMA AloneFacts ==
  ASSUME TypeOK, Unwinding
  PROVE  /\ hphase = "off" /\ ~inStall
         /\ pc \in {"writeArm", "writing"} =>
              StoringAlone /\ cnt = Chunk(blkLen) /\ cnt <= blkLen /\ tx = NoTx /\ hcmd.op = "write"
         /\ pc \in {"readTake", "reading", "send", "sent", "prefetch"} =>
              FetchingAlone /\ ~rx.armed /\ hcmd.op = "read" /\ cnt = Chunk(blkLen) /\ cnt <= blkLen
         /\ pc = "writing" => addr = blkAddr /\ done <= cnt /\ addr + cnt <= NumBlocks
         /\ pc = "writing" /\ cnt = blkLen => Holding
         /\ pc \in {"readTake", "reading", "send"} => q = <<>> /\ tx = NoTx
<1>1. ASSUME pc \in {"writeArm", "writing"}
      PROVE  /\ StoringAlone /\ cnt = Chunk(blkLen) /\ cnt <= blkLen /\ tx = NoTx
             /\ hcmd.op = "write"
             /\ pc = "writing" => addr = blkAddr /\ done <= cnt
             /\ blkAddr + blkLen = hcmd.lba + hcmd.n
  <2>1. StoringAlone
    BY <1>1 DEF Unwinding, AtRest, FetchingAlone
  <2>2. cnt = Chunk(blkLen) /\ Chunk(blkLen) <= blkLen
    BY <1>1, <2>1, StateFacts, ChunkFacts DEF StoringAlone
  <2> QED
    BY <1>1, <2>1, <2>2 DEF StoringAlone
<1>2. ASSUME pc = "writing"
      PROVE  addr + cnt <= NumBlocks /\ (cnt = blkLen => Holding)
  <2>1. \A a, c, l, b, n \in Nat :
          c <= l /\ a + l = b + n /\ b + n <= NumBlocks => a + c <= NumBlocks
    BY SizesAssumption
  <2>2. addr + cnt <= NumBlocks
    BY <1>1, <1>2, <2>1, StateFacts
  <2>3. cnt = blkLen => Holding
    BY <1>1, <1>2, StateFacts DEF StoringAlone
  <2> QED
    BY <2>2, <2>3
<1>3. ASSUME pc \in {"readTake", "reading", "send", "sent", "prefetch"}
      PROVE  /\ FetchingAlone /\ ~rx.armed /\ hcmd.op = "read"
             /\ cnt = Chunk(blkLen) /\ cnt <= blkLen
             /\ pc \in {"readTake", "reading", "send"} => q = <<>> /\ tx = NoTx
  <2>1. FetchingAlone
    BY <1>3 DEF Unwinding, AtRest, StoringAlone
  <2>2. cnt = Chunk(blkLen) /\ Chunk(blkLen) <= blkLen
    BY <1>3, <2>1, StateFacts, ChunkFacts DEF FetchingAlone
  <2> QED
    BY <1>3, <2>1, <2>2 DEF FetchingAlone
<1>4. hphase = "off" /\ ~inStall
  BY DEF Unwinding
<1> QED
  BY <1>1, <1>2, <1>3, <1>4

(* A status nobody will fetch ends what the task was doing.                *)
LEMMA AnswerAlone ==
  ASSUME TypeOK, Unwinding, tx = NoTx, q = <<>>, q' = q, pc' = "wait",
         UNCHANGED <<hphase, hcmd>>,
         NEW st, NEW tag, NEW res, SendCSW(tx, st, tag, res)
  PROVE  Unwinding'
<1>1. rx' = ArmCbw /\ tx' = CswTx(st, tag, res) /\ ~inStall'
  BY DEF SendCSW, Transmit, NoTx, Unwinding
<1>2. ~DataArmed' /\ ~DataOnWire'
  BY <1>1 DEF DataArmed, DataOnWire, ArmCbw, Arm, CswTx, NoTx
<1> QED
  BY <1>1, <1>2 DEF Unwinding, AtRest

LEMMA TaskRecvAlone ==
  ASSUME TypeOK, Unwinding, TaskRecv
  PROVE  Unwinding'
<1>1. /\ UNCHANGED <<hphase, hcmd, hsent, blkAddr, blkLen, sIdx, rx, tx, inStall>>
      /\ q # <<>> /\ q' = Tail(q) /\ cur' = Head(q).buf /\ cnt' = Chunk(blkLen) /\ pc = "wait"
  BY DEF TaskRecv, hostVars, hmscVars, epVars
<1>2. DataArmed' = DataArmed /\ DataOnWire' = DataOnWire
  BY <1>1 DEF DataArmed, DataOnWire
<1>3. CASE StoringAlone
  <2>1. QueuedWrite /\ hsent = hcmd.n - blkLen + Chunk(blkLen)
    BY <1>1, <1>3 DEF StoringAlone
  <2>2. q' = <<>> /\ cur' = sIdx /\ Head(q).op = "write"
    BY <1>1, <2>1 DEF QueuedWrite
  <2>3. pc' = "writeArm"
    BY <2>2 DEF TaskRecv
  <2>4. Holding'
    BY <1>1, <2>1, <2>2 DEF Holding, QueuedWrite
  <2>5. StoringAlone'
    BY <1>1, <1>3, <2>1, <2>2, <2>3, <2>4 DEF StoringAlone
  <2> QED
    BY <1>1, <1>2, <2>5 DEF Unwinding
<1>4. CASE FetchingAlone
  <2>1. Len(q) = 1 /\ q[1].op = "read" /\ tx = NoTx
    BY <1>1, <1>4 DEF FetchingAlone
  <2>2. Tail(q) = <<>> /\ Head(q) = q[1]
    <3>1. q \in Seq(SigItems) /\ Tail(q) \in Seq(SigItems) /\ Len(Tail(q)) = 0
      BY <1>1, <2>1 DEF TypeOK, PipeTypes
    <3>2. Tail(q) # <<>> => Len(Tail(q)) \in Nat \ {0}
      BY <3>1, EmptySeq, Zenon
    <3>3. Head(q) = q[1]
      BY <2>1, <3>1
    <3> QED
      BY <3>1, <3>2, <3>3
  <2>3. pc' = "readTake" /\ q' = <<>>
    BY <1>1, <2>1, <2>2 DEF TaskRecv
  <2>4. FetchingAlone'
    BY <1>1, <1>4, <2>1, <2>3 DEF FetchingAlone
  <2> QED
    BY <1>1, <1>2, <2>4 DEF Unwinding
<1> QED
  BY <1>1, <1>3, <1>4 DEF Unwinding, AtRest

LEMMA TaskWriteArmAlone ==
  ASSUME TypeOK, Unwinding, TaskWriteArm
  PROVE  Unwinding'
<1>1. /\ UNCHANGED <<hphase, hcmd, hsent, blkAddr, blkLen, q, cur, cnt, tx, inStall>>
      /\ pc = "writeArm" /\ pc' = "writing" /\ addr' = blkAddr /\ done' = 0
  BY DEF TaskWriteArm, hostVars, hmscVars
<1>2. /\ StoringAlone /\ Holding /\ cnt = Chunk(blkLen) /\ cnt <= blkLen /\ tx = NoTx
      /\ hcmd.op = "write"
  BY <1>1, AloneFacts DEF StoringAlone
<1>3. done' <= cnt'
  BY <1>1, StateFacts
<1>4. ~DataOnWire'
  BY <1>1, <1>2 DEF DataOnWire, NoTx
<1>5. CASE cnt < blkLen
  <2>1. sIdx' = 1 - cur /\ rx'.armed /\ rx'.dst = sIdx'
    BY <1>5 DEF TaskWriteArm, MoreToCome, Arm, NextBuf
  <2>2. StoringAlone'
    BY <1>1, <1>2, <1>3, <1>5, <2>1 DEF StoringAlone, Holding
  <2> QED
    BY <1>1, <1>2, <1>4, <2>2, AloneFacts DEF Unwinding
<1>6. CASE cnt = blkLen
  <2>1. UNCHANGED <<sIdx, rx>>
    BY <1>6, StateFacts DEF TaskWriteArm, MoreToCome
  <2>2. StoringAlone'
    BY <1>1, <1>2, <1>3, <1>6, <2>1 DEF StoringAlone, Holding
  <2> QED
    BY <1>1, <1>2, <1>4, <2>2, AloneFacts DEF Unwinding
<1> QED
  BY <1>2, <1>5, <1>6, StateFacts

LEMMA TaskWriteBlockAlone ==
  ASSUME TypeOK, Unwinding, TaskWriteBlock
  PROVE  Unwinding'
<1>1. /\ UNCHANGED <<hphase, hcmd, hsent, blkAddr, blkLen, sIdx, q, pc, cur, cnt, addr>>
      /\ UNCHANGED <<rx, tx, inStall>>
      /\ done' = done + 1 /\ pc = "writing" /\ done < cnt
  BY DEF TaskWriteBlock, hostVars, hmscVars, pipeVars, epVars
<1>2. done' <= cnt
  BY <1>1, StateFacts
<1>3. StoringAlone'
  BY <1>1, <1>2, AloneFacts DEF StoringAlone, QueuedWrite, Holding
<1> QED
  BY <1>1, <1>3 DEF Unwinding, DataArmed, DataOnWire

LEMMA TaskWriteFailAlone ==
  ASSUME TypeOK, Unwinding, ContainedFaults, TaskWriteFail
  PROVE  Unwinding'
<1>1. pc = "writing" /\ cnt = blkLen
  <2>1. ~(addr + done >= NumBlocks)
    BY AloneFacts, StateFacts, SizesAssumption DEF TaskWriteFail
  <2> QED
    BY <2>1 DEF ContainedFaults, TaskWriteFail
<1>2. tx = NoTx /\ q = <<>>
  BY <1>1, AloneFacts DEF Holding
<1>3. SendCSW(tx, "failed", cswTag, residue) /\ UNCHANGED <<hphase, hcmd, q>> /\ pc' = "wait"
  BY DEF TaskWriteFail, Refuse, hostVars, pipeVars
<1> QED
  BY <1>2, <1>3, AnswerAlone

LEMMA TaskWriteDoneAlone ==
  ASSUME TypeOK, Unwinding, TaskWriteDone
  PROVE  Unwinding'
<1>1. /\ UNCHANGED <<hphase, hcmd, hsent, q, sIdx>> /\ pc = "writing" /\ pc' = "wait"
      /\ blkAddr' = blkAddr + cnt /\ blkLen' = Minus(blkLen, cnt)
  BY DEF TaskWriteDone, hostVars, pipeVars
<1>2. StoringAlone /\ cnt = Chunk(blkLen) /\ cnt <= blkLen /\ tx = NoTx
  BY <1>1, AloneFacts
<1>3. blkLen' = blkLen - cnt
  BY <1>1, <1>2 DEF Minus
<1>4. CASE cnt = blkLen
  <2>1. blkLen' = 0 /\ q = <<>>
    BY <1>1, <1>3, <1>4, AloneFacts, StateFacts DEF Holding
  <2>2. SendCSW(tx, "passed", cswTag, residue')
    BY <2>1 DEF TaskWriteDone
  <2> QED
    BY <1>1, <1>2, <2>1, <2>2, AnswerAlone
<1>5. CASE cnt < blkLen
  <2>1. blkLen' # 0
    <3>1. blkLen \in Nat /\ cnt \in Nat
      BY StateFacts
    <3> QED
      BY <1>3, <1>5, <3>1
  <2>2. UNCHANGED <<rx, tx, inStall>>
    BY <2>1 DEF TaskWriteDone, epVars
  <2>3. AtRest' \/ StoringAlone'
    <3>1. CASE q = <<>>
      BY <1>1, <3>1 DEF AtRest
    <3>2. CASE q # <<>>
      <4>1. QueuedWrite /\ hsent = hcmd.n - blkLen + cnt + Stream
        BY <1>1, <1>2, <1>5, <3>2, StateFacts DEF StoringAlone, Holding
      <4>2. /\ blkLen \in Nat /\ cnt \in Nat /\ hcmd.n \in Nat /\ blkAddr \in Nat
            /\ hcmd.lba \in Nat /\ Stream \in Nat /\ hsent <= hcmd.n /\ blkLen <= hcmd.n
            /\ blkAddr + blkLen = hcmd.lba + hcmd.n
        BY <1>2, StateFacts DEF StoringAlone
      <4>3. hsent = hcmd.n - (blkLen - cnt) + Stream
        BY <4>1, <4>2
      <4>4. /\ blkLen - cnt \in 1 .. hcmd.n /\ Stream <= blkLen - cnt
            /\ (blkAddr + cnt) + (blkLen - cnt) = hcmd.lba + hcmd.n
        <5>1. blkLen - cnt \in 1 .. hcmd.n
          BY <1>5, <4>2
        <5>2. Stream <= blkLen - cnt
          BY <4>2, <4>3, <5>1
        <5>3. (blkAddr + cnt) + (blkLen - cnt) = hcmd.lba + hcmd.n
          BY <4>2
        <5> QED
          BY <5>1, <5>2, <5>3
      <4>5. Chunk(blkLen') = Stream
        BY <1>3, <4>4, StateFacts DEF Chunk, Least
      <4>6. QueuedWrite'
        BY <1>1, <2>2, <4>1 DEF QueuedWrite
      <4>7. StoringAlone'
        BY <1>1, <1>2, <1>3, <2>2, <4>2, <4>3, <4>4, <4>5, <4>6 DEF StoringAlone
      <4> QED
        BY <4>7
    <3> QED
      BY <3>1, <3>2
  <2> QED
    BY <1>1, <2>2, <2>3 DEF Unwinding, DataArmed, DataOnWire
<1> QED
  BY <1>2, <1>4, <1>5, StateFacts

LEMMA TaskReadAlone ==
  ASSUME TypeOK, Unwinding, TaskReadTake \/ TaskReadBlock \/ TaskReadFail \/ TaskReadDone
  PROVE  Unwinding'
<1>1. /\ UNCHANGED <<hphase, hcmd, hsent, blkAddr, blkLen, q, cnt>>
      /\ pc \in {"readTake", "reading", "prefetch"}
      /\ FetchingAlone /\ ~rx.armed /\ hcmd.op = "read" /\ cnt = Chunk(blkLen)
  <2>1. /\ UNCHANGED <<hphase, hcmd, hsent, blkAddr, blkLen, q, cnt>>
        /\ pc \in {"readTake", "reading", "prefetch"}
    BY DEF TaskReadTake, TaskReadBlock, TaskReadFail, TaskReadDone, hostVars, hmscVars, pipeVars
  <2> QED
    BY <2>1, AloneFacts
<1>2. ASSUME Refuse, pc' = "wait", pc \in {"readTake", "reading"}
      PROVE  Unwinding'
  <2>1. tx = NoTx /\ q = <<>>
    BY <1>2, AloneFacts
  <2>2. SendCSW(tx, "failed", cswTag, residue)
    BY <1>2 DEF Refuse
  <2> QED
    BY <1>1, <1>2, <2>1, <2>2, AnswerAlone
<1>3. ASSUME UNCHANGED epVars, UNCHANGED cur \/ pc # "prefetch",
             \/ pc \in {"readTake", "reading"} /\ pc' \in {"reading", "send"}
             \/ pc = "prefetch" /\ pc' \in {"prefetch", "wait"}
      PROVE  Unwinding'
  <2>1. UNCHANGED <<rx, tx, inStall>>
    BY <1>3 DEF epVars
  <2>2. AtRest' \/ FetchingAlone'
    BY <1>1, <1>3, <2>1 DEF FetchingAlone, AtRest
  <2> QED
    BY <1>1, <2>1, <2>2 DEF Unwinding, DataArmed, DataOnWire
<1>4. CASE TaskReadTake
  BY <1>2, <1>3, <1>4 DEF TaskReadTake
<1>5. CASE TaskReadBlock
  BY <1>3, <1>5 DEF TaskReadBlock
<1>6. CASE TaskReadFail
  BY <1>2, <1>3, <1>6 DEF TaskReadFail, ReadAheadFailed
<1>7. CASE TaskReadDone
  BY <1>3, <1>7 DEF TaskReadDone
<1> QED
  BY <1>4, <1>5, <1>6, <1>7

LEMMA TaskSendAlone ==
  ASSUME TypeOK, Unwinding, TaskSend \/ TaskSent
  PROVE  Unwinding'
<1>1. CASE TaskSend
  <2>1. /\ UNCHANGED <<hphase, hcmd, hsent, blkAddr, blkLen, q, cur, cnt, rx>>
        /\ pc = "send" /\ pc' = "sent" /\ Transmit(tx, DataTx(cur, cnt))
    BY <1>1 DEF TaskSend, hostVars, hmscVars, pipeVars
  <2>2. FetchingAlone /\ ~rx.armed /\ hcmd.op = "read" /\ q = <<>> /\ tx = NoTx
    BY <2>1, AloneFacts
  <2>3. tx' = DataTx(cur, cnt) /\ ~inStall'
    BY <2>1, <2>2, AloneFacts DEF Transmit, NoTx
  <2>4. tx'.kind = "data" /\ tx'.buf = cur
    BY <2>3 DEF DataTx, NoTx
  <2>5. FetchingAlone'
    BY <2>1, <2>2, <2>4 DEF FetchingAlone
  <2> QED
    BY <2>1, <2>2, <2>3, <2>5, AloneFacts DEF Unwinding, DataArmed
<1>2. CASE TaskSent
  <2>1. /\ UNCHANGED <<hphase, hcmd, hsent, q, rx, tx, inStall>> /\ pc = "sent"
        /\ blkLen' = Minus(blkLen, cnt)
    BY <1>2 DEF TaskSent, hostVars, pipeVars, epVars
  <2>2. /\ FetchingAlone /\ ~rx.armed /\ hcmd.op = "read" /\ cnt <= blkLen
        /\ blkLen \in 1 .. hcmd.n /\ q = <<>>
        /\ (tx # NoTx => tx.kind = "data" /\ tx.buf = cur)
    BY <2>1, AloneFacts DEF FetchingAlone
  <2>3. blkLen' \in 0 .. hcmd.n
    <3>1. blkLen' = blkLen - cnt
      BY <2>1, <2>2 DEF Minus
    <3>2. blkLen \in Nat /\ cnt \in Nat /\ hcmd.n \in Nat
      BY StateFacts
    <3> QED
      BY <2>2, <3>1, <3>2
  <2>4. AtRest' \/ FetchingAlone'
    <3>1. CASE blkLen' = 0
      BY <1>2, <2>1, <2>2, <3>1 DEF TaskSent, AtRest
    <3>2. CASE blkLen' # 0
      <4>1. pc' = "prefetch" /\ cur' = 1 - cur /\ cnt' = Chunk(blkLen')
        BY <1>2, <3>2 DEF TaskSent, NextBuf
      <4>2. cur \in {0, 1} /\ hcmd.n \in Nat
        BY StateFacts DEF BufIds
      <4>3. cur = 1 - cur' /\ blkLen' \in 1 .. hcmd.n
        BY <2>3, <3>2, <4>1, <4>2
      <4> QED
        BY <2>1, <2>2, <4>1, <4>3 DEF FetchingAlone
    <3> QED
      BY <3>1, <3>2
  <2> QED
    BY <2>1, <2>2, <2>4 DEF Unwinding, DataArmed, DataOnWire
<1> QED
  BY <1>1, <1>2

(* The host finds the task at rest, and makes the endpoints those of a     *)
(* device between two commands.                                            *)
LEMMA HostConfigureShape ==
  ASSUME Unwinding, ContainedFaults, HostConfigure
  PROVE  ShapeOK'
<1>1. pc = "wait" /\ q = <<>>
  BY DEF ContainedFaults, HostConfigure
<1>2. Resting' /\ ~inStall'
  BY <1>1 DEF HostConfigure, InitEndpoints, Resting, pipeVars, taskVars
<1> QED
  BY <1>2 DEF ShapeOK

(* Until then only the task moves.                                         *)
LEMMA UnwindStep ==
  ASSUME TypeOK, Unwinding, ContainedFaults, [Next]_vars, ~HostConfigure
  PROVE  Unwinding'
<1>1. ~HostIssue /\ ~Wire /\ ~HostReset /\ ~BusReset
  BY DEF Unwinding, HostIssue, Wire, OutCbw, OutBlock, InData, InCsw, HostReset, BusReset
<1>2. CASE TaskRecv
  BY <1>2, TaskRecvAlone
<1>3. CASE TaskWriteArm \/ TaskWriteBlock \/ TaskWriteFail \/ TaskWriteDone
  BY <1>3, TaskWriteArmAlone, TaskWriteBlockAlone, TaskWriteFailAlone, TaskWriteDoneAlone
<1>4. CASE TaskReadTake \/ TaskReadBlock \/ TaskReadFail \/ TaskReadDone
  BY <1>4, TaskReadAlone
<1>5. CASE TaskSend \/ TaskSent
  BY <1>5, TaskSendAlone
<1>6. CASE UNCHANGED vars
  <2>1. /\ UNCHANGED <<hphase, hcmd, hsent, blkAddr, blkLen, sIdx, q, pc, cur, cnt, addr>>
        /\ UNCHANGED <<done, rx, tx, inStall>>
    BY <1>6 DEF vars, hostVars, hmscVars, pipeVars, taskVars, epVars
  <2> QED
    BY <2>1 DEF Unwinding, AtRest, StoringAlone, FetchingAlone, QueuedWrite, Holding,
                DataArmed, DataOnWire
<1> QED
  BY <1>1, <1>2, <1>3, <1>4, <1>5, <1>6 DEF Next, Task

LEMMA TransferStep ==
  ASSUME TypeOK, TransferShape, ContainedFaults, [Next]_vars
  PROVE  TransferShape'
<1>1. CASE ShapeOK
  BY <1>1, ShapeStep, BusResetShape DEF TransferShape
<1>2. CASE Unwinding
  BY <1>2, UnwindStep, HostConfigureShape DEF TransferShape
<1> QED
  BY <1>1, <1>2 DEF TransferShape

(* While faults are contained every transfer keeps to its shape: what the  *)
(* device believes is left agrees with what the host has sent or received, *)
(* and after a bus reset the task ends what it had begun.                  *)
THEOREM ShapeKept == ContainedFaults => (Spec => []TransferShape)
<1> SUFFICES ASSUME ContainedFaults
             PROVE  Spec => []TransferShape
  OBVIOUS
<1>1. Init => TypeOK /\ TransferShape
  BY TypeInit, ShapeInit DEF TransferShape
<1>2. TypeOK /\ TransferShape /\ [Next]_vars => TypeOK' /\ TransferShape'
  BY TypeStep, TransferStep
<1> QED
  BY <1>1, <1>2, PTL DEF Spec

-----------------------------------------------------------------------------
(* What the shape entails                                                  *)

LEMMA ShapeHasOneToken == TypeOK /\ ShapeOK => SingleToken
<1> SUFFICES ASSUME TypeOK, ShapeOK
             PROVE  SingleToken
  OBVIOUS
<1>1. CASE Resting \/ Answering
  BY <1>1 DEF Resting, Answering, SingleToken, DataArmed, DataOnWire, ArmCbw, Arm, NoTx
<1>2. CASE Storing
  <2>1. tx.kind = "none" /\ (QueuedWrite \/ Filling \/ Holding)
    BY <1>2 DEF Storing, NoTx
  <2>2. Len(q) <= 1 /\ (q # <<>> => ~rx.armed)
    <3>1. CASE QueuedWrite
      <4>1. \A e : Len(<<e>>) = 1
        OBVIOUS
      <4> QED
        BY <3>1, <4>1 DEF QueuedWrite
    <3>2. CASE Filling \/ Holding
      BY <3>2 DEF Filling, Holding
    <3> QED
      BY <2>1, <3>1, <3>2
  <2> QED
    BY <2>1, <2>2 DEF SingleToken, DataArmed, DataOnWire
<1>3. CASE Fetching
  <2>1. ~rx.armed /\ (q = <<>> \/ (Len(q) = 1 /\ tx.kind = "none"))
    BY <1>3 DEF Fetching, WireFree, OnWire, NoTx
  <2>2. Len(q) \in {0, 1}
    BY <2>1
  <2>3. Len(q) <= 1
    BY <2>2
  <2> QED
    BY <2>1, <2>3 DEF SingleToken, DataArmed, DataOnWire
<1> QED
  BY <1>1, <1>2, <1>3 DEF ShapeOK

(* A waiting task holds no buffer; a writing one not the other buffer.      *)
LEMMA OtherBuf ==
  ASSUME TypeOK, pc = "wait" \/ (pc = "writing" /\ sIdx = 1 - cur)
  PROVE  sIdx \notin TaskBufs
<1>1. cur \in {0, 1}
  BY StateFacts DEF BufIds
<1>2. CASE pc = "wait"
  BY <1>2 DEF TaskBufs
<1>3. CASE pc = "writing" /\ sIdx = 1 - cur
  <2>1. sIdx # cur
    BY <1>1, <1>3
  <2> QED
    BY <2>1 DEF TaskBufs
<1> QED
  BY <1>2, <1>3

LEMMA ShapeKeepsOwners == TypeOK /\ ShapeOK => BufferOwnership
<1> SUFFICES ASSUME TypeOK, ShapeOK
             PROVE  BufferOwnership
  OBVIOUS
<1> USE DEF BufferOwnership
<1>1. CASE Resting \/ Answering
  BY <1>1 DEF Resting, Answering, WireBufs, TaskBufs, QueueBufs, ArmCbw, Arm, NoTx, Cbw, BufIds
<1>2. CASE Storing
  <2>1. tx.kind = "none"
    BY <1>2 DEF Storing, NoTx
  <2>2. CASE QueuedWrite
    <3>1. WireBufs = {} /\ QueueBufs \subseteq {sIdx}
      BY <2>1, <2>2 DEF QueuedWrite, WireBufs, QueueBufs
    <3>2. sIdx \notin TaskBufs
      <4>1. pc = "wait" \/ (pc = "writing" /\ sIdx = 1 - cur)
        BY <1>2, <2>2 DEF Storing, QueuedWrite, Filling, Holding
      <4> QED
        BY <4>1, OtherBuf
    <3> QED
      BY <3>1, <3>2
  <2>3. CASE Filling
    <3>1. WireBufs \subseteq {sIdx} /\ QueueBufs = {}
      BY <2>1, <2>3 DEF Filling, WireBufs, QueueBufs
    <3>2. sIdx \notin TaskBufs
      <4>1. pc = "wait" \/ (pc = "writing" /\ sIdx = 1 - cur)
        BY <1>2, <2>3 DEF Storing, QueuedWrite, Filling, Holding
      <4> QED
        BY <4>1, OtherBuf
    <3> QED
      BY <3>1, <3>2
  <2>4. CASE Holding
    BY <2>1, <2>4 DEF Holding, WireBufs, QueueBufs
  <2> QED
    BY <1>2, <2>2, <2>3, <2>4 DEF Storing
<1>3. CASE Fetching
  <2>1. ~rx.armed /\ QueueBufs = {}
    BY <1>3 DEF Fetching, OnWire, QueueBufs
  <2>2. tx.kind # "data" \/ (pc = "prefetch" /\ tx.buf = 1 - cur) \/ pc \in {"wait", "sent"}
    BY <1>3 DEF Fetching, WireFree, OnWire, NoTx
  <2>3. WireBufs \cap TaskBufs = {}
    <3>1. CASE tx.kind # "data"
      BY <2>1, <3>1 DEF WireBufs
    <3>2. CASE pc = "prefetch" /\ tx.buf = 1 - cur
      <4>1. cur \in {0, 1}
        BY StateFacts DEF BufIds
      <4>2. tx.buf # cur
        BY <3>2, <4>1
      <4> QED
        BY <2>1, <4>2 DEF WireBufs, TaskBufs
    <3>3. CASE pc \in {"wait", "sent"}
      BY <3>3 DEF TaskBufs
    <3> QED
      BY <2>2, <3>1, <3>2, <3>3
  <2> QED
    BY <2>1, <2>3
<1> QED
  BY <1>1, <1>2, <1>3 DEF ShapeOK

LEMMA ShapeFreesEndpoint == TypeOK /\ ShapeOK => InEndpointFree
<1> SUFFICES ASSUME TypeOK, ShapeOK, pc \in {"readTake", "send", "reading", "writing"}
             PROVE  tx.kind = "none"
  BY DEF InEndpointFree
<1>1. CASE pc = "writing"
  BY <1>1, WritingFacts DEF Storing, NoTx
<1>2. CASE pc \in {"readTake", "send", "reading"}
  BY <1>2, FetchingFacts DEF WireFree, NoTx
<1> QED
  BY <1>1, <1>2

LEMMA ShapeLeavesNothing == ShapeOK => NothingLeftOver /\ HostNotConfused
  BY DEF ShapeOK, Resting, Answering, Storing, Fetching, NothingLeftOver,
         HostNotConfused, NoTx

(* The same of the task alone.                                             *)
LEMMA AloneHasOneToken == TypeOK /\ Unwinding => SingleToken
<1> SUFFICES ASSUME TypeOK, Unwinding
             PROVE  SingleToken
  OBVIOUS
<1>1. ~(DataArmed /\ DataOnWire)
  BY DEF Unwinding
<1>2. CASE q = <<>>
  BY <1>1, <1>2 DEF SingleToken
<1>3. CASE q # <<>>
  <2>1. \/ QueuedWrite /\ tx = NoTx
        \/ Len(q) = 1 /\ tx = NoTx /\ ~rx.armed
    BY <1>3 DEF Unwinding, AtRest, StoringAlone, FetchingAlone, Holding
  <2>2. Len(q) = 1 /\ ~rx.armed
    <3>1. \A e : Len(<<e>>) = 1
      OBVIOUS
    <3> QED
      BY <2>1, <3>1 DEF QueuedWrite
  <2>3. Len(q) <= 1
    BY <2>2
  <2> QED
    BY <2>1, <2>2, <2>3 DEF SingleToken, DataArmed, DataOnWire, NoTx
<1> QED
  BY <1>2, <1>3

LEMMA AloneKeepsOwners == TypeOK /\ Unwinding => BufferOwnership
<1> SUFFICES ASSUME TypeOK, Unwinding
             PROVE  BufferOwnership
  OBVIOUS
<1>1. CASE AtRest
  BY <1>1 DEF AtRest, BufferOwnership, TaskBufs, QueueBufs
<1>2. CASE StoringAlone
  <2>1. WireBufs \subseteq {sIdx} /\ QueueBufs \subseteq {sIdx}
        /\ (WireBufs = {} \/ QueueBufs = {})
    <3>1. tx.kind = "none"
      BY <1>2 DEF StoringAlone, NoTx
    <3>2. CASE QueuedWrite
      BY <3>1, <3>2 DEF QueuedWrite, WireBufs, QueueBufs
    <3>3. CASE q = <<>> /\ (rx.armed => rx.dst = sIdx)
      BY <3>1, <3>3 DEF WireBufs, QueueBufs
    <3> QED
      BY <1>2, <3>2, <3>3 DEF StoringAlone, Holding
  <2>2. CASE pc = "wait" \/ (pc = "writing" /\ sIdx = 1 - cur)
    BY <2>1, <2>2, OtherBuf DEF BufferOwnership
  <2>3. CASE Holding
    BY <1>2, <2>3 DEF StoringAlone, Holding, NoTx, WireBufs, QueueBufs, BufferOwnership
  <2> QED
    BY <1>2, <2>2, <2>3 DEF StoringAlone
<1>3. CASE FetchingAlone
  <2>1. ~rx.armed /\ QueueBufs = {}
    <3>1. q = <<>> \/ (Len(q) = 1 /\ q[1].op = "read")
      BY <1>3 DEF FetchingAlone
    <3> QED
      BY <1>3, <3>1 DEF FetchingAlone, QueueBufs
  <2>2. tx.kind # "data" \/ (pc = "prefetch" /\ tx.buf = 1 - cur) \/ pc = "sent"
    BY <1>3 DEF FetchingAlone, NoTx
  <2>3. WireBufs \cap TaskBufs = {}
    <3>1. cur \in {0, 1}
      BY StateFacts DEF BufIds
    <3>2. tx.buf = 1 - cur => tx.buf # cur
      BY <3>1
    <3> QED
      BY <2>1, <2>2, <3>2 DEF WireBufs, TaskBufs
  <2> QED
    BY <2>1, <2>3 DEF BufferOwnership
<1> QED
  BY <1>1, <1>2, <1>3 DEF Unwinding

LEMMA AloneFreesEndpoint == TypeOK /\ Unwinding => InEndpointFree
  BY AloneFacts DEF InEndpointFree, NoTx

LEMMA AloneLeavesNothing == Unwinding => NothingLeftOver /\ HostNotConfused
  BY DEF Unwinding, NothingLeftOver, HostNotConfused

(* While faults are contained one thing at a time drives a transfer, so    *)
(* the signal queue never holds more than one item.                        *)
THEOREM OneTokenAlways == ContainedFaults => (Spec => []SingleToken)
<1>1. TypeOK /\ TransferShape => SingleToken
  BY ShapeHasOneToken, AloneHasOneToken DEF TransferShape
<1> QED
  BY <1>1, TypeCorrect, ShapeKept, PTL

(* While faults are contained no buffer has two owners.                    *)
THEOREM BuffersOwnedOnce == ContainedFaults => (Spec => []BufferOwnership)
<1>1. TypeOK /\ TransferShape => BufferOwnership
  BY ShapeKeepsOwners, AloneKeepsOwners DEF TransferShape
<1> QED
  BY <1>1, TypeCorrect, ShapeKept, PTL

(* While faults are contained no block and no status meets a busy endpoint *)
(* (whose answer HAL_BUSY the task ignores).                               *)
THEOREM SendsFindEndpointFree == ContainedFaults => (Spec => []InEndpointFree)
<1>1. TypeOK /\ TransferShape => InEndpointFree
  BY ShapeFreesEndpoint, AloneFreesEndpoint DEF TransferShape
<1> QED
  BY <1>1, TypeCorrect, ShapeKept, PTL

(* While faults are contained nothing of a command outlives it, and the    *)
(* host never gets data for a status nor another command's status.         *)
THEOREM CommandsAreSeparate ==
  ContainedFaults => (Spec => [](NothingLeftOver /\ HostNotConfused))
<1>1. TransferShape => NothingLeftOver /\ HostNotConfused
  BY ShapeLeavesNothing, AloneLeavesNothing DEF TransferShape
<1> QED
  BY <1>1, ShapeKept, PTL
=============================================================================

------------------------- MODULE MscProgressProofs -------------------------
(***************************************************************************)
(* Every step of the task, the interrupt and the wire brings a command of  *)
(* MscPipeline nearer to its end, for all sizes, commands and data: the    *)
(* part of liveness that needs no fairness.                                *)
(***************************************************************************)
EXTENDS MscPipelineProofs

(* What the steps that are left are made of.                               *)
LEMMA StepsInChunkBound == TypeOK => StepsInChunk \in 1 .. Stream + 5
<1> SUFFICES ASSUME TypeOK
             PROVE  StepsInChunk \in 1 .. Stream + 5
  OBVIOUS
<1>1. Stream \in Nat /\ done \in 0 .. Stream
  BY SizesAssumption DEF TypeOK, TaskTypes
<1>2. pc \in {"wait", "writeArm", "writing", "readTake", "reading", "prefetch", "send", "sent"}
  BY DEF TypeOK, TaskTypes
<1> QED
  BY <1>1, <1>2 DEF StepsInChunk

LEMMA StepsInChunkBoundNext == TypeOK' => StepsInChunk' \in 1 .. Stream + 5
<1>1. TypeOK' => (StepsInChunk \in 1 .. Stream + 5)'
  BY StepsInChunkBound, PTL
<1> QED
  BY <1>1

LEMMA BlocksTakeSteps ==
  ASSUME NEW b \in Nat, NEW c \in Nat, c <= b
  PROVE  /\ StepsPerBlock * b \in Nat
         /\ StepsPerBlock * (b + 1) = StepsPerBlock * b + StepsPerBlock
         /\ StepsPerBlock * c <= StepsPerBlock * b
         /\ c > 0 => StepsPerBlock * (b - c) + StepsPerBlock <= StepsPerBlock * b
<1>1. StepsPerBlock \in Nat
  BY SizesAssumption DEF StepsPerBlock
<1>2. \A s, x, y \in Nat : s * x \in Nat /\ s * (x + 1) = s * x + s /\ (y <= x => s * y <= s * x)
  BY Z3
<1>3. \A s, x, y \in Nat : y <= x /\ y > 0 => s * (x - y) + s <= s * x
  BY Z3
<1> QED
  BY <1>1, <1>2, <1>3

LEMMA BlocksLeftNat == TypeOK => StepsPerBlock * blkLen \in Nat
<1>1. TypeOK => blkLen \in Nat
  BY StateFacts
<1> QED
  BY <1>1, BlocksTakeSteps

LEMMA UnmovedFacts == TypeOK /\ ShapeOK /\ botState # "IDLE" => Unmoved \in 0 .. hcmd.n
<1> SUFFICES ASSUME TypeOK, ShapeOK, botState # "IDLE"
             PROVE  Unmoved \in 0 .. hcmd.n
  OBVIOUS
<1>1. Storing \/ Fetching
  BY DEF ShapeOK, Resting, Answering
<1>2. CASE Storing
  <2>1. hcmd.op = "write" /\ hsent <= hcmd.n /\ hsent \in Nat /\ hcmd.n \in Nat
    BY <1>2, StateFacts DEF Storing
  <2> QED
    BY <2>1 DEF Unmoved
<1>3. CASE Fetching
  <2>1. /\ hcmd.op = "read" /\ Len(hrecv) \in Nat /\ hcmd.n \in Nat /\ blkLen \in Nat
        /\ blkLen <= hcmd.n /\ tx.sent \in Nat /\ tx.size \in Nat
    BY <1>3, StateFacts DEF Fetching
  <2>2. CASE WireFree
    <3>1. Len(hrecv) = hcmd.n - blkLen
      BY <2>2 DEF WireFree
    <3> QED
      BY <2>1, <3>1 DEF Unmoved
  <2>3. CASE tx.kind = "data"
    <3>1. tx.sent < tx.size
      BY <1>3, <2>3 DEF Fetching, TypeOK, EndpointTypes, TxOK
    <3>2. \/ Len(hrecv) = hcmd.n - (blkLen + tx.size) + tx.sent
          \/ Len(hrecv) = hcmd.n - blkLen + tx.sent /\ tx.size = cnt /\ cnt = Chunk(blkLen)
      BY <1>3, <2>1, <2>3 DEF Fetching, OnWire, WireFree, NoTx
    <3>3. Chunk(blkLen) <= blkLen /\ Chunk(blkLen) \in Nat
      BY <2>1, ChunkFacts, SizesAssumption
    <3>4. Len(hrecv) <= hcmd.n
      BY <2>1, <3>1, <3>2, <3>3
    <3> QED
      BY <2>1, <3>4 DEF Unmoved
  <2> QED
    BY <1>3, <2>2, <2>3 DEF Fetching, OnWire
<1> QED
  BY <1>1, <1>2, <1>3

(* The phases in which the task, the interrupt or the wire may move.       *)
LEMMA OnTheBus ==
  ASSUME TypeOK, ShapeOK
  PROVE  /\ hphase \in {"idle", "cbw", "dataout", "datain", "csw"}
         /\ hphase \in {"idle", "cbw"} => botState = "IDLE"
         /\ botState # "IDLE" => ~(hphase \in {"idle", "cbw"})
         /\ pc # "wait" \/ q # <<>> => botState # "IDLE"
  BY DEF ShapeOK, Resting, Answering, Storing, Fetching

LEMMA StepsLeftNat == TypeOK /\ TransferShape => StepsLeft \in Nat
<1> SUFFICES ASSUME TypeOK, TransferShape
             PROVE  StepsLeft \in Nat
  OBVIOUS
<1>1. /\ StepsInChunk \in Nat /\ hcmd.n \in Nat /\ blkLen \in Nat
      /\ StepsPerBlock * blkLen \in Nat /\ StepsPerBlock * (hcmd.n + 1) \in Nat
  <2>1. hcmd.n \in Nat /\ blkLen \in Nat /\ hcmd.n + 1 \in Nat
    BY StateFacts
  <2>2. StepsInChunk \in Nat
    BY StepsInChunkBound, SizesAssumption
  <2> QED
    BY <2>1, <2>2, BlocksTakeSteps
<1>2. CASE Unwinding
  <2>1. hphase = "off"
    BY <1>2 DEF Unwinding
  <2>2. StepsLeft = IF AtRest THEN 0 ELSE 1 + StepsPerBlock * blkLen + StepsInChunk
    BY <2>1 DEF StepsLeft
  <2> QED
    BY <1>1, <2>2
<1>3. CASE ShapeOK
  <2>1. CASE hphase = "idle"
    BY <2>1 DEF StepsLeft
  <2>2. CASE hphase = "cbw"
    <3>1. StepsLeft = 2 + StepsPerBlock * (hcmd.n + 1) + hcmd.n
      BY <2>2 DEF StepsLeft
    <3> QED
      BY <1>1, <3>1
  <2>3. CASE hphase \in {"dataout", "datain", "csw"} /\ botState = "IDLE"
    BY <2>3 DEF StepsLeft
  <2>4. CASE hphase \in {"dataout", "datain", "csw"} /\ botState # "IDLE"
    <3>1. StepsLeft = 2 + StepsPerBlock * blkLen + StepsInChunk + Unmoved
      BY <2>4 DEF StepsLeft
    <3>2. Unmoved \in Nat
      BY <1>3, <2>4, UnmovedFacts, StateFacts
    <3> QED
      BY <1>1, <3>1, <3>2
  <2> QED
    BY <1>3, <2>1, <2>2, <2>3, <2>4, OnTheBus
<1> QED
  BY <1>2, <1>3 DEF TransferShape

(* What a step does that leaves the chunk unfinished, finishes it, or ends *)
(* the command: one lemma each, for the task on the bus and off it.        *)
LEMMA WithinChunk ==
  ASSUME TypeOK, TransferShape, TypeOK', UNCHANGED <<hostVars, botState, blkLen>>,
         pc # "wait" \/ q # <<>>, StepsInChunk' < StepsInChunk
  PROVE  StepsLeft' < StepsLeft
<1>1. UNCHANGED <<hphase, hcmd, hsent, hrecv>>
  BY DEF hostVars
<1>2. Unmoved' = Unmoved /\ (StepsPerBlock * blkLen)' = StepsPerBlock * blkLen
  BY <1>1 DEF Unmoved, StepsPerBlock
<1>3. /\ StepsInChunk \in Nat /\ StepsInChunk' \in Nat /\ StepsPerBlock * blkLen \in Nat
  <2>1. StepsInChunk' \in 1 .. Stream + 5
    BY StepsInChunkBoundNext
  <2>2. StepsPerBlock * blkLen \in Nat
    BY BlocksLeftNat
  <2> QED
    BY <2>1, <2>2, StepsInChunkBound, SizesAssumption
<1>4. CASE ShapeOK
  <2>1. hphase \in {"dataout", "datain", "csw"} /\ botState # "IDLE"
    BY <1>4, OnTheBus
  <2>2. /\ StepsLeft = 2 + StepsPerBlock * blkLen + StepsInChunk + Unmoved
        /\ StepsLeft' = 2 + (StepsPerBlock * blkLen)' + StepsInChunk' + Unmoved'
    BY <1>1, <2>1 DEF StepsLeft
  <2>3. Unmoved \in Nat
    BY <1>4, <2>1, UnmovedFacts, StateFacts
  <2> QED
    BY <1>2, <1>3, <2>2, <2>3
<1>5. CASE Unwinding
  <2>1. hphase = "off" /\ ~AtRest
    BY <1>5 DEF Unwinding, AtRest
  <2>2. /\ StepsLeft = 1 + StepsPerBlock * blkLen + StepsInChunk
        /\ StepsLeft' = IF AtRest' THEN 0 ELSE 1 + (StepsPerBlock * blkLen)' + StepsInChunk'
    BY <1>1, <2>1 DEF StepsLeft
  <2> QED
    BY <1>2, <1>3, <2>2
<1> QED
  BY <1>4, <1>5 DEF TransferShape

LEMMA ChunkEnds ==
  ASSUME TypeOK, TransferShape, TypeOK', UNCHANGED hostVars, pc # "wait",
         hphase = "off" \/ botState' # "IDLE",
         blkLen' = blkLen - cnt, cnt > 0, cnt <= blkLen
  PROVE  StepsLeft' < StepsLeft
<1>1. UNCHANGED <<hphase, hcmd, hsent, hrecv>>
  BY DEF hostVars
<1>2. Unmoved' = Unmoved
  BY <1>1 DEF Unmoved
<1>3. /\ StepsInChunk \in Nat /\ StepsInChunk' \in Nat /\ StepsInChunk' < StepsPerBlock
      /\ StepsInChunk > 0 /\ StepsPerBlock \in Nat
  <2>1. StepsInChunk' \in 1 .. Stream + 5
    BY StepsInChunkBoundNext
  <2> QED
    BY <2>1, StepsInChunkBound, SizesAssumption DEF StepsPerBlock
<1>4. /\ StepsPerBlock * blkLen \in Nat /\ (StepsPerBlock * blkLen)' \in Nat
      /\ (StepsPerBlock * blkLen)' + StepsPerBlock <= StepsPerBlock * blkLen
  <2>1. blkLen \in Nat /\ cnt \in Nat /\ blkLen' \in Nat
    BY StateFacts
  <2>2. (StepsPerBlock * blkLen)' = StepsPerBlock * (blkLen - cnt)
    BY DEF StepsPerBlock
  <2> QED
    BY <2>1, <2>2, BlocksTakeSteps
<1>5. CASE ShapeOK
  <2>1. hphase \in {"dataout", "datain", "csw"} /\ botState # "IDLE" /\ botState' # "IDLE"
    BY <1>5, OnTheBus
  <2>2. /\ StepsLeft = 2 + StepsPerBlock * blkLen + StepsInChunk + Unmoved
        /\ StepsLeft' = 2 + (StepsPerBlock * blkLen)' + StepsInChunk' + Unmoved'
    BY <1>1, <2>1 DEF StepsLeft
  <2>3. Unmoved \in Nat
    BY <1>5, <2>1, UnmovedFacts, StateFacts
  <2> QED
    BY <1>2, <1>3, <1>4, <2>2, <2>3
<1>6. CASE Unwinding
  <2>1. hphase = "off" /\ ~AtRest
    BY <1>6 DEF Unwinding, AtRest
  <2>2. /\ StepsLeft = 1 + StepsPerBlock * blkLen + StepsInChunk
        /\ StepsLeft' = IF AtRest' THEN 0 ELSE 1 + (StepsPerBlock * blkLen)' + StepsInChunk'
    BY <1>1, <2>1 DEF StepsLeft
  <2> QED
    BY <1>3, <1>4, <2>2
<1> QED
  BY <1>5, <1>6 DEF TransferShape

LEMMA CommandEnds ==
  ASSUME TypeOK, TransferShape, UNCHANGED hostVars, pc # "wait",
         botState' = "IDLE", pc' = "wait", hphase = "off" => q' = <<>>
  PROVE  StepsLeft' < StepsLeft
<1>1. hphase' = hphase
  BY DEF hostVars
<1>2. StepsInChunk \in Nat /\ StepsPerBlock * blkLen \in Nat
  BY StepsInChunkBound, BlocksLeftNat, SizesAssumption
<1>3. CASE ShapeOK
  <2>1. hphase \in {"dataout", "datain", "csw"} /\ botState # "IDLE"
    BY <1>3, OnTheBus
  <2>2. StepsLeft = 2 + StepsPerBlock * blkLen + StepsInChunk + Unmoved /\ StepsLeft' = 1
    BY <1>1, <2>1 DEF StepsLeft
  <2>3. Unmoved \in Nat
    BY <1>3, <2>1, UnmovedFacts, StateFacts
  <2> QED
    BY <1>2, <2>2, <2>3
<1>4. CASE Unwinding
  <2>1. hphase = "off" /\ ~AtRest /\ AtRest'
    BY <1>4 DEF Unwinding, AtRest
  <2>2. StepsLeft = 1 + StepsPerBlock * blkLen + StepsInChunk /\ StepsLeft' = 0
    BY <1>1, <2>1 DEF StepsLeft
  <2> QED
    BY <1>2, <2>2
<1> QED
  BY <1>3, <1>4 DEF TransferShape

(* What each place of the task knows, on the bus and off it.               *)
LEMMA InHand ==
  ASSUME TypeOK, TransferShape
  PROVE  /\ pc = "wait" /\ q # <<>> => Head(q).op = (IF hcmd.op = "read" THEN "read" ELSE "write")
         /\ pc # "wait" => cnt > 0 /\ cnt <= blkLen
         /\ pc = "writing" => done <= cnt /\ addr + cnt <= NumBlocks
         /\ pc = "writing" /\ cnt = blkLen => q = <<>>
         /\ pc \in {"readTake", "reading"} => q = <<>>
<1>1. ASSUME pc = "wait", q # <<>>
      PROVE  Head(q).op = (IF hcmd.op = "read" THEN "read" ELSE "write")
  <2>1. CASE hcmd.op = "write"
    <3>1. QueuedWrite
      BY <1>1, <2>1 DEF TransferShape, ShapeOK, Unwinding, Resting, Answering, Storing, Fetching,
                        AtRest, StoringAlone, FetchingAlone, Filling, Holding
    <3> QED
      BY <2>1, <3>1 DEF QueuedWrite
  <2>2. CASE hcmd.op # "write"
    <3>1. hcmd.op = "read" /\ q[1].op = "read"
      BY <1>1, <2>2 DEF TransferShape, ShapeOK, Unwinding, Resting, Answering, Storing, Fetching,
                        AtRest, StoringAlone, FetchingAlone, OnWire
    <3>2. Head(q) = q[1]
      BY <1>1 DEF TypeOK, PipeTypes
    <3> QED
      BY <3>1, <3>2
  <2> QED
    BY <2>1, <2>2
<1>2. ASSUME pc # "wait"
      PROVE  cnt > 0 /\ cnt <= blkLen
  <2>1. cnt = Chunk(blkLen) /\ blkLen \in 1 .. hcmd.n
    BY <1>2, StateFacts DEF TransferShape, ShapeOK, Unwinding, Resting, Answering, Storing, Fetching,
                AtRest, StoringAlone, FetchingAlone, TypeOK, TaskTypes
  <2> QED
    BY <2>1, ChunkFacts, StateFacts
<1>3. /\ pc = "writing" => done <= cnt /\ addr + cnt <= NumBlocks
      /\ pc = "writing" /\ cnt = blkLen => q = <<>>
  BY WritingFacts, AloneFacts DEF TransferShape, Holding
<1>4. pc \in {"readTake", "reading"} => q = <<>>
  BY FetchingFacts, AloneFacts DEF TransferShape
<1> QED
  BY <1>1, <1>2, <1>3, <1>4

-----------------------------------------------------------------------------
(* The task                                                                *)

LEMMA TaskRecvProgress ==
  ASSUME TypeOK, TransferShape, TypeOK', TaskRecv
  PROVE  StepsLeft' < StepsLeft
<1>1. /\ pc = "wait" /\ q # <<>> /\ UNCHANGED <<hostVars, botState, blkLen, rdPend, rdFailed>>
      /\ pc' = IF Head(q).op = "write" THEN "writeArm" ELSE "readTake"
  BY DEF TaskRecv, hmscVars
<1>2. pc' = (IF hcmd.op = "read" THEN "readTake" ELSE "writeArm") /\ hcmd' = hcmd
  BY <1>1, InHand DEF hostVars
<1>3. StepsInChunk' < StepsInChunk
  BY <1>1, <1>2, SizesAssumption DEF StepsInChunk
<1> QED
  BY <1>1, <1>3, WithinChunk

LEMMA TaskWriteProgress ==
  ASSUME TypeOK, TransferShape, TypeOK', ContainedFaults,
         TaskWriteArm \/ TaskWriteBlock \/ TaskWriteFail \/ TaskWriteDone
  PROVE  StepsLeft' < StepsLeft
<1>1. Stream \in Nat /\ done \in Nat /\ cnt \in Nat /\ blkLen \in Nat /\ blkLen < LenMod
  BY StateFacts
<1>2. CASE TaskWriteArm
  <2>1. /\ pc = "writeArm" /\ pc' = "writing" /\ done' = 0
        /\ UNCHANGED <<hostVars, botState, blkLen>>
    BY <1>2 DEF TaskWriteArm, hmscVars
  <2>2. StepsInChunk' < StepsInChunk
    BY <1>1, <2>1 DEF StepsInChunk
  <2> QED
    BY <2>1, <2>2, WithinChunk
<1>3. CASE TaskWriteBlock
  <2>1. /\ pc = "writing" /\ pc' = "writing" /\ done' = done + 1
        /\ UNCHANGED <<hostVars, botState, blkLen>>
    BY <1>3 DEF TaskWriteBlock, hmscVars
  <2>2. StepsInChunk' < StepsInChunk
    BY <1>1, <2>1 DEF StepsInChunk
  <2> QED
    BY <2>1, <2>2, WithinChunk
<1>4. CASE TaskWriteFail
  <2>1. /\ pc = "writing" /\ done < cnt /\ pc' = "wait" /\ botState' = "IDLE" /\ q' = q
        /\ UNCHANGED hostVars
    BY <1>4 DEF TaskWriteFail, Refuse, SendCSW, pipeVars
  <2>2. addr + done < NumBlocks
    BY <1>1, <2>1, InHand, StateFacts, SizesAssumption
  <2>3. cnt = blkLen
    BY <1>4, <2>2, StateFacts, SizesAssumption DEF TaskWriteFail, ContainedFaults
  <2>4. q = <<>>
    BY <2>1, <2>3, InHand
  <2> QED
    BY <2>1, <2>4, CommandEnds
<1>5. CASE TaskWriteDone
  <2>1. /\ pc = "writing" /\ pc' = "wait" /\ q' = q /\ blkLen' = Minus(blkLen, cnt)
        /\ UNCHANGED hostVars /\ cnt > 0 /\ cnt <= blkLen
    BY <1>5, InHand DEF TaskWriteDone, pipeVars
  <2>2. blkLen' = blkLen - cnt
    BY <1>1, <2>1 DEF Minus
  <2>3. CASE blkLen' = 0
    <3>1. botState' = "IDLE"
      BY <1>5, <2>3 DEF TaskWriteDone, SendCSW
    <3>2. cnt = blkLen
      BY <1>1, <2>1, <2>2, <2>3
    <3>3. q = <<>>
      BY <2>1, <3>2, InHand
    <3> QED
      BY <2>1, <3>1, <3>3, CommandEnds
  <2>4. CASE blkLen' # 0
    <3>1. botState' = botState
      BY <1>5, <2>4 DEF TaskWriteDone
    <3>2. hphase = "off" \/ botState # "IDLE"
      BY <2>1, OnTheBus DEF TransferShape, Unwinding
    <3> QED
      BY <2>1, <2>2, <3>1, <3>2, ChunkEnds
  <2> QED
    BY <2>3, <2>4
<1> QED
  BY <1>2, <1>3, <1>4, <1>5

LEMMA TaskReadProgress ==
  ASSUME TypeOK, TransferShape, TypeOK',
         TaskReadTake \/ TaskReadBlock \/ TaskReadFail \/ TaskReadDone
  PROVE  StepsLeft' < StepsLeft
<1>1. Stream \in Nat /\ Stream > 0 /\ done \in 0 .. Stream /\ done \in Nat
  BY StateFacts DEF TypeOK, TaskTypes
<1>2. CASE TaskReadTake
  <2>1. pc = "readTake" /\ q = <<>> /\ q' = q /\ UNCHANGED <<hostVars, blkLen>>
    BY <1>2, InHand DEF TaskReadTake
  <2>2. CASE rdFailed
    <3>1. botState' = "IDLE" /\ pc' = "wait"
      BY <1>2, <2>2 DEF TaskReadTake, Refuse, SendCSW
    <3> QED
      BY <2>1, <3>1, CommandEnds
  <2>3. CASE ~rdFailed
    <3>1. \/ rdPend /\ pc' = "send" /\ botState' = botState
          \/ ~rdPend /\ pc' = "reading" /\ done' = 0 /\ botState' = botState
      BY <1>2, <2>3 DEF TaskReadTake
    <3>2. StepsInChunk' < StepsInChunk
      BY <1>1, <2>1, <2>3, <3>1 DEF StepsInChunk
    <3> QED
      BY <2>1, <3>1, <3>2, WithinChunk
  <2> QED
    BY <2>2, <2>3
<1>3. CASE TaskReadBlock
  <2>1. /\ pc \in {"reading", "prefetch"} /\ pc' = pc /\ done' = done + 1
        /\ UNCHANGED <<hostVars, botState, blkLen>>
    BY <1>3 DEF TaskReadBlock, hmscVars
  <2>2. StepsInChunk' < StepsInChunk
    BY <1>1, <2>1 DEF StepsInChunk
  <2> QED
    BY <2>1, <2>2, WithinChunk
<1>4. CASE TaskReadFail
  <2>1. pc \in {"reading", "prefetch"} /\ pc' = "wait" /\ q' = q /\ UNCHANGED <<hostVars, blkLen>>
    BY <1>4 DEF TaskReadFail
  <2>2. CASE pc = "reading"
    <3>1. botState' = "IDLE" /\ q = <<>>
      BY <1>4, <2>2, InHand DEF TaskReadFail, Refuse, SendCSW
    <3> QED
      BY <2>1, <2>2, <3>1, CommandEnds
  <2>3. CASE pc = "prefetch"
    <3>1. rdFailed' = TRUE /\ botState' = botState
      BY <1>4, <2>3 DEF TaskReadFail, ReadAheadFailed
    <3>2. hcmd'.op = "read"
      BY <2>1, <2>3, FetchingFacts, AloneFacts DEF TransferShape, Fetching, hostVars
    <3>3. StepsInChunk' = 4
      BY <2>1, <3>1, <3>2 DEF StepsInChunk
    <3>4. StepsInChunk >= 5 /\ StepsInChunk \in Nat
      BY <1>1, <2>3 DEF StepsInChunk
    <3>5. StepsInChunk' < StepsInChunk
      BY <3>3, <3>4
    <3> QED
      BY <2>1, <2>3, <3>1, <3>5, WithinChunk
  <2> QED
    BY <2>1, <2>2, <2>3
<1>5. CASE TaskReadDone
  <2>1. pc \in {"reading", "prefetch"} /\ UNCHANGED <<hostVars, botState, blkLen>>
    BY <1>5 DEF TaskReadDone, hmscVars
  <2>2. CASE pc = "reading"
    <3>1. pc' = "send"
      BY <1>5, <2>2 DEF TaskReadDone
    <3>2. StepsInChunk' < StepsInChunk
      BY <1>1, <2>2, <3>1 DEF StepsInChunk
    <3> QED
      BY <2>1, <2>2, <3>2, WithinChunk
  <2>3. CASE pc = "prefetch"
    <3>1. pc' = "wait" /\ rdPend' = TRUE
      BY <1>5, <2>3 DEF TaskReadDone
    <3>2. hcmd'.op = "read"
      BY <2>1, <2>3, FetchingFacts, AloneFacts DEF TransferShape, Fetching, hostVars
    <3>3. StepsInChunk' = 4
      BY <3>1, <3>2 DEF StepsInChunk
    <3>4. StepsInChunk >= 5 /\ StepsInChunk \in Nat
      BY <1>1, <2>3 DEF StepsInChunk
    <3>5. StepsInChunk' < StepsInChunk
      BY <3>3, <3>4
    <3> QED
      BY <2>1, <2>3, <3>5, WithinChunk
  <2> QED
    BY <2>1, <2>2, <2>3
<1> QED
  BY <1>2, <1>3, <1>4, <1>5

LEMMA TaskSendProgress ==
  ASSUME TypeOK, TransferShape, TypeOK', TaskSend \/ TaskSent
  PROVE  StepsLeft' < StepsLeft
<1>1. CASE TaskSend
  <2>1. pc = "send" /\ pc' = "sent" /\ UNCHANGED <<hostVars, botState, blkLen>>
    BY <1>1 DEF TaskSend, hmscVars
  <2>2. StepsInChunk' < StepsInChunk
    BY <2>1 DEF StepsInChunk
  <2> QED
    BY <2>1, <2>2, WithinChunk
<1>2. CASE TaskSent
  <2>1. /\ pc = "sent" /\ blkLen' = Minus(blkLen, cnt) /\ UNCHANGED hostVars
        /\ cnt > 0 /\ cnt <= blkLen
    BY <1>2, InHand DEF TaskSent
  <2>2. blkLen' = blkLen - cnt
    BY <2>1, StateFacts DEF Minus
  <2>3. hphase = "off" \/ botState # "IDLE"
    BY <2>1, OnTheBus DEF TransferShape, Unwinding
  <2>4. botState' = "LAST_DATA_IN" \/ botState' = botState
    BY <1>2 DEF TaskSent
  <2> QED
    BY <2>1, <2>2, <2>3, <2>4, ChunkEnds
<1> QED
  BY <1>1, <1>2

-----------------------------------------------------------------------------
(* The wire                                                                *)

(* No state of the data or status stage has more to do than its CBW had.   *)
LEMMA CbwHasMost ==
  TypeOK /\ ShapeOK /\ hphase # "cbw" =>
    StepsLeft < 2 + StepsPerBlock * (hcmd.n + 1) + hcmd.n
<1> SUFFICES ASSUME TypeOK, ShapeOK, hphase # "cbw"
             PROVE  StepsLeft < 2 + StepsPerBlock * (hcmd.n + 1) + hcmd.n
  OBVIOUS
<1>1. hcmd.n \in Nat /\ blkLen \in Nat /\ StepsInChunk \in 1 .. Stream + 5 /\ Stream \in Nat
  BY StateFacts, StepsInChunkBound
<1>2. /\ StepsPerBlock * (hcmd.n + 1) = StepsPerBlock * hcmd.n + StepsPerBlock
      /\ StepsPerBlock * hcmd.n \in Nat /\ StepsPerBlock \in Nat
      /\ StepsInChunk < StepsPerBlock
  BY <1>1, BlocksTakeSteps DEF StepsPerBlock
<1>3. CASE botState = "IDLE"
  <2>1. StepsLeft \in {0, 1}
    BY <1>3, OnTheBus DEF StepsLeft
  <2> QED
    BY <1>1, <1>2, <2>1
<1>4. CASE botState # "IDLE"
  <2>1. StepsLeft = 2 + StepsPerBlock * blkLen + StepsInChunk + Unmoved
    BY <1>4, OnTheBus DEF StepsLeft
  <2>2. Unmoved \in 0 .. hcmd.n
    BY <1>4, UnmovedFacts
  <2>3. blkLen <= hcmd.n
    BY <1>4, <1>1 DEF ShapeOK, Resting, Answering, Storing, Fetching
  <2>4. StepsPerBlock * blkLen <= StepsPerBlock * hcmd.n /\ StepsPerBlock * blkLen \in Nat
    BY <1>1, <2>3, BlocksTakeSteps
  <2> QED
    BY <1>1, <1>2, <2>1, <2>2, <2>4
<1> QED
  BY <1>3, <1>4

LEMMA OutCbwProgress ==
  ASSUME TypeOK, ShapeOK, TypeOK', ShapeOK', OutCbw
  PROVE  StepsLeft' < StepsLeft
<1>1. hphase = "cbw" /\ hphase' # "cbw" /\ hcmd' = hcmd
  BY DEF OutCbw
<1>2. StepsLeft = 2 + StepsPerBlock * (hcmd.n + 1) + hcmd.n
  BY <1>1 DEF StepsLeft
<1>3. TypeOK' /\ ShapeOK' /\ hphase' # "cbw" =>
        (StepsLeft < 2 + StepsPerBlock * (hcmd.n + 1) + hcmd.n)'
  <2>1. (TypeOK /\ ShapeOK /\ hphase # "cbw")' =>
          (StepsLeft < 2 + StepsPerBlock * (hcmd.n + 1) + hcmd.n)'
    BY CbwHasMost, PTL
  <2> QED
    BY <2>1
<1>4. StepsLeft' < 2 + StepsPerBlock * (hcmd'.n + 1) + hcmd'.n
  BY <1>1, <1>3 DEF StepsPerBlock
<1> QED
  BY <1>1, <1>2, <1>4

(* A block moved, or the status sent behind the last one.                  *)
LEMMA BlockMoves ==
  ASSUME TypeOK, ShapeOK, botState # "IDLE", hphase' \in {"dataout", "datain", "csw"},
         UNCHANGED <<hcmd, pc, done, rdPend, rdFailed>>,
         \/ botState' = "IDLE"
         \/ botState' # "IDLE" /\ blkLen' = blkLen /\ Unmoved' < Unmoved /\ Unmoved' \in Int
  PROVE  StepsLeft' < StepsLeft
<1>1. StepsLeft = 2 + StepsPerBlock * blkLen + StepsInChunk + Unmoved
  BY OnTheBus DEF StepsLeft
<1>2. StepsInChunk \in Nat /\ StepsPerBlock * blkLen \in Nat /\ Unmoved \in Nat
  BY StepsInChunkBound, BlocksLeftNat, UnmovedFacts, StateFacts
<1>3. StepsInChunk' = StepsInChunk
  BY DEF StepsInChunk
<1>4. CASE botState' = "IDLE"
  <2>1. StepsLeft' = 1
    BY <1>4 DEF StepsLeft
  <2> QED
    BY <1>1, <1>2, <2>1
<1>5. CASE botState' # "IDLE"
  <2>1. StepsLeft' = 2 + (StepsPerBlock * blkLen)' + StepsInChunk' + Unmoved'
    BY <1>5 DEF StepsLeft
  <2>2. (StepsPerBlock * blkLen)' = StepsPerBlock * blkLen
    BY <1>5 DEF StepsPerBlock
  <2> QED
    BY <1>1, <1>2, <1>3, <1>5, <2>1, <2>2
<1> QED
  BY <1>4, <1>5

LEMMA OutBlockProgress ==
  ASSUME TypeOK, ShapeOK, OutBlock
  PROVE  StepsLeft' < StepsLeft
<1>1. Storing /\ hphase = "dataout" /\ rx.armed
  BY DEF ShapeOK, Resting, Answering, Storing, Fetching, OutBlock
<1>2. botState = "DATA_OUT" /\ hcmd.op = "write" /\ rx.dst # Cbw
  <2>1. Filling
    BY <1>1 DEF Storing, QueuedWrite, Holding
  <2> QED
    BY <1>1, <2>1, StateFacts DEF Storing, Filling, BufIds, Cbw
<1>3. /\ hsent' = hsent + 1 /\ UNCHANGED <<hcmd, hrecv, pc, done>>
      /\ hphase' \in {"dataout", "csw"}
  BY DEF OutBlock, taskVars
<1>4. Unmoved' < Unmoved /\ Unmoved' \in Int
  <2>1. hsent \in Nat /\ hcmd.n \in Nat
    BY StateFacts
  <2> QED
    BY <1>2, <1>3, <2>1 DEF Unmoved
<1>5. UNCHANGED <<botState, blkLen, rdPend, rdFailed>>
  <2>1. CASE rx.got + 1 >= rx.size
    BY <1>2, <2>1 DEF OutBlock, DataOut
  <2>2. CASE ~(rx.got + 1 >= rx.size)
    BY <1>2, <2>2 DEF OutBlock, hmscVars, pipeVars
  <2> QED
    BY <2>1, <2>2
<1> QED
  BY <1>2, <1>3, <1>4, <1>5, BlockMoves

LEMMA InDataProgress ==
  ASSUME TypeOK, ShapeOK, InData
  PROVE  StepsLeft' < StepsLeft
<1>1. Fetching /\ tx.kind = "data" /\ tx.size > 0 /\ hphase = "datain"
  BY DEF ShapeOK, Resting, Answering, Storing, Fetching, InData, ArmCbw, Arm, NoTx
<1>2. InBlock
  BY <1>1, StateFacts DEF InData, InStray
<1>3. /\ UNCHANGED <<hcmd, pc, done>> /\ hphase' \in {"datain", "csw"}
      /\ Len(hrecv') = Len(hrecv) + 1 /\ hcmd.op = "read"
  BY <1>1, <1>2 DEF InData, InBlock, Fetching, taskVars, TypeOK, HostTypes
<1>4. Unmoved' < Unmoved /\ Unmoved' \in Int
  <2>1. Len(hrecv) \in Nat /\ hcmd.n \in Nat
    BY StateFacts
  <2> QED
    BY <1>3, <2>1 DEF Unmoved
<1>5. botState \in {"DATA_IN", "LAST_DATA_IN"}
  BY <1>1 DEF Fetching
<1>6. /\ UNCHANGED <<rdPend, rdFailed, blkLen>>
      /\ botState' = "IDLE" \/ botState' = botState
  <2>1. CASE tx.sent + 1 = tx.size
    BY <1>2, <1>5, <2>1 DEF InBlock, DataIn, SendCSW, hmscVars, pipeVars
  <2>2. CASE tx.sent + 1 # tx.size
    BY <1>2, <2>2 DEF InBlock, hmscVars, pipeVars
  <2> QED
    BY <2>1, <2>2
<1> QED
  BY <1>3, <1>4, <1>5, <1>6, BlockMoves

LEMMA InCswProgress ==
  ASSUME TypeOK, ShapeOK, InCsw
  PROVE  StepsLeft' < StepsLeft
<1>1. hphase' = "idle"
  BY InCswShape DEF InCsw
<1>2. Answering
  BY StateFacts DEF ShapeOK, Resting, Answering, Storing, Fetching, OnWire, WireFree,
                    InCsw, NoTx
<1>3. StepsLeft = 1 /\ StepsLeft' = 0
  BY <1>1, <1>2 DEF StepsLeft, Answering
<1> QED
  BY <1>3

-----------------------------------------------------------------------------
LEMMA ProgressStep ==
  ASSUME TypeOK, TransferShape, ContainedFaults, [Next]_vars, Wire \/ Task
  PROVE  StepsLeft' \in 0 .. StepsLeft - 1
<1>1. TypeOK' /\ TransferShape'
  BY TypeStep, TransferStep
<1>2. StepsLeft \in Nat /\ StepsLeft' \in Nat
  <2>1. (TypeOK /\ TransferShape)' => (StepsLeft \in Nat)'
    BY StepsLeftNat, PTL
  <2> QED
    BY <1>1, <2>1, StepsLeftNat
<1>3. CASE Wire
  <2>1. hphase # "off" /\ hphase' # "off"
    <3>1. OutCbw => hphase' \in {"datain", "dataout", "csw"}
      BY DEF OutCbw
    <3>2. OutBlock => hphase' \in {"dataout", "csw"}
      BY DEF OutBlock
    <3>3. InData => hphase' \in {"datain", "csw", "confused"}
      BY DEF InData, InBlock, InStray
    <3>4. InCsw => hphase' \in {"idle", "confused"}
      BY DEF InCsw
    <3>5. hphase \in {"cbw", "dataout", "datain", "csw"}
      BY <1>3 DEF Wire, OutCbw, OutBlock, InData, InCsw
    <3> QED
      BY <1>3, <3>1, <3>2, <3>3, <3>4, <3>5 DEF Wire
  <2>2. ShapeOK /\ ShapeOK'
    BY <1>1, <2>1 DEF TransferShape, Unwinding
  <2>3. StepsLeft' < StepsLeft
    BY <1>1, <1>3, <2>2, OutCbwProgress, OutBlockProgress, InDataProgress, InCswProgress DEF Wire
  <2> QED
    BY <1>2, <2>3
<1>4. CASE Task
  <2>1. StepsLeft' < StepsLeft
    BY <1>1, <1>4, TaskRecvProgress, TaskWriteProgress, TaskReadProgress, TaskSendProgress DEF Task
  <2> QED
    BY <1>2, <2>1
<1> QED
  BY <1>3, <1>4

(* While faults are contained every step of the task, the interrupt and    *)
(* the wire is one of finitely many: a command ends or stands still, and   *)
(* after a bus reset the task comes to rest.                               *)
THEOREM StepsRunOut == ContainedFaults => (Spec => Progress)
<1> SUFFICES ASSUME ContainedFaults
             PROVE  Spec => Progress
  OBVIOUS
<1>1. Init => TypeOK /\ TransferShape
  BY TypeInit, ShapeInit DEF TransferShape
<1>2. TypeOK /\ TransferShape /\ [Next]_vars => TypeOK' /\ TransferShape'
  BY TypeStep, TransferStep
<1>3. TypeOK /\ TransferShape /\ [Next]_vars =>
        [Wire \/ Task => StepsLeft' \in 0 .. StepsLeft - 1]_vars
  BY ProgressStep
<1> QED
  BY <1>1, <1>2, <1>3, PTL DEF Spec, Progress
=============================================================================

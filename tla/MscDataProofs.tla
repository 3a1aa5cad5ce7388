--------------------------- MODULE MscDataProofs ---------------------------
(***************************************************************************)
(* Proofs about the blocks MscPipeline moves: that each comes from, or     *)
(* goes to, its own address, what the status says of it, which transfers   *)
(* can hang, and that the pipeline implements BlockDevice.  The shape of a *)
(* transfer (MscPipelineProofs) tells where the blocks are; Contents says  *)
(* what they are.                                                          *)
(***************************************************************************)
EXTENDS MscPipelineProofs

(* Blocks of the WRITE already done with; what a buffer or the card has of *)
(* the host's data, and a buffer of the card's.                            *)
Base == hcmd.n - blkLen
WholeChunks(a) == \E k \in Nat : a = k * Stream
Holds(b, o, k) == \A j \in 0 .. k - 1 : buf[b][j] = hcmd.data[o + j + 1]
Copies(b, a, k) == \A j \in 0 .. k - 1 : buf[b][j] = card[a + j]
OnCard(k) == \A i \in 1 .. k : card[hcmd.lba + i - 1] = hcmd.data[i]

WriteContents ==
  /\ residue = blkLen
  /\ WholeChunks(Base)
  /\ OnCard(IF pc = "writing" THEN Base + done ELSE Base)
  /\ pc = "wait" /\ rx.armed =>
       Holds(sIdx, Base, rx.got) /\ (blkLen = hcmd.n => rx.size = Chunk(blkLen))
  /\ pc = "wait" /\ ~rx.armed => Holds(sIdx, Base, Chunk(blkLen))
  /\ pc # "wait" => Holds(cur, Base, cnt)
  /\ pc = "writing" /\ rx.armed => Holds(sIdx, Base + cnt, rx.got)
  /\ pc = "writing" /\ ~rx.armed /\ cnt < blkLen => Holds(sIdx, Base + cnt, Stream)

OnItsWay ==
  \A j \in tx.sent .. tx.size - 1 :
    buf[tx.buf][j] = card[hcmd.lba + Len(hrecv) + j - tx.sent]

ReadContents ==
  /\ residue = blkLen
  /\ rdPend => pc \in {"wait", "readTake"} /\ Copies(rdBuf, blkAddr, Chunk(blkLen))
  /\ pc \in {"reading", "prefetch"} => Copies(cur, blkAddr, done)
  /\ pc = "send" => Copies(cur, blkAddr, cnt)
  /\ tx.kind = "data" => OnItsWay

AnswerContents ==
  /\ ResidueHonest
  /\ tx.status \in {"passed", "failed"}
  /\ hcmd.op = "test" => hrecv = <<>>

(* The blocks of a transfer are the right ones, wherever they are.         *)
Contents ==
  /\ Storing => WriteContents
  /\ Fetching => ReadContents
  /\ Answering => AnswerContents

(* After a bus reset, those in the hands of the task and in its queue; a   *)
(* buffer it arms is armed for a whole chunk, behind whole ones.           *)
AloneContents ==
  /\ DataArmed =>
       /\ rx.size = Stream /\ rx.got = 0
       /\ hsent \in 1 .. hcmd.n - 1 /\ WholeChunks(hsent)
  /\ StoringAlone =>
       /\ WholeChunks(Base)
       /\ pc = "wait" => Holds(sIdx, Base, Chunk(blkLen))
       /\ pc # "wait" => Holds(cur, Base, cnt)
       /\ pc = "writing" /\ q # <<>> => Holds(sIdx, Base + cnt, Stream)

RightBlocks == (ShapeOK /\ Contents) \/ (Unwinding /\ AloneContents)

-----------------------------------------------------------------------------
(* Counting chunks                                                         *)

LEMMA ChunksFacts ==
  /\ WholeChunks(0)
  /\ \A a \in Nat : WholeChunks(a) => WholeChunks(a + Stream)
<1>1. 0 = 0 * Stream
  BY SizesAssumption
<1>2. ASSUME NEW a \in Nat, WholeChunks(a)
      PROVE  WholeChunks(a + Stream)
  <2>1. PICK k \in Nat : a = k * Stream
    BY <1>2 DEF WholeChunks
  <2>2. a + Stream = (k + 1) * Stream
    BY <2>1, SizesAssumption
  <2> QED
    BY <2>2 DEF WholeChunks
<1> QED
  BY <1>1, <1>2 DEF WholeChunks

(* What is left when less than a chunk follows whole ones is an odd tail.  *)
LEMMA OddTail ==
  ASSUME NEW a \in Nat, NEW r \in 1 .. Stream - 1, WholeChunks(a), a > 0
  PROVE  a + r > Stream /\ (a + r) % Stream # 0
<1>1. PICK k \in Nat : a = k * Stream
  BY DEF WholeChunks
<1>2. Stream \in Nat /\ Stream > 0 /\ k > 0
  BY <1>1, SizesAssumption
<1>3. k * Stream >= Stream
  BY <1>2
<1>4. (k * Stream + r) % Stream = r
  BY <1>2, Z3T(30)
<1> QED
  BY <1>1, <1>2, <1>3, <1>4

-----------------------------------------------------------------------------
(* Who sees which variables                                                *)

(* The shapes exclude each other.                                          *)
LEMMA OneShape ==
  /\ Storing => ~Fetching /\ ~Answering
  /\ Fetching => ~Answering
  BY DEF Storing, Fetching, Answering

LEMMA ContentsOfWrite ==
  ASSUME Storing', WriteContents'
  PROVE  Contents'
  BY DEF Contents, Storing, Fetching, Answering

LEMMA ContentsOfRead ==
  ASSUME Fetching', ReadContents'
  PROVE  Contents'
  BY DEF Contents, Storing, Fetching, Answering

LEMMA ContentsOfAnswer ==
  ASSUME Answering', AnswerContents'
  PROVE  Contents'
  BY DEF Contents, Storing, Fetching, Answering

(* Writing one block of a buffer, or of the card.                          *)
LEMMA BufWritten ==
  ASSUME TypeOK, NEW b \in BufIds, NEW i \in Cells, NEW v,
         buf' = [buf EXCEPT ![b][i] = v]
  PROVE  /\ buf'[b][i] = v
         /\ \A j \in Cells : j # i => buf'[b][j] = buf[b][j]
         /\ \A c \in BufIds : c # b => buf'[c] = buf[c]
<1>1. buf \in [BufIds -> [Cells -> Cell]]
  BY DEF TypeOK, MemoryTypes
<1> QED
  BY <1>1

-----------------------------------------------------------------------------
(* The host and the wire                                                   *)

LEMMA Between == ASSUME hphase' \in {"idle", "cbw", "confused"} PROVE Contents'
  BY DEF Contents, Storing, Fetching, Answering

(* A command without data is answered; the others start with nothing in    *)
(* the buffers yet.                                                        *)
LEMMA OutCbwContents ==
  ASSUME TypeOK, ShapeOK, TypeOK', ShapeOK', OutCbw
  PROVE  Contents'
<1> DEFINE c == [cmd |-> hcmd, tag |-> htag, ok |-> TRUE]
<1>1. Resting /\ hphase = "cbw" /\ ~inStall
  BY DEF ShapeOK, Resting, Answering, Storing, Fetching, OutCbw
<1>2. CbwDecode(TRUE, c)
  BY <1>1 DEF OutCbw, DataOut, Resting, ArmCbw, Arm
<1>3. UNCHANGED <<hcmd, hrecv, pc, cur, cnt, done>> /\ hrecv = <<>>
  BY <1>1 DEF OutCbw, taskVars, TypeOK, HostTypes
<1>4. c.cmd = hcmd /\ c.tag = htag /\ c.ok = TRUE
  OBVIOUS
<1> HIDE DEF c
<1>5. residue' = hcmd.n
  BY <1>2, <1>4 DEF CbwDecode
<1>6. CASE hcmd.op = "test"
  <2>1. SendCSW(tx, "passed", htag, hcmd.n) /\ hphase' = "csw" /\ hcmd.n = 0
    BY <1>2, <1>4, <1>6, StateFacts, CommandFacts DEF CbwDecode, OutCbw
  <2>2. tx' = CswTx("passed", htag, 0) /\ botState' = "IDLE"
    BY <1>1, <2>1 DEF SendCSW, Transmit, Resting, NoTx
  <2>3. tx'.status = "passed" /\ tx'.residue = 0
    BY <2>2 DEF CswTx, NoTx
  <2>4. AnswerContents'
    BY <1>3, <1>6, <2>3 DEF AnswerContents, ResidueHonest
  <2> QED
    BY <1>3, <1>6, <2>2, <2>4 DEF Contents, Storing, Fetching
<1>7. CASE hcmd.op = "read"
  <2>1. blkLen' = hcmd.n /\ rdPend' = FALSE /\ UNCHANGED tx /\ pc' = "wait" /\ hphase' = "datain"
    BY <1>1, <1>2, <1>3, <1>4, <1>7 DEF CbwDecode, Read10, OutCbw, Resting
  <2>2. tx'.kind = "none"
    BY <1>1, <2>1 DEF Resting, NoTx
  <2>3. ReadContents'
    BY <1>5, <2>1, <2>2 DEF ReadContents
  <2> QED
    BY <1>3, <1>7, <2>2, <2>3 DEF Contents, Storing, Answering
<1>8. CASE hcmd.op = "write"
  <2>1. blkLen' = hcmd.n /\ rx' = Arm(0, Chunk(hcmd.n)) /\ UNCHANGED tx /\ pc' = "wait"
    BY <1>1, <1>2, <1>3, <1>4, <1>8 DEF CbwDecode, Write10, Resting
  <2>2. tx'.kind = "none" /\ rx'.armed /\ rx'.size = Chunk(hcmd.n) /\ rx'.got = 0
    BY <1>1, <2>1 DEF Resting, NoTx, Arm
  <2>3. Base' = 0
    BY <1>3, <2>1, StateFacts DEF Base
  <2>4. OnCard(0)' /\ Holds(sIdx, 0, 0)'
    BY <1>3 DEF OnCard, Holds
  <2>5. WriteContents'
    BY <1>3, <1>5, <2>1, <2>2, <2>3, <2>4, ChunksFacts DEF WriteContents, WholeChunks
  <2> QED
    BY <1>3, <1>8, <2>2, <2>5 DEF Contents, Fetching, Answering
<1> QED
  BY <1>6, <1>7, <1>8, StateFacts

(* A block of a WRITE goes behind those its buffer already has.            *)
LEMMA OutBlockContents ==
  ASSUME TypeOK, ShapeOK, Contents, TypeOK', ShapeOK', OutBlock
  PROVE  Contents'
<1>1. Storing /\ ~inStall /\ hphase = "dataout" /\ rx.armed
  BY DEF ShapeOK, Resting, Answering, Storing, Fetching, OutBlock
<1>2. Filling /\ pc \in {"wait", "writing"} /\ rx.dst = sIdx /\ sIdx \in BufIds /\ rx.dst # Cbw
  <2>1. Filling /\ pc \in {"wait", "writing"}
    BY <1>1 DEF Storing, QueuedWrite, Holding
  <2> QED
    BY <2>1, StateFacts DEF Filling, BufIds, Cbw
<1>3. /\ WriteContents /\ botState = "DATA_OUT"
      /\ hcmd.op = "write" /\ hsent < hcmd.n
  BY <1>1 DEF Contents, Storing, TypeOK, HostTypes
<1>4. UNCHANGED <<hcmd, pc, cur, cnt, done, card, blkLen, residue, sIdx, tx, botState>>
  BY <1>1, <1>2, <1>3 DEF OutBlock, DataOut, taskVars, hmscVars, pipeVars
<1>5. hsent' = hsent + 1 /\ rx.got \in Cells /\ rx.got < rx.size
      /\ buf' = [buf EXCEPT ![sIdx][rx.got] = hcmd.data[hsent + 1]]
  <2>1. rx.size > 0
    <3>1. rx.size >= Chunk(blkLen) \/ rx.size = Stream
      BY <1>1, <1>2 DEF Storing, Filling, QueuedWrite, Holding
    <3>2. Chunk(blkLen) \in Nat /\ Chunk(blkLen) > 0
      BY <1>1, StateFacts, ChunkFacts DEF Storing
    <3> QED
      BY <3>1, <3>2, StateFacts
  <2>2. rx.got < rx.size /\ rx.size <= Stream
    BY <1>1, <1>2, <2>1, StateFacts, SizesAssumption DEF TypeOK, EndpointTypes, RxOK
  <2> QED
    BY <1>2, <2>2, StateFacts DEF OutBlock, Cells
<1>6. /\ buf'[sIdx][rx.got] = hcmd.data[hsent + 1]
      /\ \A j \in Cells : j # rx.got => buf'[sIdx][j] = buf[sIdx][j]
      /\ \A b \in BufIds : b # sIdx => buf'[b] = buf[b]
  BY <1>2, <1>5, BufWritten
<1>7. /\ rx'.armed => rx'.got = rx.got + 1 /\ rx'.size = rx.size
      /\ ~rx'.armed => rx.got + 1 >= rx.size /\ q' = <<[op |-> "write", buf |-> sIdx]>>
  <2>1. CASE rx.got + 1 >= rx.size
    <3>1. DataOut(FALSE, cbw)
      BY <1>2, <2>1 DEF OutBlock
    <3>2. Signal("write", sIdx) /\ rx' = Disarmed(rx)
      BY <1>3, <3>1 DEF DataOut
    <3> QED
      BY <1>2, <2>1, <3>2, SizesAssumption DEF Signal, Filling, Disarmed, TypeOK,
         EndpointTypes, RxOK
  <2>2. CASE ~(rx.got + 1 >= rx.size)
    <3>1. rx' = [rx EXCEPT !.got = @ + 1]
      BY <1>2, <2>2 DEF OutBlock
    <3> QED
      BY <1>1, <3>1 DEF TypeOK, EndpointTypes, RxOK
  <2> QED
    BY <2>1, <2>2
<1>8. Base' = Base /\ Base \in Int
  BY <1>4, StateFacts DEF Base
<1>9. ASSUME NEW o \in Int, hsent = o + rx.got, Holds(sIdx, o, rx.got)
      PROVE  \A j \in 0 .. rx.got : buf'[sIdx][j] = hcmd.data[o + j + 1]
  <2>1. SUFFICES ASSUME NEW j \in 0 .. rx.got
                 PROVE  buf'[sIdx][j] = hcmd.data[o + j + 1]
    OBVIOUS
  <2>2. j \in Cells
    BY <1>5, StateFacts DEF Cells
  <2>3. CASE j = rx.got
    BY <1>6, <1>9, <2>3
  <2>4. CASE j # rx.got
    <3>1. j \in 0 .. rx.got - 1
      BY <2>4, StateFacts
    <3> QED
      BY <1>6, <1>9, <2>2, <2>4, <3>1 DEF Holds
  <2> QED
    BY <2>3, <2>4
<1>10. OnCard(IF pc = "writing" THEN Base + done ELSE Base)'
  BY <1>3, <1>4, <1>8 DEF WriteContents, OnCard
<1>11. CASE pc = "wait"
  <2>1. hsent = Base + rx.got
    BY <1>1, <1>2, <1>11 DEF Storing, Filling, QueuedWrite, Base
  <2>2. \A j \in 0 .. rx.got : buf'[sIdx][j] = hcmd.data[Base + j + 1]
    BY <1>1, <1>3, <1>8, <1>9, <1>11, <2>1 DEF WriteContents
  <2>3. CASE rx'.armed
    <3>1. rx'.got - 1 = rx.got
      BY <1>7, <2>3, StateFacts
    <3>2. Holds(sIdx, Base, rx.got)'
      BY <1>4, <1>8, <2>2, <3>1 DEF Holds
    <3>3. blkLen' = hcmd'.n => rx'.size = Chunk(blkLen')
      BY <1>1, <1>3, <1>4, <1>7, <1>11, <2>3 DEF WriteContents
    <3> QED
      BY <1>3, <1>4, <1>8, <1>10, <1>11, <2>3, <3>2, <3>3
         DEF WriteContents, WholeChunks, Contents, Fetching, Answering
  <2>4. CASE ~rx'.armed
    <3>1. Chunk(blkLen) \in Nat /\ Chunk(blkLen) <= rx.size
      BY <1>1, <1>2, <1>11, StateFacts, ChunkFacts DEF Storing, Filling, QueuedWrite
    <3>2. \A j \in 0 .. Chunk(blkLen) - 1 : j \in 0 .. rx.got
      BY <1>7, <2>4, <3>1, StateFacts
    <3>3. Holds(sIdx, Base, Chunk(blkLen))'
      BY <1>4, <1>8, <2>2, <3>2 DEF Holds
    <3> QED
      BY <1>3, <1>4, <1>8, <1>10, <1>11, <2>4, <3>3
         DEF WriteContents, WholeChunks, Contents, Fetching, Answering
  <2> QED
    BY <2>3, <2>4
<1>12. CASE pc = "writing"
  <2>1. cnt < blkLen /\ sIdx = 1 - cur /\ rx.size = Stream /\ hsent = Base + cnt + rx.got
    BY <1>1, <1>2, <1>12 DEF Storing, Filling, QueuedWrite, Holding, Base
  <2>2. \A j \in 0 .. rx.got : buf'[sIdx][j] = hcmd.data[Base + cnt + j + 1]
    <3>1. Holds(sIdx, Base + cnt, rx.got) /\ Base + cnt \in Int
      BY <1>1, <1>3, <1>8, <1>12, <2>1, StateFacts DEF WriteContents
    <3> QED
      BY <1>9, <2>1, <3>1
  <2>3. Holds(cur, Base, cnt)'
    <3>1. cur \in BufIds /\ cur # sIdx
      BY <2>1, StateFacts DEF BufIds
    <3>2. Holds(cur, Base, cnt)
      BY <1>3, <1>12 DEF WriteContents
    <3> QED
      BY <1>4, <1>6, <1>8, <3>1, <3>2 DEF Holds
  <2>4. CASE rx'.armed
    <3>1. rx'.got - 1 = rx.got
      BY <1>7, <2>4, StateFacts
    <3>2. Holds(sIdx, Base + cnt, rx.got)'
      BY <1>4, <1>8, <2>2, <3>1 DEF Holds
    <3> QED
      BY <1>3, <1>4, <1>8, <1>10, <1>12, <2>3, <2>4, <3>2
         DEF WriteContents, WholeChunks, Contents, Fetching, Answering
  <2>5. CASE ~rx'.armed
    <3>1. rx.got = Stream - 1
      BY <1>5, <1>7, <2>1, <2>5, StateFacts
    <3>2. Holds(sIdx, Base + cnt, Stream)'
      BY <1>4, <1>8, <2>2, <3>1 DEF Holds
    <3> QED
      BY <1>3, <1>4, <1>8, <1>10, <1>12, <2>3, <2>5, <3>2
         DEF WriteContents, WholeChunks, Contents, Fetching, Answering
  <2> QED
    BY <2>4, <2>5
<1> QED
  BY <1>2, <1>11, <1>12

(* A READ takes its blocks off the buffer in order; the residue of the     *)
(* status counts what is left.                                             *)
LEMMA OnTheWire ==
  ASSUME TypeOK, ShapeOK, Contents, InData
  PROVE  /\ Fetching /\ ~inStall /\ ReadContents /\ OnItsWay /\ InBlock
         /\ tx.kind = "data" /\ tx.sent \in Nat /\ tx.sent < tx.size /\ tx.buf \in BufIds
         /\ hphase = "datain"
         /\ Len(hrecv') = Len(hrecv) + 1
         /\ UNCHANGED <<hcmd, htag, hsent, hcsw, pc, cur, cnt, addr, done, card, buf>>
<1>1. Fetching /\ ~inStall /\ tx.kind = "data" /\ tx.size > 0 /\ hphase = "datain"
  BY DEF ShapeOK, Resting, Answering, Storing, Fetching, InData, ArmCbw, Arm, NoTx
<1>2. InBlock
  BY <1>1, StateFacts DEF InData, InStray
<1>3. ReadContents /\ OnItsWay
  BY <1>1 DEF Contents, ReadContents
<1>4. tx.sent \in Nat /\ tx.sent < tx.size /\ tx.buf \in BufIds
  BY <1>1 DEF TypeOK, EndpointTypes, TxOK
<1>5. Len(hrecv') = Len(hrecv) + 1
  BY <1>2 DEF InBlock, TypeOK, HostTypes
<1> QED
  BY <1>1, <1>2, <1>3, <1>4, <1>5 DEF InData, taskVars

LEMMA InDataContents ==
  ASSUME TypeOK, ShapeOK, Contents, TypeOK', ShapeOK', InData
  PROVE  Contents'
<1>1. /\ Fetching /\ ReadContents /\ OnItsWay /\ InBlock
      /\ tx.kind = "data" /\ tx.sent \in Nat /\ tx.sent < tx.size
      /\ Len(hrecv') = Len(hrecv) + 1
      /\ UNCHANGED <<hcmd, pc, cur, cnt, done, card, buf>>
  BY OnTheWire
<1>2. hcmd.op = "read"
  BY <1>1 DEF Fetching
<1>3. ASSUME UNCHANGED <<residue, blkLen, blkAddr, rdPend, rdBuf>>,
             tx'.kind = "data" => OnItsWay'
      PROVE  ReadContents'
  <2>1. Copies(cur, blkAddr, done)' = Copies(cur, blkAddr, done)
        /\ Copies(cur, blkAddr, cnt)' = Copies(cur, blkAddr, cnt)
        /\ Copies(rdBuf, blkAddr, Chunk(blkLen))' = Copies(rdBuf, blkAddr, Chunk(blkLen))
    BY <1>1, <1>3 DEF Copies
  <2> QED
    BY <1>1, <1>3, <2>1 DEF ReadContents
<1>4. CASE tx.sent + 1 = tx.size
  <2>1. DataIn
    BY <1>1, <1>4 DEF InBlock
  <2>2. CASE botState = "DATA_IN"
    <3>1. UNCHANGED <<residue, blkLen, blkAddr, rdPend, rdBuf, botState>> /\ tx' = NoTx
      BY <2>1, <2>2 DEF DataIn, hmscVars
    <3>2. ReadContents'
      BY <1>3, <3>1 DEF NoTx
    <3> QED
      BY <1>1, <1>2, <2>2, <3>1, <3>2 DEF Contents, Storing, Answering
  <2>3. CASE botState = "LAST_DATA_IN"
    <3>1. blkLen = 0 /\ pc = "wait" /\ OnWire(tx.size)
      BY <1>1, <2>3 DEF Fetching
    <3>2. SendCSW(NoTx, "passed", cswTag, residue)
      BY <2>1, <2>3 DEF DataIn
    <3>3. tx' = CswTx("passed", cswTag, residue) /\ botState' = "IDLE"
      BY <3>2 DEF SendCSW, Transmit, NoTx
    <3>4. tx'.status = "passed" /\ tx'.residue = 0
      BY <1>1, <3>1, <3>3 DEF CswTx, NoTx, ReadContents
    <3>5. Len(hrecv') = hcmd.n
      <4>1. /\ hcmd.n \in Nat /\ tx.sent \in Nat /\ tx.size = tx.sent + 1
            /\ Len(hrecv) = hcmd.n - tx.size + tx.sent
        BY <1>1, <1>4, <3>1, StateFacts DEF OnWire
      <4> QED
        BY <1>1, <4>1
    <3>6. AnswerContents'
      BY <1>1, <1>2, <3>4, <3>5, StateFacts DEF AnswerContents, ResidueHonest
    <3> QED
      BY <1>1, <1>2, <3>3, <3>6 DEF Contents, Storing, Fetching
  <2> QED
    BY <1>1, <2>2, <2>3 DEF Fetching
<1>5. CASE tx.sent + 1 # tx.size
  <2>1. tx' = [tx EXCEPT !.sent = @ + 1] /\ UNCHANGED <<hmscVars, pipeVars>>
    BY <1>1, <1>5 DEF InBlock
  <2>2. tx'.kind = "data" /\ tx'.size = tx.size /\ tx'.buf = tx.buf /\ tx'.sent = tx.sent + 1
    BY <1>1, <2>1 DEF TypeOK, EndpointTypes, TxOK
  <2>3. OnItsWay'
    <3>1. SUFFICES ASSUME NEW j \in tx.sent + 1 .. tx.size - 1
                   PROVE  buf[tx.buf][j]
                            = card[hcmd.lba + (Len(hrecv) + 1) + j - (tx.sent + 1)]
      BY <1>1, <2>2 DEF OnItsWay
    <3>2. /\ hcmd.lba \in Nat /\ Len(hrecv) \in Nat /\ tx.sent \in Nat /\ tx.size \in Nat
          /\ j \in tx.sent .. tx.size - 1
      BY <1>1, StateFacts
    <3>3. hcmd.lba + (Len(hrecv) + 1) + j - (tx.sent + 1) = hcmd.lba + Len(hrecv) + j - tx.sent
      <4>1. \A l, r, m \in Nat, i \in Int : l + (r + 1) + i - (m + 1) = l + r + i - m
        OBVIOUS
      <4>2. j \in Int
        OBVIOUS
      <4> QED
        BY <3>2, <4>1, <4>2, Zenon
    <3> QED
      BY <1>1, <3>2, <3>3 DEF OnItsWay
  <2>4. ReadContents' /\ botState' = botState
    BY <1>3, <2>1, <2>3 DEF hmscVars, pipeVars
  <2> QED
    BY <1>1, <1>2, <2>2, <2>4 DEF Contents, Storing, Answering
<1> QED
  BY <1>4, <1>5

LEMMA HostContents ==
  ASSUME TypeOK, ShapeOK, ShapeOK', HostIssue \/ InCsw \/ HostReset
  PROVE  Contents'
  BY Between DEF HostIssue, InCsw, HostReset

-----------------------------------------------------------------------------
(* The task                                                                *)

(* The item received names the buffer with the blocks it is about.         *)
LEMMA TaskRecvContents ==
  ASSUME TypeOK, ShapeOK, Contents, TypeOK', ShapeOK', TaskRecv
  PROVE  Contents'
<1>1. (Storing \/ Fetching) /\ q # <<>> /\ pc = "wait"
  BY DEF ShapeOK, Resting, Answering, TaskRecv
<1>2. /\ UNCHANGED <<hcmd, hrecv, residue, blkLen, blkAddr, sIdx, done, rx, tx, botState>>
      /\ UNCHANGED <<rdPend, rdBuf, buf, card>>
      /\ cur' = Head(q).buf /\ cnt' = Chunk(blkLen)
      /\ pc' = IF Head(q).op = "write" THEN "writeArm" ELSE "readTake"
  BY DEF TaskRecv, hostVars, hmscVars, epVars
<1>3. CASE Storing
  <2>1. WriteContents /\ QueuedWrite /\ hcmd.op = "write" /\ botState = "DATA_OUT"
    BY <1>1, <1>3 DEF Contents, Storing, Filling
  <2>2. cur' = sIdx /\ pc' = "writeArm"
    BY <1>2, <2>1 DEF QueuedWrite
  <2>3. Holds(sIdx, Base, Chunk(blkLen))
    BY <1>1, <2>1 DEF WriteContents, QueuedWrite
  <2>4. Base' = Base
    BY <1>2 DEF Base
  <2>5. Holds(cur, Base, cnt)'
    BY <1>2, <2>2, <2>3, <2>4 DEF Holds
  <2>6. OnCard(Base)'
    BY <1>1, <1>2, <2>1, <2>4 DEF WriteContents, OnCard
  <2>7. WriteContents'
    BY <1>2, <2>1, <2>2, <2>4, <2>5, <2>6 DEF WriteContents, WholeChunks
  <2> QED
    BY <1>2, <2>1, <2>7 DEF Contents, Fetching, Answering
<1>4. CASE Fetching
  <2>1. /\ ReadContents /\ hcmd.op = "read" /\ botState = "DATA_IN" /\ q[1].op = "read"
        /\ tx = NoTx
    BY <1>1, <1>4 DEF Contents, Fetching, OnWire, WireFree
  <2>2. Head(q) = q[1]
    BY <1>1 DEF TypeOK, PipeTypes
  <2>3. pc' = "readTake" /\ tx'.kind = "none"
    BY <1>2, <2>1, <2>2 DEF NoTx
  <2>4. Copies(rdBuf, blkAddr, Chunk(blkLen))' = Copies(rdBuf, blkAddr, Chunk(blkLen))
    BY <1>2 DEF Copies
  <2>5. ReadContents'
    BY <1>2, <2>1, <2>3, <2>4 DEF ReadContents
  <2> QED
    BY <1>2, <2>1, <2>5 DEF Contents, Storing, Answering
<1> QED
  BY <1>1, <1>3, <1>4

LEMMA TaskWriteArmContents ==
  ASSUME TypeOK, ShapeOK, Contents, TypeOK', ShapeOK', TaskWriteArm
  PROVE  Contents'
<1>1. /\ Storing /\ Holding /\ WriteContents /\ cnt = Chunk(blkLen) /\ hcmd.op = "write"
      /\ botState = "DATA_OUT" /\ pc = "writeArm"
  BY StateFacts DEF ShapeOK, Resting, Answering, Storing, Fetching, TaskWriteArm, Contents
<1>2. /\ UNCHANGED <<hcmd, residue, blkLen, cur, cnt, buf, card, botState>>
      /\ done' = 0 /\ pc' = "writing"
  BY DEF TaskWriteArm, hostVars, hmscVars
<1>3. Base' = Base /\ Base \in Int /\ Base + 0 = Base
  BY <1>2, StateFacts DEF Base
<1>4. OnCard(Base + done)' /\ Holds(cur, Base, cnt)'
  BY <1>1, <1>2, <1>3 DEF WriteContents, OnCard, Holds
<1>5. CASE cnt < blkLen
  <2>1. rx'.armed /\ rx'.got = 0
    BY <1>5 DEF TaskWriteArm, MoreToCome, Arm
  <2>2. Holds(sIdx, Base + cnt, rx.got)'
    BY <2>1 DEF Holds
  <2> QED
    BY <1>1, <1>2, <1>3, <1>4, <2>1, <2>2
       DEF WriteContents, WholeChunks, Contents, Fetching, Answering
<1>6. CASE ~(cnt < blkLen)
  <2>1. ~rx'.armed
    BY <1>1, <1>6 DEF TaskWriteArm, MoreToCome, Holding
  <2> QED
    BY <1>1, <1>2, <1>3, <1>4, <1>6, <2>1
       DEF WriteContents, WholeChunks, Contents, Fetching, Answering
<1> QED
  BY <1>5, <1>6

(* The block written is the host's, and goes to its own address.           *)
LEMMA OwnAddress ==
  ASSUME TypeOK, TaskWriteBlock, addr = blkAddr, cnt <= blkLen, blkLen <= hcmd.n,
         blkAddr + blkLen = hcmd.lba + hcmd.n, Holds(cur, Base, cnt)
  PROVE  /\ Base \in Nat /\ Base + done + 1 \in 1 .. hcmd.n
         /\ addr + done = hcmd.lba + Base + done /\ addr + done \in Blocks
         /\ card' = [card EXCEPT ![hcmd.lba + Base + done] = hcmd.data[Base + done + 1]]
<1>1. done < cnt /\ addr + done < NumBlocks
  BY DEF TaskWriteBlock
<1>2. /\ hcmd.n \in Nat /\ blkLen \in Nat /\ done \in Nat /\ cnt \in Nat
      /\ hcmd.lba \in Nat /\ blkAddr \in Nat /\ addr \in Nat /\ NumBlocks \in Nat
  BY StateFacts, SizesAssumption
<1>3. Base \in Nat /\ Base + done + 1 \in 1 .. hcmd.n
  <2>1. \A n, l, d, c \in Nat :
          l <= n /\ c <= l /\ d < c => n - l \in Nat /\ (n - l) + d + 1 \in 1 .. n
    OBVIOUS
  <2> QED
    BY <1>1, <1>2, <2>1 DEF Base
<1>4. addr + done = hcmd.lba + Base + done /\ addr + done \in Blocks
  <2>1. \A a, l, b, n, d \in Nat : a + l = b + n => a + d = b + (n - l) + d
    OBVIOUS
  <2>2. addr + done = hcmd.lba + Base + done
    BY <1>2, <2>1 DEF Base
  <2> QED
    BY <1>1, <1>2, <2>2 DEF Blocks
<1>5. buf[cur][done] = hcmd.data[Base + done + 1]
  <2>1. done \in 0 .. cnt - 1
    BY <1>1, <1>2
  <2> QED
    BY <2>1 DEF Holds
<1>6. card' = [card EXCEPT ![hcmd.lba + Base + done] = hcmd.data[Base + done + 1]]
  BY <1>4, <1>5 DEF TaskWriteBlock
<1> QED
  BY <1>3, <1>4, <1>6

LEMMA BlockStored ==
  ASSUME TypeOK, ShapeOK, Contents, TaskWriteBlock
  PROVE  /\ Storing /\ WriteContents /\ hcmd.op = "write" /\ botState = "DATA_OUT"
         /\ UNCHANGED <<hphase, hcmd, hrecv, hcsw, residue, blkLen, cur, cnt, pc, sIdx, rx, tx>>
         /\ UNCHANGED <<buf, botState>>
         /\ pc = "writing" /\ done' = done + 1 /\ done < cnt
         /\ Base \in Nat /\ Base + done + 1 \in 1 .. hcmd.n
         /\ addr + done = hcmd.lba + Base + done /\ addr + done \in Blocks
         /\ card' = [card EXCEPT ![hcmd.lba + Base + done] = hcmd.data[Base + done + 1]]
<1>1. /\ UNCHANGED <<hphase, hcmd, hrecv, hcsw, residue, blkLen, cur, cnt, pc, sIdx, rx, tx>>
      /\ UNCHANGED <<buf, botState>>
      /\ pc = "writing" /\ done' = done + 1 /\ done < cnt
  BY DEF TaskWriteBlock, hostVars, hmscVars, pipeVars, epVars
<1>2. Storing /\ cnt <= blkLen /\ addr = blkAddr
  BY <1>1, WritingFacts
<1>3. /\ WriteContents /\ hcmd.op = "write" /\ blkLen <= hcmd.n /\ botState = "DATA_OUT"
      /\ blkAddr + blkLen = hcmd.lba + hcmd.n
  BY <1>2, StateFacts DEF Contents, Storing
<1>4. Holds(cur, Base, cnt)
  BY <1>1, <1>3 DEF WriteContents
<1>5. /\ Base \in Nat /\ Base + done + 1 \in 1 .. hcmd.n
      /\ addr + done = hcmd.lba + Base + done /\ addr + done \in Blocks
      /\ card' = [card EXCEPT ![hcmd.lba + Base + done] = hcmd.data[Base + done + 1]]
  BY <1>2, <1>3, <1>4, OwnAddress
<1> QED
  BY <1>1, <1>2, <1>3, <1>5

LEMMA TaskWriteBlockContents ==
  ASSUME TypeOK, ShapeOK, Contents, TypeOK', ShapeOK', TaskWriteBlock
  PROVE  Contents'
<1>1. /\ WriteContents /\ hcmd.op = "write" /\ botState = "DATA_OUT" /\ pc = "writing"
      /\ UNCHANGED <<hcmd, residue, blkLen, cur, cnt, pc, sIdx, rx, buf, botState>>
      /\ done' = done + 1 /\ Base \in Nat /\ Base + done + 1 \in 1 .. hcmd.n
      /\ hcmd.lba + Base + done \in Blocks
      /\ card' = [card EXCEPT ![hcmd.lba + Base + done] = hcmd.data[Base + done + 1]]
  BY BlockStored
<1>2. Base' = Base /\ OnCard(Base + done)
  BY <1>1 DEF Base, WriteContents
<1>0. /\ hcmd.n \in Nat /\ hcmd.lba \in Nat /\ done \in Nat /\ NumBlocks \in Nat
      /\ hcmd.lba + hcmd.n <= NumBlocks
  BY StateFacts, SizesAssumption
<1>3. OnCard(Base + done)'
  <2>1. SUFFICES ASSUME NEW i \in 1 .. Base + (done + 1)
                 PROVE  card'[hcmd.lba + i - 1] = hcmd.data[i]
    BY <1>1, <1>2 DEF OnCard
  <2>2. DOMAIN card = Blocks
    BY DEF TypeOK, MemoryTypes
  <2>3. CASE i = Base + done + 1
    <3>1. \A a, b, d \in Nat : a + (b + d + 1) - 1 = a + b + d
      OBVIOUS
    <3>2. hcmd.lba + i - 1 = hcmd.lba + Base + done
      BY <1>0, <1>1, <2>3, <3>1
    <3> QED
      BY <1>1, <2>2, <2>3, <3>2
  <2>4. CASE i # Base + done + 1
    <3>1. \A a, b, d, n \in Nat : \A k \in 1 .. b + (d + 1) :
            k # b + d + 1 /\ b + d + 1 \in 1 .. n /\ a + n <= NumBlocks =>
              /\ k \in 1 .. b + d /\ a + k - 1 # a + b + d
              /\ a + k - 1 \in 0 .. NumBlocks - 1
      BY <1>0
    <3>2. /\ i \in 1 .. Base + done /\ hcmd.lba + i - 1 # hcmd.lba + Base + done
          /\ hcmd.lba + i - 1 \in Blocks
      BY <1>0, <1>1, <2>4, <3>1 DEF Blocks
    <3>3. card[hcmd.lba + i - 1] = hcmd.data[i]
      BY <1>2, <3>2 DEF OnCard
    <3>4. card'[hcmd.lba + i - 1] = card[hcmd.lba + i - 1]
      BY <1>1, <2>2, <3>2
    <3> QED
      BY <3>3, <3>4
  <2> QED
    BY <2>3, <2>4
<1>4. /\ Holds(cur, Base, cnt)' = Holds(cur, Base, cnt)
      /\ Holds(sIdx, Base + cnt, rx.got)' = Holds(sIdx, Base + cnt, rx.got)
      /\ Holds(sIdx, Base + cnt, Stream)' = Holds(sIdx, Base + cnt, Stream)
  BY <1>1, <1>2 DEF Holds
<1>5. WriteContents'
  BY <1>1, <1>2, <1>3, <1>4 DEF WriteContents, WholeChunks
<1> QED
  BY <1>1, <1>5 DEF Contents, Fetching, Answering

(* A refused write counts the chunk it was in as not transferred.          *)
LEMMA TaskWriteFailContents ==
  ASSUME TypeOK, ShapeOK, Contents, TypeOK', ShapeOK', TaskWriteFail
  PROVE  Contents'
<1>1. pc = "writing" /\ Storing /\ tx = NoTx /\ hcmd.op = "write" /\ WriteContents
  BY WritingFacts DEF TaskWriteFail, Storing, Contents
<1>2. SendCSW(tx, "failed", cswTag, residue) /\ UNCHANGED <<hcmd, hrecv, card>>
  BY DEF TaskWriteFail, Refuse, hostVars
<1>3. tx' = CswTx("failed", cswTag, residue) /\ botState' = "IDLE"
  BY <1>1, <1>2 DEF SendCSW, Transmit, NoTx
<1>4. tx'.status = "failed" /\ tx'.residue = blkLen
  BY <1>1, <1>3 DEF CswTx, NoTx, WriteContents
<1>5. OnCard(hcmd.n - blkLen)
  <2>1. OnCard(Base + done) /\ Base \in Int /\ done \in Nat
    BY <1>1, StateFacts DEF WriteContents, Base
  <2>2. \A i \in 1 .. Base : i \in 1 .. Base + done
    BY <2>1
  <2> QED
    BY <2>1, <2>2 DEF OnCard, Base
<1>6. AnswerContents'
  BY <1>1, <1>2, <1>4, <1>5 DEF AnswerContents, ResidueHonest, OnCard
<1> QED
  BY <1>1, <1>2, <1>3, <1>6 DEF Contents, Storing, Fetching

(* A finished chunk is accounted for; what the other buffer has belongs to *)
(* the next one.                                                           *)
LEMMA TaskWriteDoneContents ==
  ASSUME TypeOK, ShapeOK, Contents, TypeOK', ShapeOK', TaskWriteDone
  PROVE  Contents'
<1>1. /\ UNCHANGED <<hcmd, hrecv, sIdx, q, cur, cnt, done, buf, card>>
      /\ pc = "writing" /\ pc' = "wait" /\ done = cnt
      /\ blkLen' = Minus(blkLen, cnt) /\ residue' = Minus(residue, cnt)
  BY DEF TaskWriteDone, hostVars, pipeVars
<1>2. /\ Storing /\ tx = NoTx /\ hcmd.op = "write" /\ botState = "DATA_OUT" /\ WriteContents
      /\ cnt = Chunk(blkLen) /\ cnt <= blkLen /\ blkLen <= hcmd.n
  BY <1>1, WritingFacts, StateFacts DEF Storing, Contents
<1>3. hcmd.n \in Nat /\ blkLen \in 1 .. LenMod - 1 /\ cnt \in 1 .. Stream /\ Stream \in Nat
  BY <1>2, StateFacts, ChunkFacts DEF TypeOK, HmscTypes, Storing
<1>4. blkLen' = blkLen - cnt /\ residue' = blkLen - cnt
  BY <1>1, <1>2, <1>3, MinusFacts DEF WriteContents
<1>5. Base' = Base + cnt /\ Base \in Nat /\ blkLen' # hcmd'.n
  BY <1>1, <1>2, <1>3, <1>4 DEF Base
<1>6. OnCard(Base + cnt) /\ OnCard(Base)'
  BY <1>1, <1>2, <1>5 DEF WriteContents, OnCard
<1>7. CASE blkLen' = 0
  <2>1. SendCSW(tx, "passed", cswTag, residue')
    BY <1>7 DEF TaskWriteDone
  <2>2. tx' = CswTx("passed", cswTag, residue') /\ botState' = "IDLE"
    BY <1>2, <2>1 DEF SendCSW, Transmit, NoTx
  <2>3. tx'.status = "passed" /\ tx'.residue = 0
    BY <1>4, <1>7, <2>2 DEF CswTx, NoTx
  <2>4. Base' = hcmd.n /\ hcmd'.n - 0 = hcmd.n
    BY <1>1, <1>3, <1>7 DEF Base
  <2>5. AnswerContents'
    BY <1>1, <1>2, <1>6, <2>3, <2>4 DEF AnswerContents, ResidueHonest, OnCard
  <2> QED
    BY <1>1, <1>2, <2>2, <2>5 DEF Contents, Storing, Fetching
<1>8. CASE blkLen' # 0
  <2>1. UNCHANGED <<botState, rx, tx>>
    BY <1>8 DEF TaskWriteDone, epVars
  <2>2. cnt = Stream /\ cnt < blkLen
    BY <1>2, <1>3, <1>4, <1>8, ChunkFacts
  <2>3. WholeChunks(Base + Stream)
    BY <1>2, <1>5, ChunksFacts DEF WriteContents
  <2>4. rx'.armed => Holds(sIdx, Base, rx.got)'
    BY <1>1, <1>2, <1>5, <2>1 DEF WriteContents, Holds
  <2>5. ~rx'.armed => Holds(sIdx, Base, Chunk(blkLen))'
    <3>1. ASSUME ~rx.armed
          PROVE  Holds(sIdx, Base + cnt, Stream)
      BY <1>1, <1>2, <2>2, <3>1 DEF WriteContents
    <3>2. \A j \in 0 .. Chunk(blkLen') - 1 : j \in 0 .. Stream - 1
      <4>1. blkLen' \in Nat
        BY <1>2, <1>3, <1>4
      <4>2. Chunk(blkLen') \in 0 .. Stream
        BY <4>1, ChunkFacts
      <4> QED
        BY <1>3, <4>2
    <3> QED
      BY <1>1, <1>5, <2>1, <3>1, <3>2 DEF Holds
  <2>6. WholeChunks(Base')
    BY <1>5, <2>2, <2>3
  <2>7. WriteContents'
    BY <1>1, <1>4, <1>5, <1>6, <2>4, <2>5, <2>6 DEF WriteContents, WholeChunks
  <2> QED
    BY <1>1, <1>2, <2>1, <2>7 DEF Contents, Fetching, Answering
<1> QED
  BY <1>7, <1>8

(* A refused READ counts every block the host has not got.                 *)
LEMMA ReadRefusedContents ==
  ASSUME TypeOK, ShapeOK, Contents, pc \in {"readTake", "reading"}, Refuse,
         UNCHANGED <<hcmd, hrecv>>
  PROVE  Contents'
<1>1. Fetching /\ WireFree /\ ReadContents /\ hcmd.op = "read"
  BY FetchingFacts DEF Contents, Fetching
<1>2. tx' = CswTx("failed", cswTag, residue) /\ botState' = "IDLE"
  BY <1>1 DEF Refuse, SendCSW, Transmit, WireFree, NoTx
<1>3. tx'.status = "failed" /\ tx'.residue = blkLen
  BY <1>1, <1>2 DEF CswTx, NoTx, ReadContents
<1>4. blkLen = hcmd.n - Len(hrecv)
  BY <1>1, StateFacts DEF WireFree
<1>5. AnswerContents'
  BY <1>1, <1>3, <1>4 DEF AnswerContents, ResidueHonest
<1> QED
  BY <1>1, <1>2, <1>5 DEF Contents, Storing, Fetching

(* The chunk read ahead is the one the host gets next.                     *)
LEMMA TaskReadTakeContents ==
  ASSUME TypeOK, ShapeOK, Contents, TypeOK', ShapeOK', TaskReadTake
  PROVE  Contents'
<1>1. /\ pc = "readTake"
      /\ UNCHANGED <<hcmd, hrecv, residue, blkLen, blkAddr, rdBuf, cnt, buf, card>>
  BY DEF TaskReadTake, hostVars
<1>2. /\ Fetching /\ WireFree /\ cnt = Chunk(blkLen) /\ hcmd.op = "read" /\ ReadContents
      /\ botState = "DATA_IN"
  BY <1>1, FetchingFacts DEF Contents, Fetching
<1>3. CASE Refuse
  BY <1>1, <1>3, ReadRefusedContents
<1>4. CASE /\ UNCHANGED <<botState, epVars>> /\ ~rdPend'
           /\ \/ rdPend /\ cur' = rdBuf /\ pc' = "send"
              \/ addr' = blkAddr /\ done' = 0 /\ pc' = "reading"
  <2>1. tx'.kind = "none" /\ botState' = botState
    BY <1>2, <1>4 DEF epVars, WireFree, NoTx
  <2>2. pc' = "send" => Copies(cur, blkAddr, cnt)'
    BY <1>1, <1>2, <1>4 DEF ReadContents, Copies
  <2>3. pc' \in {"reading", "prefetch"} => Copies(cur, blkAddr, done)'
    BY <1>4 DEF Copies
  <2>4. ReadContents'
    BY <1>1, <1>2, <1>4, <2>1, <2>2, <2>3 DEF ReadContents
  <2> QED
    BY <1>1, <1>2, <2>1, <2>4 DEF Contents, Storing, Answering
<1> QED
  BY <1>3, <1>4 DEF TaskReadTake

(* A block read goes behind those its buffer has, and leaves alone the     *)
(* buffer on the wire.                                                     *)
LEMMA TaskReadBlockContents ==
  ASSUME TypeOK, ShapeOK, Contents, TypeOK', ShapeOK', TaskReadBlock
  PROVE  Contents'
<1>1. /\ UNCHANGED <<hcmd, hrecv, residue, blkLen, blkAddr, rdPend, rdBuf, pc, cur, cnt, tx>>
      /\ UNCHANGED <<card, botState>>
      /\ done' = done + 1 /\ done < cnt /\ pc \in {"reading", "prefetch"}
      /\ buf' = [buf EXCEPT ![cur][done] = card[addr + done]]
  BY DEF TaskReadBlock, hostVars, hmscVars, pipeVars, epVars
<1>2. /\ Fetching /\ ReadContents /\ hcmd.op = "read" /\ botState = "DATA_IN" /\ addr = blkAddr
  BY <1>1, FetchingFacts DEF Contents, Fetching
<1>3. cur \in BufIds /\ done \in Cells /\ done \in Nat
  BY <1>1, StateFacts DEF Cells
<1>4. /\ buf'[cur][done] = card[blkAddr + done]
      /\ \A j \in Cells : j # done => buf'[cur][j] = buf[cur][j]
      /\ \A b \in BufIds : b # cur => buf'[b] = buf[b]
  BY <1>1, <1>2, <1>3, BufWritten
<1>5. Copies(cur, blkAddr, done)'
  <2>1. SUFFICES ASSUME NEW j \in 0 .. (done + 1) - 1
                 PROVE  buf'[cur][j] = card[blkAddr + j]
    BY <1>1 DEF Copies
  <2>2. CASE j = done
    BY <1>4, <2>2
  <2>3. CASE j # done
    <3>1. j \in 0 .. done - 1 /\ j \in Cells
      BY <1>3, <2>3, SizesAssumption DEF Cells
    <3> QED
      BY <1>1, <1>2, <1>4, <2>3, <3>1 DEF ReadContents, Copies
  <2> QED
    BY <2>2, <2>3
<1>6. tx.kind = "data" => OnItsWay'
  <2>1. SUFFICES ASSUME tx.kind = "data"
                 PROVE  OnItsWay'
    OBVIOUS
  <2>2. tx # NoTx
    BY <2>1 DEF NoTx
  <2>3. tx.buf = 1 - cur
    BY <1>1, <1>2, <2>2 DEF Fetching, WireFree
  <2>4. buf'[tx.buf] = buf[tx.buf]
    BY <1>3, <1>4, <2>3 DEF BufIds
  <2> QED
    BY <1>1, <1>2, <2>1, <2>4 DEF ReadContents, OnItsWay
<1>7. ReadContents'
  BY <1>1, <1>2, <1>5, <1>6 DEF ReadContents
<1> QED
  BY <1>1, <1>2, <1>7 DEF Contents, Storing, Answering

LEMMA TaskReadFailContents ==
  ASSUME TypeOK, ShapeOK, Contents, TypeOK', ShapeOK', TaskReadFail
  PROVE  Contents'
<1>1. /\ UNCHANGED <<hcmd, hrecv, residue, blkLen, blkAddr, rdPend, buf, card>>
      /\ pc' = "wait" /\ pc \in {"reading", "prefetch"}
  BY DEF TaskReadFail, hostVars
<1>2. CASE pc = "reading"
  BY <1>1, <1>2, ReadRefusedContents DEF TaskReadFail
<1>3. CASE pc = "prefetch"
  <2>1. UNCHANGED <<botState, tx>>
    BY <1>3 DEF TaskReadFail, ReadAheadFailed, epVars
  <2>2. Fetching /\ ReadContents /\ hcmd.op = "read" /\ botState = "DATA_IN"
    BY <1>1, FetchingFacts DEF Contents, Fetching
  <2>3. tx.kind = "data" => OnItsWay'
    BY <1>1, <2>1, <2>2 DEF ReadContents, OnItsWay
  <2>4. ReadContents'
    BY <1>1, <1>3, <2>1, <2>2, <2>3 DEF ReadContents
  <2> QED
    BY <1>1, <2>1, <2>2, <2>4 DEF Contents, Storing, Answering
<1> QED
  BY <1>1, <1>2, <1>3

LEMMA TaskReadDoneContents ==
  ASSUME TypeOK, ShapeOK, Contents, TypeOK', ShapeOK', TaskReadDone
  PROVE  Contents'
<1>1. /\ UNCHANGED <<hcmd, hrecv, residue, blkLen, blkAddr, cur, cnt, tx, buf, card, botState>>
      /\ pc \in {"reading", "prefetch"} /\ done = cnt
      /\ \/ pc = "reading" /\ pc' = "send" /\ rdPend' = rdPend
         \/ pc = "prefetch" /\ pc' = "wait" /\ rdBuf' = cur
  BY DEF TaskReadDone, hostVars, hmscVars, epVars
<1>2. /\ Fetching /\ ReadContents /\ hcmd.op = "read" /\ botState = "DATA_IN"
      /\ cnt = Chunk(blkLen)
  BY <1>1, FetchingFacts DEF Contents, Fetching
<1>3. Copies(cur, blkAddr, cnt) /\ ~rdPend
  BY <1>1, <1>2 DEF ReadContents
<1>4. Copies(cur, blkAddr, cnt)'
      /\ (pc' = "wait" => Copies(rdBuf, blkAddr, Chunk(blkLen))')
  BY <1>1, <1>2, <1>3 DEF Copies
<1>5. tx.kind = "data" => OnItsWay'
  BY <1>1, <1>2 DEF ReadContents, OnItsWay
<1>6. ReadContents'
  BY <1>1, <1>2, <1>3, <1>4, <1>5 DEF ReadContents
<1> QED
  BY <1>1, <1>2, <1>6 DEF Contents, Storing, Answering

LEMMA TaskSendContents ==
  ASSUME TypeOK, ShapeOK, Contents, TypeOK', ShapeOK', TaskSend
  PROVE  Contents'
<1>1. /\ UNCHANGED <<hcmd, hrecv, residue, blkLen, blkAddr, rdPend, cur, cnt, buf, card>>
      /\ pc = "send" /\ pc' = "sent" /\ Transmit(tx, DataTx(cur, cnt)) /\ botState' = botState
  BY DEF TaskSend, hostVars, hmscVars, pipeVars
<1>2. /\ Fetching /\ WireFree /\ ReadContents /\ hcmd.op = "read" /\ botState = "DATA_IN"
      /\ blkAddr + blkLen = hcmd.lba + hcmd.n
  BY <1>1, FetchingFacts DEF Contents, Fetching
<1>3. tx' = DataTx(cur, cnt)
  BY <1>1, <1>2 DEF Transmit, WireFree, NoTx
<1>4. tx'.buf = cur /\ tx'.size = cnt /\ tx'.sent = 0
  BY <1>3 DEF DataTx, NoTx
<1>5. OnItsWay'
  <2>1. SUFFICES ASSUME NEW j \in 0 .. cnt - 1
                 PROVE  buf[cur][j] = card[hcmd.lba + Len(hrecv) + j - 0]
    BY <1>1, <1>4 DEF OnItsWay
  <2>2. buf[cur][j] = card[blkAddr + j]
    BY <1>1, <1>2 DEF ReadContents, Copies
  <2>3. blkAddr + j = hcmd.lba + Len(hrecv) + j - 0
    <3>1. \A a, l, b, n, r \in Nat, i \in Int :
            a + l = b + n /\ r = n - l => a + i = b + r + i - 0
      OBVIOUS
    <3>2. /\ blkAddr \in Nat /\ blkLen \in Nat /\ hcmd.lba \in Nat /\ hcmd.n \in Nat
          /\ Len(hrecv) \in Nat /\ j \in Int
      BY StateFacts
    <3>3. Len(hrecv) = hcmd.n - blkLen
      BY <1>2 DEF WireFree
    <3> QED
      BY <1>2, <3>1, <3>2, <3>3
  <2> QED
    BY <2>2, <2>3
<1>6. ReadContents'
  BY <1>1, <1>2, <1>5 DEF ReadContents
<1> QED
  BY <1>1, <1>2, <1>6 DEF Contents, Storing, Answering

LEMMA TaskSentContents ==
  ASSUME TypeOK, ShapeOK, Contents, TypeOK', ShapeOK', TaskSent
  PROVE  Contents'
<1>1. /\ UNCHANGED <<hcmd, hrecv, rdPend, tx, buf, card>> /\ pc = "sent"
      /\ blkLen' = Minus(blkLen, cnt) /\ residue' = Minus(residue, cnt)
      /\ \/ pc' = "wait" /\ botState' = "LAST_DATA_IN"
         \/ pc' = "prefetch" /\ done' = 0 /\ botState' = botState
  BY DEF TaskSent, hostVars, pipeVars, epVars
<1>2. Fetching /\ ReadContents /\ hcmd.op = "read" /\ botState = "DATA_IN"
  BY <1>1, FetchingFacts DEF Contents, Fetching
<1>3. tx.kind = "data" => OnItsWay'
  BY <1>1, <1>2 DEF ReadContents, OnItsWay
<1>4. pc' = "prefetch" => Copies(cur, blkAddr, done)'
  BY <1>1 DEF Copies
<1>5. ReadContents'
  BY <1>1, <1>2, <1>3, <1>4 DEF ReadContents
<1> QED
  BY <1>1, <1>2, <1>5 DEF Contents, Storing, Answering

LEMMA ContentsInit == Init => Contents
  BY DEF Init, Contents, Storing, Fetching, Answering

LEMMA ContentsStep ==
  ASSUME TypeOK, ShapeOK, Contents, ContainedFaults, ~BusReset, [Next]_vars
  PROVE  Contents'
<1>0. TypeOK' /\ ShapeOK'
  BY TypeStep, ShapeStep
<1>1. CASE HostIssue \/ InCsw \/ HostReset
  BY <1>0, <1>1, HostContents
<1>2. CASE OutCbw \/ OutBlock \/ InData
  BY <1>0, <1>2, OutCbwContents, OutBlockContents, InDataContents
<1>3. CASE TaskRecv
  BY <1>0, <1>3, TaskRecvContents
<1>4. CASE TaskWriteArm \/ TaskWriteBlock \/ TaskWriteFail \/ TaskWriteDone
  BY <1>0, <1>4, TaskWriteArmContents, TaskWriteBlockContents, TaskWriteFailContents,
     TaskWriteDoneContents
<1>5. CASE TaskReadTake \/ TaskReadBlock \/ TaskReadFail \/ TaskReadDone
  BY <1>0, <1>5, TaskReadTakeContents, TaskReadBlockContents, TaskReadFailContents,
     TaskReadDoneContents
<1>6. CASE TaskSend \/ TaskSent
  BY <1>0, <1>6, TaskSendContents, TaskSentContents
<1>7. ~HostConfigure
  BY DEF ShapeOK, Resting, Answering, Storing, Fetching, HostConfigure
<1>8. CASE UNCHANGED vars
  <2>1. /\ UNCHANGED <<hphase, hcmd, htag, hsent, hrecv, botState, cswTag, residue, blkAddr>>
        /\ UNCHANGED <<blkLen, sIdx, q, rdPend, rdBuf, pc, cur, cnt, addr, done, rx, tx>>
        /\ UNCHANGED <<buf, card>>
    BY <1>8 DEF vars, hostVars, hmscVars, pipeVars, taskVars, epVars
  <2>2. /\ Storing' = Storing /\ Fetching' = Fetching /\ Answering' = Answering
        /\ AnswerContents' = AnswerContents /\ ReadContents' = ReadContents
    BY <2>1 DEF Storing, Fetching, Answering, QueuedWrite, Filling, Holding, OnWire, WireFree,
                AnswerContents, ResidueHonest, ReadContents, Copies, OnItsWay
  <2>3. WriteContents' = WriteContents
    BY <2>1 DEF WriteContents, WholeChunks, Base, Holds, OnCard
  <2> QED
    BY <2>2, <2>3 DEF Contents
<1> QED
  BY <1>0, <1>1, <1>2, <1>3, <1>4, <1>5, <1>6, <1>7, <1>8 DEF Next, Wire, Task

-----------------------------------------------------------------------------
(* The task alone, after a bus reset                                       *)

(* A task that is not storing has no block of the host's any more.         *)
LEMMA NothingStoredAlone ==
  ASSUME ~StoringAlone', ~DataArmed'
  PROVE  AloneContents'
  BY DEF AloneContents

LEMMA BusResetContents ==
  ASSUME TypeOK, ShapeOK, Contents, BusReset
  PROVE  AloneContents'
<1>1. /\ rx' = Disarmed(rx)
      /\ UNCHANGED <<hcmd, hsent, blkAddr, blkLen, sIdx, q, pc, cur, cnt, addr, done, buf>>
  BY DEF BusReset, pipeVars, taskVars
<1>2. ~DataArmed'
  BY <1>1 DEF DataArmed, Disarmed, TypeOK, EndpointTypes, RxOK
<1>3. CASE ~StoringAlone'
  BY <1>2, <1>3, NothingStoredAlone
<1>4. CASE StoringAlone'
  <2>1. hcmd.op = "write" /\ (pc = "wait" => q # <<>>)
    BY <1>1, <1>4 DEF StoringAlone, QueuedWrite
  <2>2. Storing /\ WriteContents
    BY <2>1 DEF ShapeOK, Resting, Answering, Fetching, Contents
  <2>3. q # <<>> => ~rx.armed /\ (pc = "writing" => cnt < blkLen)
    BY <2>2 DEF Storing, QueuedWrite, Filling, Holding
  <2>4. /\ WholeChunks(Base)
        /\ pc = "wait" => Holds(sIdx, Base, Chunk(blkLen))
        /\ pc # "wait" => Holds(cur, Base, cnt)
        /\ pc = "writing" /\ q # <<>> => Holds(sIdx, Base + cnt, Stream)
    BY <2>1, <2>2, <2>3 DEF WriteContents
  <2>5. Base' = Base
    BY <1>1 DEF Base
  <2> QED
    BY <1>1, <1>2, <2>4, <2>5 DEF AloneContents, WholeChunks, Holds
<1> QED
  BY <1>3, <1>4

LEMMA TaskRecvAloneContents ==
  ASSUME TypeOK, Unwinding, AloneContents, TaskRecv
  PROVE  AloneContents'
<1>1. /\ UNCHANGED <<hphase, hcmd, hsent, blkLen, sIdx, rx, buf>>
      /\ q # <<>> /\ cur' = Head(q).buf /\ cnt' = Chunk(blkLen) /\ pc = "wait"
  BY DEF TaskRecv, hostVars, hmscVars, epVars
<1>2. CASE hcmd.op = "write"
  <2>1. StoringAlone /\ QueuedWrite /\ ~DataArmed
    BY <1>1, <1>2 DEF Unwinding, AtRest, FetchingAlone, StoringAlone, QueuedWrite, DataArmed
  <2>2. cur' = sIdx /\ pc' = "writeArm"
    BY <1>1, <2>1 DEF QueuedWrite, TaskRecv
  <2>3. WholeChunks(Base) /\ Holds(sIdx, Base, Chunk(blkLen))
    BY <1>1, <2>1 DEF AloneContents
  <2>4. Base' = Base
    BY <1>1 DEF Base
  <2>5. WholeChunks(Base)' /\ Holds(cur, Base, cnt)'
    BY <1>1, <2>2, <2>3, <2>4 DEF WholeChunks, Holds
  <2> QED
    BY <1>1, <2>1, <2>2, <2>5 DEF AloneContents, DataArmed
<1>3. CASE hcmd.op # "write"
  <2>1. ~StoringAlone' /\ ~DataArmed'
    BY <1>1, <1>3 DEF StoringAlone, Unwinding, DataArmed
  <2> QED
    BY <2>1, NothingStoredAlone
<1> QED
  BY <1>2, <1>3

(* The buffer armed before the last chunk but one, and before that.        *)
LEMMA TaskWriteArmAloneContents ==
  ASSUME TypeOK, Unwinding, AloneContents, TaskWriteArm
  PROVE  AloneContents'
<1>1. /\ UNCHANGED <<hcmd, hsent, blkLen, q, cur, cnt, buf>>
      /\ pc = "writeArm" /\ pc' = "writing"
  BY DEF TaskWriteArm, hostVars, hmscVars
<1>2. StoringAlone /\ cnt = Chunk(blkLen)
  BY <1>1, AloneFacts
<1>3. q = <<>> /\ ~rx.armed /\ hsent = hcmd.n - blkLen + cnt /\ blkLen <= hcmd.n
  BY <1>1, <1>2, StateFacts DEF StoringAlone, Holding
<1>4. WholeChunks(Base) /\ Holds(cur, Base, cnt)
  BY <1>1, <1>2 DEF AloneContents
<1>5. WholeChunks(Base)' /\ Holds(cur, Base, cnt)'
  BY <1>1, <1>4 DEF WholeChunks, Holds, Base
<1>6. ASSUME DataArmed'
      PROVE  /\ rx'.size = Stream /\ rx'.got = 0
             /\ hsent \in 1 .. hcmd.n - 1 /\ WholeChunks(hsent)
  <2>1. cnt < blkLen /\ rx' = Arm(NextBuf(cur), cnt)
    BY <1>3, <1>6 DEF TaskWriteArm, MoreToCome, DataArmed
  <2>2. cnt = Stream
    BY <1>2, <2>1, StateFacts, ChunkFacts
  <2>3. /\ hcmd.n \in Nat /\ blkLen \in Nat /\ Stream \in Nat /\ Stream > 0
        /\ Base \in Nat /\ hsent = Base + Stream /\ hsent \in 1 .. hcmd.n - 1
    <3>1. hcmd.n \in Nat /\ blkLen \in Nat /\ Stream \in Nat /\ Stream > 0
      BY StateFacts
    <3> QED
      BY <1>3, <2>1, <2>2, <3>1 DEF Base
  <2>4. WholeChunks(hsent)
    BY <1>4, <2>3, ChunksFacts
  <2> QED
    BY <2>1, <2>2, <2>3, <2>4 DEF Arm
<1>7. DataArmed' =>
        /\ rx'.size = Stream /\ rx'.got = 0
        /\ hsent' \in 1 .. hcmd'.n - 1 /\ WholeChunks(hsent')
  BY <1>1, <1>6
<1> QED
  BY <1>1, <1>3, <1>5, <1>7 DEF AloneContents, WholeChunks

LEMMA TaskWriteBlockAloneContents ==
  ASSUME TypeOK, Unwinding, AloneContents, TaskWriteBlock
  PROVE  AloneContents'
<1>1. /\ UNCHANGED <<hcmd, hsent, blkLen, sIdx, q, pc, cur, cnt, rx, buf>> /\ pc = "writing"
  BY DEF TaskWriteBlock, hostVars, hmscVars, pipeVars, epVars
<1>2. StoringAlone
  BY <1>1, AloneFacts
<1>3. Base' = Base
  BY <1>1 DEF Base
<1> QED
  BY <1>1, <1>2, <1>3 DEF AloneContents, WholeChunks, Holds, DataArmed

LEMMA TaskWriteDoneAloneContents ==
  ASSUME TypeOK, Unwinding, AloneContents, TaskWriteDone, ~DataArmed' \/ UNCHANGED rx
  PROVE  AloneContents'
<1>1. /\ UNCHANGED <<hcmd, hsent, q, sIdx, buf>> /\ pc = "writing" /\ pc' = "wait"
      /\ blkLen' = Minus(blkLen, cnt)
  BY DEF TaskWriteDone, hostVars, pipeVars
<1>2. StoringAlone /\ cnt = Chunk(blkLen) /\ cnt <= blkLen
  BY <1>1, AloneFacts
<1>3. DataArmed' =>
        /\ rx'.size = Stream /\ rx'.got = 0
        /\ hsent' \in 1 .. hcmd'.n - 1 /\ WholeChunks(hsent')
  BY <1>1 DEF AloneContents, DataArmed, WholeChunks
<1>4. CASE ~StoringAlone'
  BY <1>3, <1>4 DEF AloneContents, WholeChunks
<1>5. CASE StoringAlone'
  <2>1. q # <<>>
    BY <1>1, <1>5 DEF StoringAlone, QueuedWrite
  <2>2. cnt < blkLen /\ WholeChunks(Base) /\ Holds(sIdx, Base + cnt, Stream)
    BY <1>1, <1>2, <2>1 DEF StoringAlone, Holding, AloneContents
  <2>3. blkLen' = blkLen - cnt /\ cnt = Stream
    BY <1>1, <1>2, <2>2, StateFacts, ChunkFacts DEF Minus
  <2>4. Base \in Nat /\ Base' = Base + Stream /\ blkLen' \in Nat
    <3>1. /\ hcmd.n \in Nat /\ blkLen \in Nat /\ Stream \in Nat /\ cnt \in Nat
          /\ blkLen <= hcmd.n
      BY <1>2, StateFacts DEF StoringAlone
    <3> QED
      BY <1>1, <1>2, <2>3, <3>1 DEF Base
  <2>5. WholeChunks(Base')
    BY <2>2, <2>4, ChunksFacts
  <2>6. Holds(sIdx, Base, Chunk(blkLen))'
    <3>1. Chunk(blkLen') \in 0 .. Stream
      BY <2>4, ChunkFacts
    <3>2. \A j \in 0 .. Chunk(blkLen') - 1 : j \in 0 .. Stream - 1
      BY <3>1, SizesAssumption
    <3> QED
      BY <1>1, <2>2, <2>3, <2>4, <3>2 DEF Holds
  <2> QED
    BY <1>1, <1>3, <2>5, <2>6 DEF AloneContents, WholeChunks
<1> QED
  BY <1>4, <1>5

(* The task alone, action by action.                                       *)
LEMMA AloneStep ==
  ASSUME TypeOK, Unwinding, AloneContents, ContainedFaults, [Next]_vars, ~HostConfigure
  PROVE  AloneContents'
<1>0. Unwinding' /\ TypeOK'
  BY UnwindStep, TypeStep
<1>1. ~HostIssue /\ ~Wire /\ ~HostReset /\ ~BusReset
  BY DEF Unwinding, HostIssue, Wire, OutCbw, OutBlock, InData, InCsw, HostReset, BusReset
<1>2. CASE TaskRecv
  BY <1>2, TaskRecvAloneContents
<1>3. CASE TaskWriteArm \/ TaskWriteBlock
  BY <1>3, TaskWriteArmAloneContents, TaskWriteBlockAloneContents
<1>4. CASE TaskWriteFail
  <2>1. pc = "writing" /\ cnt = blkLen
    <3>1. ~(addr + done >= NumBlocks)
      BY <1>4, AloneFacts, StateFacts, SizesAssumption DEF TaskWriteFail
    <3> QED
      BY <1>4, <3>1 DEF ContainedFaults, TaskWriteFail
  <2>2. q' = <<>> /\ pc' = "wait" /\ rx' = ArmCbw
    BY <1>4, <2>1, AloneFacts DEF TaskWriteFail, Refuse, SendCSW, pipeVars, Holding
  <2>3. ~StoringAlone' /\ ~DataArmed'
    BY <2>2 DEF StoringAlone, QueuedWrite, DataArmed, ArmCbw, Arm
  <2> QED
    BY <2>3, NothingStoredAlone
<1>5. CASE TaskWriteDone
  <2>1. rx' = ArmCbw \/ UNCHANGED rx
    BY <1>5 DEF TaskWriteDone, SendCSW, epVars
  <2>2. ~DataArmed' \/ UNCHANGED rx
    BY <2>1 DEF DataArmed, ArmCbw, Arm
  <2> QED
    BY <1>5, <2>2, TaskWriteDoneAloneContents
<1>6. CASE TaskReadTake \/ TaskReadBlock \/ TaskReadFail \/ TaskReadDone \/ TaskSend \/ TaskSent
  <2>1. /\ pc \in {"readTake", "reading", "prefetch", "send", "sent"} /\ hcmd' = hcmd
    BY <1>6 DEF TaskReadTake, TaskReadBlock, TaskReadFail, TaskReadDone, TaskSend, TaskSent,
                hostVars
  <2>2. hcmd'.op = "read"
    BY <2>1, AloneFacts
  <2>3. ~StoringAlone' /\ ~DataArmed'
    BY <1>0, <2>2 DEF StoringAlone, Unwinding
  <2> QED
    BY <2>3, NothingStoredAlone
<1>7. CASE UNCHANGED vars
  <2>1. /\ UNCHANGED <<hphase, hcmd, hsent, blkAddr, blkLen, sIdx, q, pc, cur, cnt, addr>>
        /\ UNCHANGED <<done, rx, tx, buf>>
    BY <1>7 DEF vars, hostVars, hmscVars, pipeVars, taskVars, epVars
  <2>2. StoringAlone' = StoringAlone /\ DataArmed' = DataArmed /\ Base' = Base
    BY <2>1 DEF StoringAlone, QueuedWrite, Holding, DataArmed, Base
  <2> QED
    BY <2>1, <2>2 DEF AloneContents, WholeChunks, Holds
<1> QED
  BY <1>1, <1>2, <1>3, <1>4, <1>5, <1>6, <1>7 DEF Next, Task

LEMMA RightBlocksStep ==
  ASSUME TypeOK, RightBlocks, ContainedFaults, [Next]_vars
  PROVE  RightBlocks'
<1>1. CASE ShapeOK /\ Contents
  <2>1. CASE BusReset
    BY <1>1, <2>1, BusResetShape, BusResetContents DEF RightBlocks
  <2>2. CASE ~BusReset
    BY <1>1, <2>2, ShapeStep, ContentsStep DEF RightBlocks
  <2> QED
    BY <2>1, <2>2
<1>2. CASE Unwinding /\ AloneContents
  <2>1. CASE HostConfigure
    <3>1. ShapeOK' /\ hphase' = "idle"
      BY <1>2, <2>1, HostConfigureShape DEF HostConfigure
    <3> QED
      BY <3>1, Between DEF RightBlocks
  <2>2. CASE ~HostConfigure
    BY <1>2, <2>2, UnwindStep, AloneStep DEF RightBlocks
  <2> QED
    BY <2>1, <2>2
<1> QED
  BY <1>1, <1>2 DEF RightBlocks

LEMMA ContentsKept == ContainedFaults => (Spec => [](TypeOK /\ RightBlocks))
<1> SUFFICES ASSUME ContainedFaults
             PROVE  Spec => [](TypeOK /\ RightBlocks)
  OBVIOUS
<1>1. Init => TypeOK /\ RightBlocks
  BY TypeInit, ShapeInit, ContentsInit DEF RightBlocks
<1>2. TypeOK /\ RightBlocks /\ [Next]_vars => TypeOK' /\ RightBlocks'
  BY TypeStep, RightBlocksStep
<1> QED
  BY <1>1, <1>2, PTL DEF Spec

-----------------------------------------------------------------------------
(* What the contents entail                                                *)

LEMMA AnswersAreHonest == RightBlocks => ResidueHonest
<1> SUFFICES ASSUME RightBlocks, tx.kind = "csw", hphase # "off"
             PROVE  ResidueHonest
  BY DEF ResidueHonest
<1>1. ShapeOK /\ Contents
  BY DEF RightBlocks, Unwinding
<1>2. Answering
  BY <1>1 DEF ShapeOK, Resting, Storing, Fetching, OnWire, WireFree, NoTx
<1> QED
  BY <1>1, <1>2 DEF Contents, AnswerContents

(* While faults are contained no status lies about its residue: the host   *)
(* learns exactly what it has read, and of a WRITE no more than is stored. *)
THEOREM ResiduesHonest == ContainedFaults => (Spec => []ResidueHonest)
<1>1. RightBlocks => ResidueHonest
  BY AnswersAreHonest
<1> QED
  BY <1>1, ContentsKept, PTL

(* What a WRITE that is short of its last chunk has asked for.             *)
LEMMA ShortTail ==
  ASSUME TypeOK, NEW a \in Nat, NEW r \in 1 .. Stream - 1,
         hcmd.n = a + r, a > 0, WholeChunks(a)
  PROVE  hcmd.n > Stream /\ hcmd.n % Stream # 0
  BY OddTail

LEMMA HangIsOddTail == TypeOK /\ ShapeOK /\ Contents => OnlyOddTailsHang
<1> SUFFICES ASSUME TypeOK, ShapeOK, Contents, Quiet, hphase # "idle"
             PROVE  hcmd.op = "write" /\ hcmd.n > Stream /\ hcmd.n % Stream # 0
  BY DEF OnlyOddTailsHang
<1>1. pc = "wait" /\ q = <<>> /\ ~inStall /\ ~(rx.armed /\ hphase \in {"cbw", "dataout"})
  BY DEF Quiet, ShapeOK
<1>2. ~Resting /\ ~Answering
  BY <1>1 DEF Quiet, Resting, Answering, ArmCbw, Arm
<1>3. ~Fetching
  <2>1. SUFFICES ASSUME Fetching
                 PROVE  FALSE
    OBVIOUS
  <2>2. tx.kind = "data"
    <3>1. Len(q) # 1
      BY <1>1
    <3> QED
      BY <1>1, <2>1, <3>1, StateFacts DEF Fetching, OnWire
  <2> QED
    BY <1>1, <2>1, <2>2 DEF Quiet, Fetching
<1>4. Storing /\ Filling /\ WriteContents
  BY <1>1, <1>2, <1>3 DEF ShapeOK, Storing, QueuedWrite, Contents
<1>5. /\ hcmd.op = "write" /\ hsent = hcmd.n /\ hsent = hcmd.n - blkLen + rx.got
      /\ blkLen \in 1 .. hcmd.n /\ rx.dst # Cbw
  BY <1>1, <1>4, StateFacts DEF Storing, Filling, QueuedWrite, BufIds, Cbw
<1>6. rx.got = blkLen
  BY <1>5, StateFacts
<1>7. blkLen < rx.size /\ rx.size <= Stream
  BY <1>4, <1>5, <1>6, StateFacts, SizesAssumption DEF Filling, TypeOK, EndpointTypes, RxOK
<1>8. blkLen # hcmd.n
  <2>1. blkLen = hcmd.n => rx.size = Chunk(blkLen)
    BY <1>1, <1>4 DEF WriteContents, Filling
  <2>2. Chunk(blkLen) <= blkLen /\ Chunk(blkLen) \in Nat
    BY StateFacts, ChunkFacts
  <2> QED
    BY <1>7, <2>1, <2>2, StateFacts
<1>9. /\ Base \in Nat /\ Base > 0 /\ hcmd.n = Base + blkLen /\ WholeChunks(Base)
      /\ blkLen \in 1 .. Stream - 1
  <2>1. /\ hcmd.n \in Nat /\ blkLen \in 1 .. hcmd.n /\ Stream \in Nat
        /\ blkLen < Stream
    BY <1>5, <1>7, StateFacts
  <2> QED
    BY <1>4, <1>8, <2>1 DEF Base, WriteContents
<1> QED
  BY <1>5, <1>9, ShortTail

(* While faults are contained a transfer that stands still for good is a   *)
(* WRITE of several chunks whose last is an odd one; nothing else hangs.   *)
THEOREM HangsAreOddTails == ContainedFaults => (Spec => []OnlyOddTailsHang)
<1>1. TypeOK /\ RightBlocks => OnlyOddTailsHang
  BY HangIsOddTail DEF RightBlocks, Unwinding, OnlyOddTailsHang
<1> QED
  BY <1>1, ContentsKept, PTL

(* A host whose WRITEs of several chunks end in a whole one.               *)
EvenTails == \A c \in Commands : c.op = "write" => c.n <= Stream \/ c.n % Stream = 0

LEMMA ArmedIsRight ==
  ASSUME TypeOK, ShapeOK, Contents, EvenTails
  PROVE  ArmedForWhatComes
<1> SUFFICES ASSUME rx.armed, rx.dst # Cbw
             PROVE  rx.size - rx.got <= hcmd.n - hsent
  BY DEF ArmedForWhatComes
<1>1. Storing /\ Filling /\ WriteContents
  BY DEF ShapeOK, Resting, Answering, Fetching, Storing, QueuedWrite, Holding, ArmCbw,
         Arm, Contents
<1>2. /\ hcmd.n \in Nat /\ blkLen \in 1 .. hcmd.n /\ cnt \in Nat /\ rx.got \in Nat
      /\ rx.size \in Nat /\ Stream \in Nat /\ hsent \in Nat
      /\ hcmd.n <= Stream \/ hcmd.n % Stream = 0
      /\ Base \in Nat /\ hcmd.n = Base + blkLen /\ WholeChunks(Base)
  <2>1. /\ hcmd.n \in Nat /\ blkLen \in 1 .. hcmd.n /\ cnt \in Nat /\ rx.got \in Nat
        /\ rx.size \in Nat /\ Stream \in Nat /\ hsent \in Nat
    BY <1>1, StateFacts DEF Storing
  <2>2. hcmd.n <= Stream \/ hcmd.n % Stream = 0
    BY <1>1, StateFacts DEF Storing, EvenTails
  <2>3. WholeChunks(Base)
    BY <1>1 DEF WriteContents
  <2> QED
    BY <2>1, <2>2, <2>3 DEF Base
<1>3. ASSUME NEW a \in Nat, a > 0, WholeChunks(a), NEW r \in Nat, r > 0, hcmd.n = a + r
      PROVE  r >= Stream
  BY <1>2, <1>3, ShortTail
<1>4. CASE pc = "wait"
  <2>1. hsent = hcmd.n - blkLen + rx.got
    BY <1>1, <1>4 DEF Storing, Filling, QueuedWrite
  <2>2. blkLen = hcmd.n => rx.size = Chunk(blkLen)
    BY <1>1, <1>4 DEF WriteContents
  <2>3. rx.size <= Stream /\ Chunk(blkLen) <= blkLen
    BY <1>2, StateFacts, ChunkFacts, SizesAssumption DEF TypeOK, EndpointTypes, RxOK
  <2>4. rx.size <= blkLen
    <3>1. CASE blkLen = hcmd.n
      BY <2>2, <2>3, <3>1
    <3>2. CASE blkLen # hcmd.n
      BY <1>2, <1>3, <2>3, <3>2
    <3> QED
      BY <3>1, <3>2
  <2> QED
    BY <1>2, <2>1, <2>4
<1>5. CASE pc = "writing"
  <2>1. /\ hsent = hcmd.n - blkLen + cnt + rx.got /\ cnt < blkLen /\ rx.size = Stream
        /\ cnt = Chunk(blkLen)
    BY <1>1, <1>5 DEF Storing, Filling, QueuedWrite, Holding
  <2>2. cnt = Stream
    BY <1>2, <2>1, ChunkFacts
  <2>3. WholeChunks(Base + Stream) /\ Base + Stream > 0
    BY <1>2, ChunksFacts, SizesAssumption
  <2>4. blkLen - Stream >= Stream
    <3>1. /\ blkLen - Stream \in Nat /\ blkLen - Stream > 0 /\ Base + Stream \in Nat
          /\ hcmd.n = (Base + Stream) + (blkLen - Stream)
      BY <1>2, <2>1, <2>2
    <3> QED
      BY <1>3, <2>3, <3>1
  <2> QED
    BY <1>2, <2>1, <2>2, <2>4
<1> QED
  BY <1>1, <1>4, <1>5 DEF Storing, Filling, Holding

(* What the task arms after a bus reset, nobody fills.                     *)
LEMMA ArmedAloneIsRight ==
  ASSUME TypeOK, Unwinding, AloneContents, EvenTails
  PROVE  ArmedForWhatComes
<1> SUFFICES ASSUME DataArmed
             PROVE  rx.size - rx.got <= hcmd.n - hsent
  BY DEF ArmedForWhatComes, DataArmed
<1>1. /\ rx.size = Stream /\ rx.got = 0 /\ hsent \in 1 .. hcmd.n - 1 /\ WholeChunks(hsent)
      /\ hcmd.op = "write"
  BY DEF AloneContents, Unwinding
<1>2. /\ hcmd.n \in Nat /\ hsent \in Nat /\ hsent > 0 /\ Stream \in Nat
      /\ hcmd.n <= Stream \/ hcmd.n % Stream = 0
  BY <1>1, StateFacts DEF EvenTails
<1>3. hcmd.n - hsent \in Nat /\ hcmd.n - hsent > 0 /\ hcmd.n = hsent + (hcmd.n - hsent)
  BY <1>1, <1>2
<1>4. \A r \in 1 .. Stream - 1 : hcmd.n # hsent + r
  <2>1. ASSUME NEW r \in 1 .. Stream - 1, hcmd.n = hsent + r
        PROVE  FALSE
    BY <1>1, <1>2, <2>1, ShortTail
  <2> QED
    BY <2>1
<1> QED
  BY <1>1, <1>2, <1>3, <1>4

(* While faults are contained, and with a host that keeps to even tails,   *)
(* no buffer is armed for more blocks than will come.                      *)
THEOREM ArmedRight ==
  ContainedFaults /\ EvenTails => (Spec => []ArmedForWhatComes)
<1> SUFFICES ASSUME ContainedFaults, EvenTails
             PROVE  Spec => []ArmedForWhatComes
  OBVIOUS
<1>1. TypeOK /\ RightBlocks => ArmedForWhatComes
  BY ArmedIsRight, ArmedAloneIsRight DEF RightBlocks
<1> QED
  BY <1>1, ContentsKept, PTL

-----------------------------------------------------------------------------
(* The pipeline is a block device                                          *)

Silent == UNCHANGED <<card, hcmd, hrecv, hphase, hcsw>>

LEMMA SilentIsStutter == Silent => UNCHANGED BD!vars
  BY DEF Silent, BD!vars

(* The CBW, the blocks of a WRITE and a bus reset change nothing the       *)
(* device shows.                                                           *)
LEMMA OutIsStutter ==
  ASSUME OutCbw \/ OutBlock \/ BusReset
  PROVE  UNCHANGED BD!vars
<1>1. UNCHANGED <<card, hcmd, hrecv, hcsw>> /\ hphase # "idle" /\ hphase' # "idle"
  BY DEF OutCbw, OutBlock, BusReset
<1> QED
  BY <1>1 DEF BD!vars

LEMMA IssueStep ==
  ASSUME TypeOK, HostIssue
  PROVE  BD!Issue
<1>1. hcsw # "busy"
  BY DEF TypeOK, HostTypes
<1> QED
  BY <1>1 DEF HostIssue, BD!Issue

LEMMA DeliverStep ==
  ASSUME TypeOK, ShapeOK, Contents, InData
  PROVE  BD!Deliver
<1>1. /\ Fetching /\ OnItsWay /\ InBlock /\ tx.sent \in Nat /\ tx.sent < tx.size
      /\ hphase = "datain" /\ tx.kind = "data"
      /\ UNCHANGED <<hcmd, hcsw, card>>
  BY OnTheWire
<1>2. /\ hrecv' = Append(hrecv, buf[tx.buf][tx.sent])
      /\ hphase' # "idle"
  BY <1>1 DEF InBlock
<1>3. Len(hrecv) < hcmd.n
  <2>1. \/ OnWire(blkLen) /\ tx.size = cnt /\ cnt = Chunk(blkLen)
        \/ OnWire(blkLen + tx.size)
        \/ OnWire(tx.size)
    <3>1. tx # NoTx
      BY <1>1 DEF NoTx
    <3> QED
      BY <1>1, <3>1 DEF Fetching, WireFree
  <2>2. /\ hcmd.n \in Nat /\ blkLen \in Nat /\ tx.size \in Nat /\ Len(hrecv) \in Nat
        /\ Chunk(blkLen) <= blkLen /\ Chunk(blkLen) \in Nat
    BY StateFacts, ChunkFacts
  <2>3. \A n, l, z, m \in Nat :
          m < z => n - (l + z) + m < n /\ n - z + m < n /\ (z <= l => n - l + m < n)
    OBVIOUS
  <2> QED
    BY <1>1, <2>1, <2>2, <2>3 DEF OnWire
<1>4. buf[tx.buf][tx.sent] = card[hcmd.lba + Len(hrecv)]
  <2>1. /\ tx.sent \in tx.sent .. tx.size - 1
        /\ hcmd.lba + Len(hrecv) + tx.sent - tx.sent = hcmd.lba + Len(hrecv)
    <3>1. tx.size \in Nat /\ hcmd.lba \in Nat /\ Len(hrecv) \in Nat
      BY StateFacts
    <3>2. \A a, r, m \in Nat : a + r + m - m = a + r
      OBVIOUS
    <3> QED
      BY <1>1, <3>1, <3>2
  <2> QED
    BY <1>1, <2>1 DEF OnItsWay
<1> QED
  BY <1>1, <1>2, <1>3, <1>4 DEF BD!Deliver, Fetching

LEMMA StoreStep ==
  ASSUME TypeOK, RightBlocks, TaskWriteBlock
  PROVE  BD!Store
<1>1. /\ Base \in Nat /\ Base + done + 1 \in 1 .. hcmd.n
      /\ card' = [card EXCEPT ![hcmd.lba + Base + done] = hcmd.data[Base + done + 1]]
      /\ hphase # "idle" /\ hcmd.op = "write"
  <2>1. CASE ShapeOK /\ Contents
    BY <2>1, BlockStored DEF Storing
  <2>2. CASE Unwinding /\ AloneContents
    <3>1. /\ pc = "writing" /\ StoringAlone /\ cnt <= blkLen /\ addr = blkAddr
          /\ hcmd.op = "write" /\ hphase = "off"
      BY <2>2, AloneFacts DEF TaskWriteBlock
    <3>2. /\ blkLen <= hcmd.n /\ blkAddr + blkLen = hcmd.lba + hcmd.n
          /\ Holds(cur, Base, cnt)
      BY <2>2, <3>1, StateFacts DEF StoringAlone, AloneContents
    <3> QED
      BY <3>1, <3>2, OwnAddress
  <2> QED
    BY <2>1, <2>2 DEF RightBlocks
<1>2. UNCHANGED <<hphase, hcmd, hrecv, hcsw>>
  BY DEF TaskWriteBlock, hostVars
<1>3. hcmd.lba + (Base + done + 1) - 1 = hcmd.lba + Base + done
  <2>1. hcmd.lba \in Nat /\ done \in Nat
    BY StateFacts
  <2>2. \A a, b, d \in Nat : a + (b + d + 1) - 1 = a + b + d
    OBVIOUS
  <2> QED
    BY <1>1, <2>1, <2>2
<1>4. \E i \in 1 .. hcmd.n : card' = [card EXCEPT ![hcmd.lba + i - 1] = hcmd.data[i]]
  BY <1>1, <1>3
<1> QED
  BY <1>1, <1>2, <1>4 DEF BD!Store

LEMMA AnswerStep ==
  ASSUME TypeOK, ShapeOK, Contents, InCsw
  PROVE  BD!Answer
<1>1. Answering /\ tx.tag = htag /\ AnswerContents
  <2>1. Answering
    BY StateFacts DEF ShapeOK, Resting, Storing, Fetching, OnWire, WireFree, InCsw, NoTx
  <2> QED
    BY <2>1, InCswShape DEF Contents
<1>2. /\ hphase \notin {"idle", "off"} /\ hphase' = "idle" /\ hcsw' = tx.status
      /\ UNCHANGED <<card, hcmd, hrecv>> /\ tx.kind = "csw"
  BY <1>1 DEF InCsw, Answering
<1>3. CASE tx.status = "failed"
  BY <1>2, <1>3 DEF BD!Answer
<1>4. CASE tx.status = "passed"
  <2>1. /\ hcmd.op = "read" => 0 = hcmd.n - Len(hrecv)
        /\ hcmd.op = "write" =>
             \A i \in 1 .. hcmd.n - 0 : card[hcmd.lba + i - 1] = hcmd.data[i]
        /\ hcmd.op = "test" => hrecv = <<>> /\ hcmd.n = 0
    <3>1. tx.residue = 0
      BY <1>1, <1>2, <1>4 DEF AnswerContents, ResidueHonest
    <3> QED
      BY <1>1, <1>2, <3>1, StateFacts, CommandFacts DEF AnswerContents, ResidueHonest
  <2>2. hcmd.n \in Nat /\ Len(hrecv) \in Nat /\ hcmd.op \in {"read", "write", "test"}
    BY StateFacts
  <2>3. hcmd.op # "write" => Len(hrecv) = hcmd.n
    BY <2>1, <2>2
  <2>4. BD!Done
    BY <2>1, <2>2, <2>3 DEF BD!Done
  <2> QED
    BY <1>2, <1>4, <2>4 DEF BD!Answer
<1> QED
  BY <1>1, <1>3, <1>4 DEF AnswerContents

LEMMA ResetStep == HostReset \/ HostConfigure => BD!Answer
  BY DEF HostReset, HostConfigure, BD!Answer

LEMMA OtherTaskSteps ==
  ASSUME Task, ~TaskWriteBlock
  PROVE  UNCHANGED BD!vars
<1>1. Silent
  BY DEF Silent, Task, TaskRecv, TaskWriteArm, TaskWriteFail, TaskWriteDone, TaskReadTake,
         TaskReadBlock, TaskReadFail, TaskReadDone, TaskSend, TaskSent, hostVars
<1> QED
  BY <1>1, SilentIsStutter

(* Data and status pass only between a configured device and its host.     *)
LEMMA PipelineStep ==
  ASSUME TypeOK, RightBlocks, ContainedFaults, [Next]_vars
  PROVE  [BD!Next]_BD!vars
<1>1. CASE HostIssue
  BY <1>1, IssueStep DEF BD!Next
<1>2. CASE OutCbw \/ OutBlock \/ BusReset
  BY <1>2, OutIsStutter
<1>3. CASE InData \/ InCsw
  <2>1. ShapeOK /\ Contents
    BY <1>3 DEF RightBlocks, Unwinding, InData, InCsw
  <2> QED
    BY <1>3, <2>1, DeliverStep, AnswerStep DEF BD!Next
<1>4. CASE TaskWriteBlock
  BY <1>4, StoreStep DEF BD!Next
<1>5. CASE Task /\ ~TaskWriteBlock
  BY <1>5, OtherTaskSteps
<1>6. CASE HostReset \/ HostConfigure
  BY <1>6, ResetStep DEF BD!Next
<1>7. CASE UNCHANGED vars
  <2>1. Silent
    BY <1>7 DEF Silent, vars, hostVars
  <2> QED
    BY <2>1, SilentIsStutter
<1> QED
  BY <1>1, <1>2, <1>3, <1>4, <1>5, <1>6, <1>7 DEF Next, Wire

(* While faults are contained the endpoints, the buffers, the queue and    *)
(* the task are, to the host, a block device.                              *)
THEOREM PipelineRefinesBlockDevice == ContainedFaults => (Spec => ImplementsBlockDevice)
<1> SUFFICES ASSUME ContainedFaults
             PROVE  Spec => ImplementsBlockDevice
  OBVIOUS
<1>1. Init => BD!Init
  BY DEF Init, BD!Init, Blocks, BD!Blocks
<1>2. TypeOK /\ RightBlocks /\ [Next]_vars => [BD!Next]_BD!vars
  BY PipelineStep
<1> QED
  BY <1>1, <1>2, ContentsKept, PTL DEF Spec, ImplementsBlockDevice, BD!Spec
=============================================================================

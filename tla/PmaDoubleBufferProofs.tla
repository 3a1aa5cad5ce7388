----------------------- MODULE PmaDoubleBufferProofs -----------------------
(***************************************************************************)
(* Proofs about PmaDoubleBuffer, for every packet size and every set of    *)
(* transfer lengths.                                                       *)
(***************************************************************************)
EXTENDS PmaDoubleBuffer, TLAPS

(* Who holds a block of an IN transfer, while the bus is on: outside the   *)
(* handler the hardware is at work exactly when blocks are pushed, and     *)
(* data is left to fill only when both of them are.                        *)
InHeld ==
  /\ pc \notin {"inFlip", "inFill"} =>
       /\ txPushed # 0 <=> Released("in") \/ ctr["in"]
       /\ txRemain # 0 => txPushed = 2
  /\ pc = "inFlip" =>
       /\ ~Released("in") /\ ~ctr["in"] /\ idx = UsedBlock("in")
       /\ txRemain # 0 => txPushed = 1
  /\ pc = "inFill" =>
       /\ Released("in") \/ ctr["in"]
       /\ Released("in") => idx = S["in"]
       /\ txPushed = 1

(* Who holds a block of an OUT transfer: a released one belongs to a       *)
(* prepared buffer, and none is released once the transfer is over.        *)
OutHeld ==
  /\ pc = "outFlip" => ~Released("out") /\ ~ctr["out"] /\ idx = UsedBlock("out") /\ rxOn
  /\ pc = "outCopy" /\ (Released("out") \/ ctr["out"]) => idx = S["out"] /\ ~last
  /\ pc = "outDone" => ~Released("out") /\ ~ctr["out"]
  /\ Released("out") \/ ctr["out"] => rxOn
  /\ ctr["out"] \/ pc \in {"outFlip", "outCopy", "outDone"} => hBusy /\ hOff > 0

(* The bytes on their way from packet memory to the buffer.                *)
InCopy == IF pc \in {"outFlip", "outCopy"} THEN cnt ELSE 0
Waiting == IF ctr["out"] THEN pma["out"][UsedBlock("out")].len ELSE 0
Taken == rxCount + InCopy + Waiting

(* The buffer has room for all that the host still has to send, before     *)
(* which it is empty.                                                      *)
OutRoom ==
  /\ Taken <= rxSize
  /\ hBusy /\ (Released("out") \/ hOff > 0) => hLen <= rxSize /\ Taken <= hOff
  /\ Released("out") /\ ~hBusy => Taken = 0
  /\ hOff <= hLen
NoneEmpty ==
  /\ pc \in {"outFlip", "outCopy"} => cnt > 0
  /\ ctr["out"] => Waiting > 0

(* When the bus is off, the host has no transfer and starts from DATA0,    *)
(* and once the reset has been served no packet is left to serve.          *)
OffBus ==
  /\ \A d \in Dirs : tog[d] = 0
  /\ ~hBusy /\ hOff = 0 /\ hLen = 0
  /\ usb = "default" => ~ctr["in"] /\ ~ctr["out"]

(* What holds inside the handlers even when the bus is reset meanwhile.    *)
InHandler ==
  /\ txPushed <= 2
  /\ pc = "inFlip" => ~ctr["in"]
  /\ pc \in {"inFlip", "inFill"} => txPushed <= 1
  /\ pc = "inFill" => txRemain # 0
  /\ pc = "inDone" => txPushed = 0 /\ txRemain = 0
OutHandler == pc = "outFlip" => ~ctr["out"]

InSide == InHandler /\ (usb = "on" => InHeld)
OutSide == OutHandler /\ (usb = "on" => OutRoom /\ NoneEmpty /\ OutHeld)
PhaseInv == RuleTwo /\ InSide /\ OutSide /\ (usb # "on" => OffBus)

(* Nothing is left of a transfer that was not abandoned.                   *)
NothingLeft == ~txBusy => txPushed = 0 /\ txRemain = 0

LEMMA PacketFacts ==
  ASSUME NEW no \in Blocks, NEW off \in Nat, NEW n \in Nat
  PROVE  /\ Packet(no, off, n) \in Packet0
         /\ Packet(no, off, n).len <= n
         /\ n > 0 => Packet(no, off, n).len > 0
  BY LengthsAssumption DEF Packet, Packet0, Least

(* A packet written into a block.                                          *)
LEMMA WrittenPma ==
  ASSUME pma \in [Dirs -> [Blocks -> Packet0]], NEW d \in Dirs, NEW b \in Blocks,
         NEW p \in Packet0
  PROVE  [pma EXCEPT ![d][b] = p] \in [Dirs -> [Blocks -> Packet0]]
<1>1. pma[d] \in [Blocks -> Packet0]
  OBVIOUS
<1>2. [pma[d] EXCEPT ![b] = p] \in [Blocks -> Packet0]
  BY <1>1
<1>3. [pma EXCEPT ![d] = [pma[d] EXCEPT ![b] = p]] \in [Dirs -> [Blocks -> Packet0]]
  BY <1>2
<1> QED
  BY <1>3

LEMMA FlipFacts ==
  ASSUME NEW s \in [Dirs -> Blocks], NEW d \in Dirs
  PROVE  /\ Flipped(s, d) \in [Dirs -> Blocks]
         /\ Flipped(s, d)[d] = 1 - s[d]
         /\ \A e \in Dirs \ {d} : Flipped(s, d)[e] = s[e]
  BY DEF Flipped, Blocks

-----------------------------------------------------------------------------
(* Type correctness, one lemma per action that changes more than a flag    *)

LEMMA TransmitTypes ==
  ASSUME TypeOK, NEW n \in InLens, Transmit(n)
  PROVE  TypeOK'
<1> USE DEF TypeOK
<1>1. RxTypes' /\ CpuTypes' /\ HostTypes' /\ UNCHANGED <<usb, rxCount, rxSize>>
  BY DEF Transmit, rxVars, cpuVars, hostVars, RxTypes, CpuTypes, HostTypes
<1>2. CASE UnderWay
  <2>1. n \in Nat
    BY LengthsAssumption
  <2>2. RegTypes' /\ TxTypes'
    BY <1>2, <2>1 DEF Transmit, RegTypes, TxTypes
  <2> QED
    BY <1>1, <1>2, <2>2 DEF Transmit
<1>3. CASE ~UnderWay
  <2> DEFINE first == IF PhaseOff THEN 0 ELSE S["in"]
  <2>1. n \in Nat /\ first \in Blocks /\ 1 - first \in Blocks /\ 1 - txNo \in Blocks
    BY LengthsAssumption DEF RegTypes, TxTypes, Blocks, Dirs
  <2>2. /\ Packet(1 - txNo, 0, n) \in Packet0
        /\ n > MaxPacket => Packet(1 - txNo, MaxPacket, n - MaxPacket) \in Packet0
    BY <2>1, PacketFacts, LengthsAssumption
  <2>3. Least(n, 2 * MaxPacket) \in Nat /\ n - Least(n, 2 * MaxPacket) \in Nat
    BY <2>1, LengthsAssumption DEF Least
  <2>4. TxTypes'
    BY <1>3, <2>1, <2>3 DEF Transmit, TxTypes
  <2>5. pma' \in [Dirs -> [Blocks -> Packet0]]
    BY <1>3, <2>1, <2>2 DEF Transmit, RegTypes, Dirs
  <2>6. RegTypes'
    BY <1>3, <2>1, <2>5 DEF Transmit, RegTypes, Dirs
  <2> QED
    BY <1>1, <1>3, <2>4, <2>6 DEF Transmit
<1> QED
  BY <1>2, <1>3

LEMMA EmptyPacket == Empty \in Packet0
  BY LengthsAssumption DEF Packet0, Empty, Blocks

LEMMA NoCountsTypes ==
  ASSUME pma \in [Dirs -> [Blocks -> Packet0]]
  PROVE  NoCounts \in [Dirs -> [Blocks -> Packet0]]
  BY EmptyPacket DEF NoCounts

LEMMA PrepareReceiveTypes ==
  ASSUME TypeOK, NEW m \in OutLens, PrepareReceive(m)
  PROVE  TypeOK'
<1> USE DEF TypeOK
<1>1. S' \in [Dirs -> Blocks]
  BY FlipFacts DEF PrepareReceive, RxArm, RegTypes, Dirs
<1>2. RegTypes'
  <2>1. pma' \in [Dirs -> [Blocks -> Packet0]]
    BY NoCountsTypes DEF PrepareReceive, RegTypes
  <2> QED
    BY <1>1, <2>1 DEF PrepareReceive, RegTypes
<1>3. RxTypes' /\ rxCount' <= rxSize'
  BY LengthsAssumption DEF PrepareReceive, RxTypes
<1> QED
  BY <1>2, <1>3
     DEF PrepareReceive, TxTypes, CpuTypes, HostTypes, txVars, cpuVars, hostVars

LEMMA ProgressTypes ==
  ASSUME TxTypes, RxTypes, ResetProgress, txNo' = txNo, txBusy' = FALSE, rxLast' = rxLast
  PROVE  TxTypes' /\ RxTypes' /\ rxCount' <= rxSize'
<1>1. txBusy' \in BOOLEAN
  OBVIOUS
<1>2. TxTypes'
  BY <1>1 DEF ResetProgress, TxTypes
<1>3. rxOn' = FALSE
  BY DEF ResetProgress
<1>4. rxOn' \in BOOLEAN
  BY <1>3
<1>5. rxSize' = 0 /\ rxCount' = 0 /\ rxLast' \in Packet0
  BY DEF ResetProgress, RxTypes
<1> QED
  BY <1>2, <1>4, <1>5 DEF RxTypes

LEMMA ResetTypes ==
  ASSUME TypeOK, OpenEp \/ ResetIrq \/ BusReset
  PROVE  TypeOK'
<1> USE DEF TypeOK
<1>1. CASE OpenEp
  <2>1. RegTypes'
    BY <1>1 DEF OpenEp, ForceInit, RegTypes, Blocks
  <2>2. ResetProgress /\ txNo' = txNo /\ txBusy' = FALSE /\ rxLast' = rxLast
    BY <1>1 DEF OpenEp
  <2>3. CpuTypes' /\ HostTypes' /\ anom' \in BOOLEAN
    BY <1>1 DEF OpenEp, CpuTypes, HostTypes, cpuVars, hostVars
  <2> QED
    BY <2>1, <2>2, <2>3, ProgressTypes
<1>2. CASE ResetIrq
  <2>1. RegTypes'
    BY <1>2 DEF ResetIrq, RegTypes
  <2>2. ResetProgress /\ txNo' = txNo /\ txBusy' = FALSE /\ rxLast' = rxLast
    BY <1>2 DEF ResetIrq
  <2>3. CpuTypes' /\ HostTypes' /\ anom' \in BOOLEAN
    BY <1>2 DEF ResetIrq, CpuTypes, HostTypes, cpuVars, hostVars
  <2> QED
    BY <2>1, <2>2, <2>3, ProgressTypes
<1>3. CASE BusReset
  <2>1. RegTypes'
    <3>1. /\ H' = [d \in Dirs |-> 0] /\ S' = [d \in Dirs |-> 0]
          /\ stat' = [d \in Dirs |-> "dis"]
          /\ ctr' = ctr /\ pma' = pma /\ xferLen' = xferLen /\ usb' = "hwreset"
      BY <1>3 DEF BusReset
    <3> QED
      BY <3>1 DEF RegTypes, Blocks
  <2>2. HostTypes'
    <3>1. /\ tog' = [d \in Dirs |-> 0] /\ inLast' = inLast /\ hNo' = hNo
          /\ hLen' = 0 /\ hOff' = 0 /\ hBusy' = FALSE
      BY <1>3 DEF BusReset
    <3>2. hBusy' \in BOOLEAN
      BY <3>1
    <3> QED
      BY <3>1, <3>2 DEF HostTypes, Blocks
  <2> QED
    BY <1>3, <2>1, <2>2 DEF BusReset, TxTypes, RxTypes, CpuTypes, txVars, rxVars, cpuVars
<1> QED
  BY <1>1, <1>2, <1>3

LEMMA UsedBlockType == RegTypes => \A d \in Dirs : UsedBlock(d) \in Blocks
  BY DEF RegTypes, UsedBlock, Blocks

LEMMA ReturnTypes == Return => CpuTypes'
<1> SUFFICES ASSUME Return
             PROVE  CpuTypes'
  OBVIOUS
<1>1. pc' = "idle" /\ idx' \in Blocks /\ cnt' \in Nat
  BY DEF Return, Blocks
<1>2. last' = FALSE
  BY DEF Return
<1>3. last' \in BOOLEAN
  BY <1>2
<1> QED
  BY <1>1, <1>3 DEF CpuTypes

LEMMA InHandlerTypes ==
  ASSUME TypeOK, InHandler, IrqIn \/ InFlip \/ InFill \/ InDone
  PROVE  TypeOK'
<1> USE DEF TypeOK
<1>1. CASE IrqIn
  <2>1. UsedBlock("in") \in Blocks
    BY UsedBlockType DEF Dirs
  <2>2. CpuTypes' /\ TxTypes' /\ anom' \in BOOLEAN
    <3>1. CASE txPushed = 0
      BY <1>1, <3>1 DEF IrqIn, CpuTypes, TxTypes
    <3>2. CASE txPushed # 0
      <4>1. /\ idx' = UsedBlock("in") /\ txPushed' = txPushed - 1 /\ pc' = "inFlip"
            /\ UNCHANGED <<anom, cnt, last, txOff, txRemain, txNo, txBusy>>
        BY <1>1, <3>2 DEF IrqIn
      <4>2. txPushed' \in 0 .. 2
        BY <3>2, <4>1 DEF TxTypes
      <4> QED
        BY <2>1, <4>1, <4>2 DEF CpuTypes, TxTypes
    <3> QED
      BY <3>1, <3>2
  <2>3. RegTypes'
    BY <1>1 DEF IrqIn, RegTypes
  <2> QED
    BY <1>1, <2>2, <2>3 DEF IrqIn, RxTypes, HostTypes, rxVars, hostVars
<1>2. CASE InFlip
  <2>1. RegTypes'
    BY <1>2, FlipFacts DEF InFlip, RegTypes, Dirs
  <2>2. CpuTypes'
    <3>1. CASE Return
      BY <3>1, ReturnTypes
    <3>2. CASE pc' \in {"inFill", "inDone"} /\ UNCHANGED <<idx, cnt, last>>
      BY <3>2 DEF CpuTypes
    <3> QED
      BY <1>2, <3>1, <3>2 DEF InFlip
  <2> QED
    BY <1>2, <2>1, <2>2 DEF InFlip, TxTypes, RxTypes, HostTypes, txVars, rxVars, hostVars
<1>3. CASE InFill
  <2> DEFINE p == Packet(txNo, txOff, txRemain)
  <2>1. p \in Packet0 /\ p.len \in Nat /\ p.len <= txRemain
    BY PacketFacts, LengthsAssumption DEF TxTypes, Packet0
  <2>2. pma' = [pma EXCEPT !["in"][idx] = p] /\ txOff' = txOff + p.len /\ txRemain' = txRemain - p.len
    BY <1>3 DEF InFill
  <2> HIDE DEF p
  <2>3. RegTypes'
    <3>1. pma' \in [Dirs -> [Blocks -> Packet0]]
      BY <2>1, <2>2, WrittenPma DEF RegTypes, CpuTypes, Dirs
    <3> QED
      BY <1>3, <3>1 DEF InFill, RegTypes
  <2>4. TxTypes'
    BY <1>3, <2>1, <2>2 DEF InFill, TxTypes, InHandler
  <2> QED
    BY <1>3, <2>3, <2>4 DEF InFill, Return, Blocks, CpuTypes, RxTypes, HostTypes, rxVars, hostVars
<1>4. CASE InDone
  BY <1>4 DEF InDone, Return, Blocks, RegTypes, TxTypes, CpuTypes, RxTypes, HostTypes,
              regVars, rxVars, hostVars
<1> QED
  BY <1>1, <1>2, <1>3, <1>4

LEMMA OutHandlerTypes ==
  ASSUME TypeOK, usb = "on" => OutRoom, IrqOut \/ OutFlip \/ OutCopy \/ OutDone
  PROVE  TypeOK'
<1> USE DEF TypeOK
<1>1. CASE IrqOut
  <2>1. UsedBlock("out") \in Blocks
    BY UsedBlockType DEF Dirs
  <2>2. pma["out"][UsedBlock("out")].len \in Nat
    BY <2>1 DEF RegTypes, Packet0, Dirs
  <2>3. \A n : Done(n) \in BOOLEAN
    BY DEF Done
  <2>4. CpuTypes' /\ anom' \in BOOLEAN
    <3>1. CASE ~rxOn
      BY <1>1, <3>1 DEF IrqOut, CpuTypes
    <3>2. CASE rxOn
      <4> DEFINE n == pma["out"][UsedBlock("out")].len
      <4>1. /\ idx' = UsedBlock("out") /\ cnt' = n /\ last' = Done(n) /\ pc' = "outFlip"
            /\ anom' = anom
        BY <1>1, <3>2 DEF IrqOut
      <4> HIDE DEF n
      <4>2. last' \in BOOLEAN
        BY <2>3, <4>1
      <4>3. idx' \in Blocks /\ cnt' \in Nat
        BY <2>1, <2>2, <4>1 DEF n
      <4>4. pc' \in {"idle", "inFlip", "inFill", "inDone", "outFlip", "outCopy", "outDone"}
        BY <4>1
      <4>5. CpuTypes'
        BY <4>2, <4>3, <4>4 DEF CpuTypes
      <4> QED
        BY <4>1, <4>5
    <3> QED
      BY <3>1, <3>2
  <2>5. RegTypes'
    <3>1. pma' \in [Dirs -> [Blocks -> Packet0]]
      BY <1>1, NoCountsTypes DEF IrqOut, RegTypes
    <3> QED
      BY <1>1, <3>1 DEF IrqOut, RegTypes
  <2> QED
    BY <1>1, <2>4, <2>5 DEF IrqOut, TxTypes, RxTypes, HostTypes, txVars, rxVars, hostVars
<1>2. CASE OutFlip
  <2>1. RegTypes'
    BY <1>2, FlipFacts DEF OutFlip, RegTypes, Dirs
  <2> QED
    BY <1>2, <2>1
       DEF OutFlip, CpuTypes, TxTypes, RxTypes, HostTypes, txVars, rxVars, hostVars
<1>3. CASE OutCopy
  <2>1. rxLast' \in Packet0
    BY <1>3 DEF OutCopy, RegTypes, CpuTypes, RxTypes, Dirs
  <2>2. usb = "on" => rxCount + cnt <= rxSize
    <3>1. usb = "on" => rxCount + cnt + Waiting <= rxSize
      BY <1>3 DEF OutRoom, Taken, InCopy, OutCopy
    <3>2. Waiting \in Nat
      BY UsedBlockType DEF Waiting, RegTypes, Packet0, Dirs
    <3> QED
      BY <3>1, <3>2 DEF RxTypes, CpuTypes
  <2>3. RxTypes' /\ (usb' = "on" => rxCount' <= rxSize')
    BY <1>3, <2>1, <2>2 DEF OutCopy, regVars, RxTypes, CpuTypes
  <2>4. CpuTypes'
    <3>1. CASE Return
      BY <3>1, ReturnTypes
    <3>2. CASE pc' = "outDone" /\ UNCHANGED <<idx, cnt, last>>
      BY <3>2 DEF CpuTypes
    <3> QED
      BY <1>3, <3>1, <3>2 DEF OutCopy
  <2>5. anom' \in BOOLEAN
    <3>1. \A a, b : (a \/ b) \in BOOLEAN
      OBVIOUS
    <3> QED
      BY <1>3, <3>1, Zenon DEF OutCopy
  <2> QED
    BY <1>3, <2>3, <2>4, <2>5 DEF OutCopy, RegTypes, TxTypes, HostTypes, regVars, txVars, hostVars
<1>4. CASE OutDone
  BY <1>4 DEF OutDone, Return, Blocks, RegTypes, TxTypes, CpuTypes, RxTypes, HostTypes,
              regVars, txVars, rxVars
<1> QED
  BY <1>1, <1>2, <1>3, <1>4

LEMMA HalInTypes ==
  ASSUME TypeOK, HalIn
  PROVE  TypeOK'
<1> USE DEF TypeOK
<1> DEFINE len == pma["in"][UsedBlock("in")].len
           left == xferLen - Least(xferLen, len)
<1>1. len \in Nat
  <2>1. pma["in"][UsedBlock("in")] \in Packet0
    BY UsedBlockType DEF RegTypes, Dirs
  <2> QED
    BY <2>1 DEF Packet0
<1>2. left \in Nat
  BY <1>1 DEF RegTypes, Least
<1>3. pma' \in [Dirs -> [Blocks -> Packet0]]
  <2>1. \A p \in Packet0 : [p EXCEPT !.len = 0] \in Packet0
    BY LengthsAssumption DEF Packet0
  <2>2. [b \in Blocks |-> [pma["in"][b] EXCEPT !.len = 0]] \in [Blocks -> Packet0]
    BY <2>1 DEF RegTypes, Dirs
  <2>3. \/ pma' = pma
        \/ pma' = [pma EXCEPT !["in"] = [b \in Blocks |-> [pma["in"][b] EXCEPT !.len = 0]]]
    BY DEF HalIn
  <2> QED
    BY <2>2, <2>3 DEF RegTypes, Dirs
<1>4. S' \in [Dirs -> Blocks]
  BY FlipFacts DEF HalIn, RegTypes, Dirs
<1>5. xferLen' = left
  BY DEF HalIn
<1>6. RegTypes'
  BY <1>2, <1>3, <1>4, <1>5 DEF HalIn, RegTypes
<1>7. txBusy' \in BOOLEAN
  <2>1. txBusy' = FALSE \/ txBusy' = txBusy
    BY DEF HalIn
  <2> QED
    BY <2>1 DEF TxTypes
<1> QED
  BY <1>6, <1>7 DEF HalIn, TxTypes, RxTypes, CpuTypes, HostTypes, rxVars, cpuVars, hostVars

LEMMA WireTypes ==
  ASSUME TypeOK, WireIn \/ WireOut \/ (\E n \in OutLens : HostSend(n))
  PROVE  TypeOK'
<1> USE DEF TypeOK
<1>1. CASE WireIn
  <2>1. tog' \in [Dirs -> Blocks] /\ H' \in [Dirs -> Blocks]
    BY <1>1, FlipFacts DEF WireIn, RegTypes, HostTypes, Dirs
  <2>2. inLast' \in Packet0
    BY <1>1 DEF WireIn, RegTypes, HostTypes, Dirs
  <2> QED
    BY <1>1, <2>1, <2>2 DEF WireIn, RegTypes, HostTypes, TxTypes, RxTypes, CpuTypes,
                            txVars, rxVars, cpuVars
<1>2. CASE WireOut
  <2> DEFINE p == Packet(hNo, hOff, hLen - hOff)
  <2>1. hLen - hOff \in Nat
    BY <1>2 DEF WireOut, HostTypes
  <2>2. p \in Packet0 /\ p.len \in Nat
    <3>1. hNo \in Blocks /\ hOff \in Nat
      BY DEF HostTypes
    <3>2. p \in Packet0
      BY <2>1, <3>1, PacketFacts
    <3> HIDE DEF p
    <3> QED
      BY <3>2 DEF Packet0
  <2>3. tog' \in [Dirs -> Blocks]
    BY <1>2, FlipFacts DEF WireOut, HostTypes, Dirs
  <2>4. /\ hOff' = hOff + p.len
        /\ \/ /\ pma' = [pma EXCEPT !["out"][H["out"]] = p] /\ H' = Flipped(H, "out")
              /\ ctr' = [ctr EXCEPT !["out"] = TRUE]
           \/ UNCHANGED <<pma, H, ctr>>
    BY <1>2 DEF WireOut
  <2> HIDE DEF p
  <2>5. H["out"] \in Blocks /\ "out" \in Dirs
    BY DEF RegTypes, Dirs
  <2>6. /\ [pma EXCEPT !["out"][H["out"]] = p] \in [Dirs -> [Blocks -> Packet0]]
        /\ Flipped(H, "out") \in [Dirs -> Blocks]
        /\ [ctr EXCEPT !["out"] = TRUE] \in [Dirs -> BOOLEAN]
    BY <2>2, <2>5, WrittenPma, FlipFacts DEF RegTypes
  <2>7. RegTypes'
    BY <1>2, <2>4, <2>6 DEF WireOut, RegTypes
  <2> QED
    BY <1>2, <2>2, <2>3, <2>4, <2>7
       DEF WireOut, HostTypes, TxTypes, RxTypes, CpuTypes, txVars, rxVars, cpuVars
<1>3. CASE \E n \in OutLens : HostSend(n)
  BY <1>3, LengthsAssumption
     DEF HostSend, Blocks, RegTypes, HostTypes, TxTypes, RxTypes, CpuTypes,
         regVars, txVars, rxVars, cpuVars
<1> QED
  BY <1>1, <1>2, <1>3

LEMMA OtherCallTypes ==
  ASSUME TypeOK, (\E d \in Dirs : Stall(d) \/ ClearHalt(d)) \/ Abandon
  PROVE  TypeOK'
<1> USE DEF TypeOK
<1>1. ASSUME NEW d \in Dirs, Stall(d)
      PROVE  TypeOK'
  BY <1>1 DEF Stall, RegTypes, TxTypes, RxTypes, CpuTypes, HostTypes,
              txVars, rxVars, cpuVars, hostVars
<1>2. ASSUME NEW d \in Dirs, ClearHalt(d)
      PROVE  TypeOK'
  BY <1>2 DEF ClearHalt, Blocks, RegTypes, TxTypes, RxTypes, CpuTypes, HostTypes,
              regVars, txVars, rxVars, cpuVars
<1>3. CASE Abandon
  BY <1>3 DEF Abandon, RegTypes, TxTypes, RxTypes, CpuTypes, HostTypes,
              regVars, rxVars, cpuVars, hostVars
<1> QED
  BY <1>1, <1>2, <1>3

LEMMA TypeInit == Init => TypeOK
<1> SUFFICES ASSUME Init
             PROVE  TypeOK
  OBVIOUS
<1>1. Empty \in Packet0
  BY LengthsAssumption DEF Packet0, Empty, Blocks
<1>2. RegTypes
  BY <1>1 DEF Init, RegTypes, Blocks
<1>3. txBusy \in BOOLEAN /\ rxOn \in BOOLEAN /\ last \in BOOLEAN /\ hBusy \in BOOLEAN
      /\ anom \in BOOLEAN
  BY Zenon DEF Init
<1>4. txOff = 0 /\ txRemain = 0 /\ txPushed = 0 /\ txNo = 0
  BY DEF Init
<1>5. TxTypes
  BY <1>3, <1>4 DEF TxTypes, Blocks
<1>6. rxSize = 0 /\ rxCount = 0 /\ rxLast = Empty
  BY DEF Init
<1>7. RxTypes
  BY <1>1, <1>3, <1>6 DEF RxTypes
<1>8. pc = "idle" /\ idx = 0 /\ cnt = 0
  BY DEF Init
<1>9. CpuTypes
  BY <1>3, <1>8 DEF CpuTypes, Blocks
<1>10. tog = [d \in Dirs |-> 0] /\ inLast = Empty /\ hNo = 0 /\ hLen = 0 /\ hOff = 0
  BY DEF Init
<1>11. HostTypes
  BY <1>1, <1>3, <1>10 DEF HostTypes, Blocks
<1> QED
  BY <1>2, <1>3, <1>5, <1>6, <1>7, <1>9, <1>11 DEF TypeOK

LEMMA TypeStep ==
  ASSUME TypeOK, InHandler, usb = "on" => OutRoom, [Next]_vars
  PROVE  TypeOK'
<1>1. CASE Calls
  BY <1>1, TransmitTypes, PrepareReceiveTypes, OtherCallTypes, ResetTypes DEF Calls
<1>2. CASE Cpu
  BY <1>2, InHandlerTypes, OutHandlerTypes, HalInTypes, ResetTypes DEF Cpu
<1>3. CASE Wire
  BY <1>3, WireTypes, ResetTypes DEF Wire
<1>4. CASE UNCHANGED vars
  BY <1>4 DEF vars, TypeOK, RegTypes, TxTypes, RxTypes, CpuTypes, HostTypes,
              regVars, txVars, rxVars, cpuVars, hostVars
<1> QED
  BY <1>1, <1>2, <1>3, <1>4 DEF Next

-----------------------------------------------------------------------------
(* Who holds the blocks                                                    *)

(* A step that leaves one endpoint alone leaves its half of the invariant. *)
LEMMA InFrame ==
  ASSUME InSide, H'["in"] = H["in"], S'["in"] = S["in"], ctr'["in"] = ctr["in"],
         UNCHANGED <<txPushed, txRemain, usb>>,
         \/ UNCHANGED <<pc, idx>>
         \/ {pc, pc'} \cap {"inFlip", "inFill", "inDone"} = {}
  PROVE  InSide'
<1>1. CASE UNCHANGED <<pc, idx>>
  BY <1>1 DEF InSide, InHandler, InHeld, Released, UsedBlock
<1>2. CASE {pc, pc'} \cap {"inFlip", "inFill", "inDone"} = {}
  BY <1>2 DEF InSide, InHandler, InHeld, Released, UsedBlock
<1> QED
  BY <1>1, <1>2

LEMMA OutFrame ==
  ASSUME OutSide, H'["out"] = H["out"], S'["out"] = S["out"], ctr'["out"] = ctr["out"],
         pma'["out"] = pma["out"],
         UNCHANGED <<rxOn, rxSize, rxCount, hBusy, hLen, hOff, usb>>,
         \/ UNCHANGED cpuVars
         \/ {pc, pc'} \cap {"outFlip", "outCopy", "outDone"} = {}
  PROVE  OutSide'
<1>1. Waiting' = Waiting
  BY DEF Waiting, UsedBlock
<1>2. InCopy' = InCopy
  BY DEF InCopy, cpuVars
<1>3. Taken' = Taken
  BY <1>1, <1>2 DEF Taken
<1>4. usb' = "on" => OutRoom' /\ NoneEmpty'
  BY <1>1, <1>3 DEF OutSide, OutRoom, NoneEmpty, Released, cpuVars
<1>5. CASE UNCHANGED cpuVars
  BY <1>4, <1>5 DEF OutSide, OutHandler, OutHeld, Released, UsedBlock, cpuVars
<1>6. CASE {pc, pc'} \cap {"outFlip", "outCopy", "outDone"} = {}
  BY <1>4, <1>6 DEF OutSide, OutHandler, OutHeld, Released, UsedBlock
<1> QED
  BY <1>5, <1>6

LEMMA RuleTwoSides ==
  RuleTwo <=> /\ ctr["in"] => ~Released("in")
              /\ ctr["out"] => ~Released("out")
  BY DEF RuleTwo, Dirs

LEMMA TransmitPhase ==
  ASSUME TypeOK, PhaseInv, NEW n \in InLens, Transmit(n)
  PROVE  PhaseInv'
<1>1. CASE UnderWay
  <2>1. InSide'
    BY <1>1, InFrame DEF PhaseInv, Transmit, regVars, cpuVars
  <2>2. OutSide'
    BY <1>1, OutFrame DEF PhaseInv, Transmit, regVars, rxVars, cpuVars, hostVars
  <2> QED
    BY <1>1, <2>1, <2>2
       DEF PhaseInv, RuleTwo, Released, OffBus, Transmit, regVars, hostVars
<1>2. CASE ~UnderWay
  <2> DEFINE first == IF PhaseOff THEN 0 ELSE S["in"]
             loaded == Least(n, 2 * MaxPacket)
  <2>1. /\ H' = [H EXCEPT !["in"] = first] /\ S' = [S EXCEPT !["in"] = 1 - first]
        /\ pma'["out"] = pma["out"]
        /\ txPushed' = (IF n > MaxPacket THEN 2 ELSE 1) /\ txRemain' = n - loaded
        /\ UNCHANGED <<ctr, usb, rxVars, cpuVars, hostVars>>
    BY <1>2 DEF Transmit, TypeOK, RegTypes, Dirs
  <2>2. H \in [Dirs -> Blocks] /\ S \in [Dirs -> Blocks] /\ first \in Blocks
    BY DEF TypeOK, RegTypes, Dirs, Blocks
  <2>3. H'["in"] # S'["in"] /\ H'["out"] = H["out"] /\ S'["out"] = S["out"]
    BY <2>1, <2>2 DEF Dirs, Blocks
  <2>4. pc = "idle" /\ txPushed = 0
    BY <1>2 DEF Transmit, Callable, UnderWay
  <2>5. ~ctr["in"]
    <3>1. usb \in {"on", "default"}
      BY DEF Transmit, Callable, TypeOK, RegTypes
    <3> QED
      BY <2>4, <3>1 DEF PhaseInv, InSide, InHeld, OffBus
  <2>6. txPushed' \in {1, 2} /\ (txRemain' # 0 => txPushed' = 2)
    BY <2>1, LengthsAssumption DEF Least
  <2>7. InSide'
    BY <2>1, <2>3, <2>4, <2>6 DEF InSide, InHandler, InHeld, Released, cpuVars
  <2>8. OutSide'
    BY <2>1, <2>3, OutFrame DEF PhaseInv, rxVars, hostVars
  <2>9. RuleTwo'
    BY <2>1, <2>3, <2>5 DEF PhaseInv, RuleTwo, Released, Dirs
  <2> QED
    BY <2>1, <2>7, <2>8, <2>9 DEF PhaseInv, OffBus, hostVars
<1> QED
  BY <1>1, <1>2

LEMMA PrepareReceivePhase ==
  ASSUME TypeOK, PhaseInv, NEW m \in OutLens, PrepareReceive(m)
  PROVE  PhaseInv'
<1>1. /\ rxOn' = TRUE /\ rxSize' = m /\ rxCount' = 0 /\ pc = "idle" /\ m \in Nat
      /\ usb \in {"on", "default"}
      /\ UNCHANGED <<H, ctr, usb, txVars, cpuVars, hostVars>>
  BY LengthsAssumption DEF PrepareReceive, Callable, TypeOK, RegTypes
<1>2. S'["in"] = S["in"]
  BY FlipFacts DEF PrepareReceive, RxArm, TypeOK, RegTypes, Dirs
<1>3. ~ctr["out"]
  BY <1>1 DEF PhaseInv, PrepareReceive, MidTransfer, OutSide, OutHeld, OffBus
<1>4. InSide'
  BY <1>1, <1>2, InFrame DEF PhaseInv, txVars, cpuVars
<1>5. InCopy' = 0 /\ Waiting' = 0
  BY <1>1, <1>3 DEF InCopy, Waiting, cpuVars
<1>6. Taken' = 0
  BY <1>1, <1>5 DEF Taken
<1>7. ~MidTransfer /\ (hBusy => Fits(hLen, m)) /\ hOff \in Nat /\ hLen \in Nat
  BY DEF PrepareReceive, TypeOK, HostTypes
<1>8. usb = "on" => OutRoom' /\ NoneEmpty'
  BY <1>1, <1>3, <1>6, <1>7
     DEF OutRoom, NoneEmpty, PhaseInv, OutSide, MidTransfer, Fits, cpuVars, hostVars
<1>9. OutSide'
  BY <1>1, <1>3, <1>8 DEF OutSide, OutHandler, OutHeld, cpuVars
<1>10. RuleTwo'
  BY <1>1, <1>2, <1>3 DEF PhaseInv, RuleTwo, Released, Dirs
<1> QED
  BY <1>1, <1>4, <1>9, <1>10 DEF PhaseInv, OffBus, hostVars

LEMMA ResetPhase ==
  ASSUME TypeOK, PhaseInv, OpenEp \/ ResetIrq \/ BusReset
  PROVE  PhaseInv'
<1>1. CASE OpenEp \/ ResetIrq
  <2>1. /\ pc = "idle" /\ usb # "on" /\ UNCHANGED <<ctr, pma, cpuVars, hostVars>>
        /\ ResetProgress
    BY <1>1 DEF OpenEp, ResetIrq, Callable
  <2>2. ~ctr["in"] /\ ~ctr["out"]
    <3>1. CASE OpenEp
      BY <2>1, <3>1 DEF OpenEp, PhaseInv, OffBus
    <3>2. CASE ResetIrq
      BY <3>2 DEF ResetIrq, Dirs
    <3> QED
      BY <1>1, <3>1, <3>2
  <2>3. OffBus'
    BY <2>1, <2>2 DEF PhaseInv, OffBus, hostVars
  <2>4. /\ ~ctr'["in"] /\ ~ctr'["out"] /\ ~hBusy' /\ hOff' = 0 /\ hLen' = 0
        /\ pc' = "idle"
    BY <2>1, <2>2, <2>3 DEF OffBus, cpuVars
  <2>5. usb' = "on" => H'["in"] = S'["in"] /\ H'["out"] = S'["out"]
    BY <1>1 DEF OpenEp, ResetIrq, ForceInit, Dirs
  <2>6. InSide'
    BY <2>1, <2>4, <2>5 DEF InSide, InHandler, InHeld, Released, ResetProgress
  <2>7. InCopy' = 0 /\ Waiting' = 0
    BY <2>4 DEF InCopy, Waiting
  <2>8. Taken' = 0 /\ rxSize' = 0
    BY <2>1, <2>7 DEF Taken, ResetProgress
  <2>9. OutSide'
    BY <2>4, <2>5, <2>8 DEF OutSide, OutHandler, OutRoom, NoneEmpty, OutHeld, Released
  <2>10. RuleTwo'
    BY <2>4 DEF RuleTwo, Dirs
  <2> QED
    BY <2>3, <2>6, <2>9, <2>10 DEF PhaseInv
<1>2. CASE BusReset
  <2>1. /\ usb' = "hwreset" /\ ~hBusy' /\ hLen' = 0 /\ hOff' = 0
        /\ \A d \in Dirs : tog'[d] = 0 /\ H'[d] = S'[d]
        /\ UNCHANGED <<ctr, txVars, cpuVars>>
    BY <1>2 DEF BusReset
  <2>2. OffBus' /\ RuleTwo'
    BY <2>1 DEF OffBus, RuleTwo, Released
  <2>3. InSide' /\ OutSide'
    BY <2>1 DEF PhaseInv, InSide, InHandler, OutSide, OutHandler, txVars, cpuVars
  <2> QED
    BY <2>1, <2>2, <2>3 DEF PhaseInv
<1> QED
  BY <1>1, <1>2

LEMMA InHandlerPhase ==
  ASSUME TypeOK, PhaseInv, IrqIn \/ InFlip \/ InFill \/ InDone
  PROVE  PhaseInv'
<1> DEFINE InPcs == {"inFlip", "inFill", "inDone"}
<1>1. /\ UNCHANGED <<H, usb, rxVars, hostVars>>
      /\ ctr'["out"] = ctr["out"] /\ S'["out"] = S["out"] /\ pma'["out"] = pma["out"]
      /\ pc \in {"idle"} \cup InPcs
  <2>1. CASE IrqIn
    BY <2>1 DEF IrqIn, TypeOK, RegTypes, Dirs
  <2>2. CASE InFlip
    BY <2>2, FlipFacts DEF InFlip, TypeOK, RegTypes, Dirs
  <2>3. CASE InFill
    BY <2>3 DEF InFill, TypeOK, RegTypes, Dirs
  <2>4. CASE InDone
    BY <2>4 DEF InDone, regVars
  <2> QED
    BY <2>1, <2>2, <2>3, <2>4
<1>2. UNCHANGED cpuVars \/ {pc, pc'} \cap {"outFlip", "outCopy", "outDone"} = {}
  <2>1. CASE pc' = pc
    BY <1>1, <2>1
  <2>2. CASE pc' # pc
    <3>1. pc' \in {"idle"} \cup InPcs
      BY <2>2 DEF IrqIn, InFlip, InFill, InDone, Return
    <3> QED
      BY <1>1, <3>1
  <2> QED
    BY <2>1, <2>2
<1>3. OutSide'
  BY <1>1, <1>2, OutFrame DEF PhaseInv, rxVars, hostVars
<1>4. ctr'["out"] => ~Released("out")'
  BY <1>1, RuleTwoSides DEF PhaseInv, Released
<1>5. usb' # "on" => OffBus'
  <2>1. \A d \in Dirs : ctr'[d] => ctr[d]
    BY DEF IrqIn, InFlip, InFill, InDone, regVars, TypeOK, RegTypes
  <2> QED
    BY <1>1, <2>1 DEF PhaseInv, OffBus, Dirs, hostVars
<1>6. InSide' /\ (ctr'["in"] => ~Released("in")')
  <2>1. CASE IrqIn
    <3>1. pc = "idle" /\ ctr["in"] /\ ~Released("in") /\ txPushed \in 0 .. 2
      BY <2>1, RuleTwoSides DEF IrqIn, PhaseInv, TypeOK, TxTypes
    <3>2. ~ctr'["in"] /\ UNCHANGED <<S, txRemain>>
      BY <2>1 DEF IrqIn, TypeOK, RegTypes, Dirs
    <3>3. \/ txPushed = 0 /\ UNCHANGED <<pc, idx, txPushed>>
          \/ /\ txPushed # 0 /\ txPushed' = txPushed - 1
             /\ pc' = "inFlip" /\ idx' = UsedBlock("in")
      BY <2>1 DEF IrqIn
    <3>4. InHandler'
      BY <3>1, <3>2, <3>3 DEF InHandler
    <3>5. usb = "on" => InHeld'
      BY <1>1, <3>1, <3>2, <3>3
         DEF PhaseInv, InSide, InHeld, Released, UsedBlock
    <3> QED
      BY <1>1, <3>2, <3>4, <3>5 DEF InSide
  <2>2. CASE InFlip
    <3>1. UNCHANGED <<txPushed, txRemain, ctr>> /\ pc = "inFlip"
      BY <2>2 DEF InFlip, txVars
    <3>2. CASE usb = "on"
      <4>1. /\ ~Released("in") /\ ~ctr["in"] /\ idx = 1 - S["in"]
            /\ txRemain # 0 => txPushed = 1
            /\ H["in"] \in Blocks /\ S["in"] \in Blocks
        BY <3>1, <3>2 DEF PhaseInv, InSide, InHeld, UsedBlock, TypeOK, RegTypes, Dirs
      <4>2. IF txPushed # 0 THEN S'["in"] = 1 - S["in"] ELSE S' = S
        BY <2>2, FlipFacts DEF InFlip, MoreToSend, TypeOK, RegTypes, Dirs
      <4>3. \/ txRemain # 0 /\ pc' = "inFill" /\ idx' = idx
            \/ txRemain = 0 /\ txPushed = 0 /\ pc' = "inDone"
            \/ txRemain = 0 /\ txPushed # 0 /\ pc' = "idle"
        BY <2>2 DEF InFlip, Return
      <4> QED
        BY <1>1, <3>1, <3>2, <4>1, <4>2, <4>3
           DEF PhaseInv, InSide, InHeld, InHandler, Released, Blocks
    <3>3. CASE usb # "on"
      BY <1>1, <2>2, <3>1, <3>3
         DEF InFlip, Return, PhaseInv, InSide, InHandler, OffBus, Dirs
    <3> QED
      BY <3>2, <3>3
  <2>3. CASE InFill
    <3>1. /\ pc = "inFill" /\ pc' = "idle" /\ txPushed' = txPushed + 1
          /\ UNCHANGED <<H, S, ctr, usb>>
      BY <2>3 DEF InFill, Return
    <3> QED
      BY <3>1, RuleTwoSides
         DEF PhaseInv, InSide, InHeld, InHandler, Released, TypeOK, TxTypes
  <2>4. CASE InDone
    <3>1. /\ pc = "inDone" /\ pc' = "idle" /\ UNCHANGED <<regVars, txPushed, txRemain>>
      BY <2>4 DEF InDone, Return
    <3> QED
      BY <3>1, RuleTwoSides
         DEF PhaseInv, InSide, InHeld, InHandler, Released, regVars
  <2> QED
    BY <2>1, <2>2, <2>3, <2>4
<1>7. RuleTwo'
  BY <1>4, <1>6 DEF RuleTwo, Dirs
<1> QED
  BY <1>3, <1>5, <1>6, <1>7 DEF PhaseInv

LEMMA OutHandlerPhase ==
  ASSUME TypeOK, PhaseInv, IrqOut \/ OutFlip \/ OutCopy \/ OutDone
  PROVE  PhaseInv'
<1> DEFINE OutPcs == {"outFlip", "outCopy", "outDone"}
<1>1. /\ UNCHANGED <<H, usb, txVars>>
      /\ ctr'["in"] = ctr["in"] /\ S'["in"] = S["in"]
      /\ pc \in {"idle"} \cup OutPcs
  <2>1. CASE IrqOut
    BY <2>1 DEF IrqOut, TypeOK, RegTypes, Dirs
  <2>2. CASE OutFlip
    BY <2>2, FlipFacts DEF OutFlip, TypeOK, RegTypes, Dirs
  <2>3. CASE OutCopy
    BY <2>3 DEF OutCopy, regVars
  <2>4. CASE OutDone
    BY <2>4 DEF OutDone, regVars
  <2> QED
    BY <2>1, <2>2, <2>3, <2>4
<1>2. {pc, pc'} \cap {"inFlip", "inFill", "inDone"} = {}
  <2>1. pc' = pc \/ pc' \in {"idle"} \cup OutPcs
    BY DEF IrqOut, OutFlip, OutCopy, OutDone, Return
  <2> QED
    BY <1>1, <2>1
<1>3. InSide'
  BY <1>1, <1>2, InFrame DEF PhaseInv, txVars
<1>4. ctr'["in"] => ~Released("in")'
  BY <1>1, RuleTwoSides DEF PhaseInv, Released
<1>5. usb' # "on" => OffBus'
  <2>1. \A d \in Dirs : (ctr'[d] => ctr[d]) /\ tog'[d] = tog[d]
    BY DEF IrqOut, OutFlip, OutCopy, OutDone, regVars, hostVars, TypeOK, RegTypes
  <2>2. (hBusy' => hBusy) /\ hOff' \in {hOff, 0} /\ hLen' \in {hLen, 0}
    BY DEF IrqOut, OutFlip, OutCopy, OutDone, hostVars
  <2> QED
    BY <1>1, <2>1, <2>2 DEF PhaseInv, OffBus, Dirs
<1>6. OutSide' /\ (ctr'["out"] => ~Released("out")')
  <2>0. CASE IrqOut /\ usb # "on"
    <3>1. ~ctr'["out"] /\ usb' # "on"
      BY <1>1, <2>0 DEF IrqOut, TypeOK, RegTypes, Dirs
    <3> QED
      BY <3>1 DEF OutSide, OutHandler
  <2>1. CASE IrqOut /\ usb = "on"
    <3>1. usb = "on"
      BY <2>1
    <3>2. /\ pc = "idle" /\ ctr["out"] /\ ~Released("out") /\ rxOn /\ hBusy /\ hOff > 0
          /\ Waiting > 0 /\ Waiting = pma["out"][UsedBlock("out")].len
      BY <2>1, <3>1, RuleTwoSides
         DEF IrqOut, PhaseInv, OutSide, OutHeld, NoneEmpty, Waiting
    <3>3. /\ ~ctr'["out"] /\ idx' = UsedBlock("out") /\ cnt' = Waiting /\ pc' = "outFlip"
          /\ UNCHANGED <<S, rxVars, hostVars>>
      BY <2>1, <3>2 DEF IrqOut, TypeOK, RegTypes, Dirs
    <3>4. InCopy = 0 /\ InCopy' = Waiting /\ Waiting' = 0
      BY <3>2, <3>3 DEF InCopy, Waiting
    <3>5. Waiting \in Nat /\ rxCount \in Nat
      BY <3>2, UsedBlockType DEF TypeOK, RegTypes, RxTypes, Packet0, Dirs
    <3>6. Taken' = Taken
      BY <3>3, <3>4, <3>5 DEF Taken, rxVars
    <3>7. OutRoom' /\ NoneEmpty'
      BY <1>1, <3>1, <3>2, <3>3, <3>6
         DEF PhaseInv, OutSide, OutRoom, NoneEmpty, Released, rxVars, hostVars
    <3>8. OutHeld'
      BY <1>1, <3>2, <3>3 DEF OutHeld, Released, UsedBlock, rxVars, hostVars
    <3> QED
      BY <3>3, <3>7, <3>8 DEF OutSide, OutHandler
  <2>2. CASE OutFlip
    <3>1. /\ UNCHANGED <<H, ctr, pma, usb, rxVars, idx, cnt, last, hostVars>>
          /\ pc = "outFlip" /\ pc' = "outCopy"
      BY <2>2 DEF OutFlip
    <3>2. S'["out"] = IF ~last THEN 1 - S["out"] ELSE S["out"]
      BY <2>2, FlipFacts DEF OutFlip, MoreToReceive, TypeOK, RegTypes, Dirs
    <3>3. ~ctr["out"] /\ (usb = "on" => ~Released("out") /\ idx = UsedBlock("out") /\ rxOn
                                        /\ hBusy /\ hOff > 0)
      BY <3>1 DEF PhaseInv, OutSide, OutHandler, OutHeld
    <3>4. H["out"] \in Blocks /\ S["out"] \in Blocks
      BY DEF TypeOK, RegTypes, Dirs
    <3>5. InCopy' = InCopy /\ Waiting' = Waiting
      BY <3>1, <3>3 DEF InCopy, Waiting
    <3>6. Taken' = Taken
      BY <3>1, <3>5 DEF Taken, rxVars
    <3>7. usb' = "on" => OutRoom' /\ NoneEmpty'
      BY <3>1, <3>3, <3>6
         DEF PhaseInv, OutSide, OutRoom, NoneEmpty, rxVars, hostVars
    <3>8. usb' = "on" => OutHeld'
      BY <3>1, <3>2, <3>3, <3>4
         DEF OutHeld, Released, UsedBlock, Blocks, rxVars, hostVars
    <3> QED
      BY <3>1, <3>3, <3>7, <3>8 DEF OutSide, OutHandler
  <2>3. CASE OutCopy
    <3>1. /\ UNCHANGED <<H, S, ctr, pma, usb, rxOn, rxSize, hostVars>>
          /\ pc = "outCopy" /\ rxCount' = rxCount + cnt
          /\ \/ last /\ pc' = "outDone"
             \/ ~last /\ pc' = "idle"
      BY <2>3 DEF OutCopy, Return, regVars
    <3>2. InCopy = cnt /\ InCopy' = 0 /\ Waiting' = Waiting
      BY <3>1 DEF InCopy, Waiting, UsedBlock
    <3>3. cnt \in Nat /\ rxCount \in Nat /\ Waiting \in Nat
      BY UsedBlockType DEF Waiting, TypeOK, RegTypes, RxTypes, CpuTypes, Packet0, Dirs
    <3>4. Taken' = Taken
      BY <3>1, <3>2, <3>3 DEF Taken
    <3>5. usb' = "on" => OutRoom' /\ NoneEmpty'
      BY <3>1, <3>2, <3>4 DEF PhaseInv, OutSide, OutRoom, NoneEmpty, Released, hostVars
    <3>6. usb' = "on" => OutHeld'
      BY <3>1 DEF PhaseInv, OutSide, OutHeld, Released, UsedBlock, hostVars
    <3> QED
      BY <3>1, <3>5, <3>6, RuleTwoSides DEF PhaseInv, OutSide, OutHandler, Released
  <2>4. CASE OutDone
    <3>1. /\ UNCHANGED <<regVars, rxVars>> /\ pc = "outDone" /\ pc' = "idle"
          /\ ~hBusy' /\ hLen' = 0 /\ hOff' = 0
      BY <2>4 DEF OutDone, Return
    <3>2. CASE usb = "on"
      <4>1. ~ctr["out"] /\ ~Released("out")
        BY <3>1, <3>2 DEF PhaseInv, OutSide, OutHeld
      <4>2. InCopy = 0 /\ InCopy' = 0 /\ Waiting = 0 /\ Waiting' = 0
        BY <3>1, <4>1 DEF InCopy, Waiting, regVars
      <4>3. Taken' = Taken
        BY <3>1, <4>2 DEF Taken, rxVars
      <4>4. OutRoom' /\ NoneEmpty'
        BY <3>1, <3>2, <4>1, <4>3
           DEF PhaseInv, OutSide, OutRoom, NoneEmpty, Released, regVars, rxVars
      <4>5. OutHeld'
        BY <3>1, <4>1 DEF OutHeld, Released, regVars
      <4> QED
        BY <3>1, <4>1, <4>4, <4>5 DEF OutSide, OutHandler, regVars
    <3>3. CASE usb # "on"
      BY <3>1, <3>3, RuleTwoSides DEF PhaseInv, OutSide, OutHandler, Released, regVars
    <3> QED
      BY <3>2, <3>3
  <2> QED
    BY <2>0, <2>1, <2>2, <2>3, <2>4
<1>7. RuleTwo'
  BY <1>4, <1>6 DEF RuleTwo, Dirs
<1> QED
  BY <1>3, <1>5, <1>6, <1>7 DEF PhaseInv

LEMMA HalInPhase ==
  ASSUME TypeOK, PhaseInv, HalIn
  PROVE  PhaseInv'
<1>1. /\ pc = "idle" /\ ctr["in"]
      /\ UNCHANGED <<H, usb, txPushed, txRemain, rxVars, cpuVars, hostVars>>
  BY DEF HalIn
<1>2. /\ ~ctr'["in"] /\ ctr'["out"] = ctr["out"]
      /\ S'["in"] = 1 - S["in"] /\ S'["out"] = S["out"]
      /\ pma'["out"] = pma["out"]
  <2>1. /\ pma' = [pma EXCEPT !["in"] = [b \in Blocks |-> [pma["in"][b] EXCEPT !.len = 0]]]
           \/ pma' = pma
        /\ S' = Flipped(S, "in") /\ ctr' = [ctr EXCEPT !["in"] = FALSE]
    BY DEF HalIn
  <2> QED
    BY <2>1, FlipFacts DEF TypeOK, RegTypes, Dirs
<1>3. ~Released("in") /\ H["in"] \in Blocks /\ S["in"] \in Blocks
  BY <1>1, RuleTwoSides DEF PhaseInv, TypeOK, RegTypes, Dirs
<1>4. Released("in")'
  BY <1>1, <1>2, <1>3 DEF Released, Blocks
<1>5. InHandler'
  BY <1>1 DEF PhaseInv, InSide, InHandler, cpuVars
<1>6. usb = "on" => InHeld'
  BY <1>1, <1>3, <1>4 DEF PhaseInv, InSide, InHeld, cpuVars
<1>7. OutSide'
  BY <1>1, <1>2, OutFrame DEF PhaseInv, rxVars, hostVars
<1>8. RuleTwo'
  BY <1>1, <1>2 DEF PhaseInv, RuleTwo, Released, Dirs
<1>9. usb' # "on" => OffBus'
  BY <1>1, <1>2 DEF PhaseInv, OffBus, hostVars
<1> QED
  BY <1>1, <1>5, <1>6, <1>7, <1>8, <1>9 DEF PhaseInv, InSide

LEMMA WireInPhase ==
  ASSUME TypeOK, PhaseInv, WireIn
  PROVE  PhaseInv'
<1>1. /\ usb = "on" /\ Released("in")
      /\ UNCHANGED <<S, pma, usb, txVars, rxVars, cpuVars, hBusy, hLen, hOff>>
  BY DEF WireIn
<1>2. /\ H'["in"] = 1 - H["in"] /\ H'["out"] = H["out"]
      /\ ctr'["in"] /\ ctr'["out"] = ctr["out"]
      /\ H["in"] \in Blocks /\ S["in"] \in Blocks
  BY FlipFacts DEF WireIn, TypeOK, RegTypes, Dirs
<1>3. ~Released("in")'
  BY <1>1, <1>2 DEF Released, Blocks
<1>4. InSide'
  BY <1>1, <1>2, <1>3
     DEF PhaseInv, InSide, InHeld, InHandler, UsedBlock, txVars, cpuVars
<1>5. OutSide'
  BY <1>1, <1>2, OutFrame DEF PhaseInv, rxVars
<1>6. RuleTwo'
  BY <1>1, <1>2, <1>3 DEF PhaseInv, RuleTwo, Released, Dirs
<1> QED
  BY <1>1, <1>4, <1>5, <1>6 DEF PhaseInv

LEMMA WireOutPhase ==
  ASSUME TypeOK, PhaseInv, WireOut
  PROVE  PhaseInv'
<1> DEFINE p == Packet(hNo, hOff, hLen - hOff)
<1>1. /\ usb = "on" /\ Released("out") /\ hBusy /\ hOff < hLen /\ hOff' = hOff + p.len
      /\ UNCHANGED <<S, usb, txVars, rxVars, cpuVars, hBusy, hLen>>
  BY DEF WireOut
<1>2. H["out"] \in Blocks /\ S["out"] \in Blocks
  BY DEF TypeOK, RegTypes, Dirs
<1>3. p.len \in Nat /\ p.len > 0 /\ p.len <= hLen - hOff /\ hOff \in Nat /\ hLen \in Nat
  <2>1. hNo \in Blocks /\ hOff \in Nat /\ hLen \in Nat
    BY DEF TypeOK, HostTypes
  <2>2. hLen - hOff \in Nat /\ hLen - hOff > 0
    BY <1>1, <2>1
  <2>3. p \in Packet0 /\ p.len <= hLen - hOff /\ p.len > 0
    BY <2>1, <2>2, PacketFacts
  <2> HIDE DEF p
  <2> QED
    BY <2>1, <2>3 DEF Packet0
<1> HIDE DEF p
<1>4. ~ctr["out"] /\ pc # "outFlip" /\ pc # "outDone" /\ rxOn
  BY <1>1, RuleTwoSides DEF PhaseInv, OutSide, OutHeld
<1>5. Waiting = 0 /\ InCopy' = InCopy
  BY <1>1, <1>4 DEF Waiting, InCopy, cpuVars
<1>6. Taken <= hOff /\ hLen <= rxSize
  BY <1>1 DEF PhaseInv, OutSide, OutRoom
<1>7. rxCount \in Nat /\ InCopy \in Nat /\ rxSize \in Nat
  BY DEF InCopy, TypeOK, RxTypes, CpuTypes
<1>8. CASE tog["out"] = H["out"]
  <2>1. /\ pma' = [pma EXCEPT !["out"][H["out"]] = p] /\ H' = Flipped(H, "out")
        /\ ctr' = [ctr EXCEPT !["out"] = TRUE]
    BY <1>8 DEF WireOut, p
  <2>2. /\ H'["out"] = 1 - H["out"] /\ H'["in"] = H["in"]
        /\ ctr'["out"] /\ ctr'["in"] = ctr["in"]
        /\ pma'["out"][H["out"]] = p
    BY <1>2, <2>1, FlipFacts DEF TypeOK, RegTypes, Dirs
  <2>3. UsedBlock("out")' = H["out"] /\ ~Released("out")'
    BY <1>1, <1>2, <2>2 DEF UsedBlock, Released, Blocks
  <2>4. Waiting' = p.len
    BY <2>2, <2>3 DEF Waiting
  <2>5. Taken' <= hOff' /\ Taken' <= rxSize' /\ hOff' <= hLen'
    BY <1>1, <1>3, <1>5, <1>6, <1>7, <2>4 DEF Taken, rxVars
  <2>6. OutRoom' /\ NoneEmpty'
    BY <1>1, <1>3, <1>6, <2>3, <2>4, <2>5
       DEF PhaseInv, OutSide, OutRoom, NoneEmpty, rxVars, cpuVars
  <2>7. OutHeld'
    BY <1>1, <1>3, <1>4, <2>2, <2>3
       DEF PhaseInv, OutSide, OutHeld, UsedBlock, rxVars, cpuVars
  <2>8. InSide'
    BY <1>1, <2>2, InFrame DEF PhaseInv, txVars, cpuVars
  <2>9. RuleTwo'
    BY <1>1, <2>2, <2>3 DEF PhaseInv, RuleTwo, Released, Dirs
  <2> QED
    BY <1>1, <1>4, <2>6, <2>7, <2>8, <2>9 DEF PhaseInv, OutSide, OutHandler, cpuVars
<1>9. CASE tog["out"] # H["out"]
  <2>1. UNCHANGED <<pma, H, ctr>>
    BY <1>9 DEF WireOut
  <2>2. Waiting' = 0
    BY <1>4, <2>1 DEF Waiting
  <2>3. Taken' <= hOff' /\ Taken' <= rxSize' /\ hOff' <= hLen'
    BY <1>1, <1>3, <1>5, <1>6, <1>7, <2>2 DEF Taken, rxVars
  <2>4. OutRoom' /\ NoneEmpty'
    BY <1>1, <1>4, <1>6, <2>1, <2>3
       DEF PhaseInv, OutSide, OutRoom, NoneEmpty, rxVars, cpuVars
  <2>5. OutHeld'
    BY <1>1, <1>3, <1>4, <2>1
       DEF PhaseInv, OutSide, OutHeld, Released, UsedBlock, rxVars, cpuVars
  <2>6. InSide'
    BY <1>1, <2>1, InFrame DEF PhaseInv, txVars, cpuVars
  <2>7. RuleTwo'
    BY <1>1, <2>1 DEF PhaseInv, RuleTwo, Released
  <2> QED
    BY <1>1, <1>4, <2>4, <2>5, <2>6, <2>7 DEF PhaseInv, OutSide, OutHandler, cpuVars
<1> QED
  BY <1>8, <1>9

LEMMA HostSendPhase ==
  ASSUME TypeOK, PhaseInv, NEW n \in OutLens, HostSend(n)
  PROVE  PhaseInv'
<1>1. /\ usb = "on" /\ ~hBusy /\ hBusy' /\ hLen' = n /\ hOff' = 0 /\ n \in Nat
      /\ Released("out") => Fits(n, rxSize)
      /\ UNCHANGED <<regVars, txVars, rxVars, cpuVars>>
  BY LengthsAssumption DEF HostSend
<1>2. Taken' = Taken /\ Waiting' = Waiting /\ (Released("out")' <=> Released("out"))
  BY <1>1 DEF Taken, InCopy, Waiting, UsedBlock, Released, regVars, rxVars, cpuVars
<1>3. OutRoom' /\ NoneEmpty'
  <2>1. Released("out") => n <= rxSize /\ Taken = 0
    <3>1. rxSize \in Nat
      BY DEF TypeOK, RxTypes
    <3>2. Fits(n, rxSize) => n <= rxSize
      BY <1>1, <3>1 DEF Fits
    <3> QED
      BY <1>1, <3>2 DEF PhaseInv, OutSide, OutRoom
  <2>2. OutRoom'
    BY <1>1, <1>2, <2>1 DEF PhaseInv, OutSide, OutRoom, rxVars
  <2>3. NoneEmpty'
    BY <1>1, <1>2 DEF PhaseInv, OutSide, NoneEmpty, regVars, cpuVars
  <2> QED
    BY <2>2, <2>3
<1>4. OutHeld'
  BY <1>1 DEF PhaseInv, OutSide, OutHeld, UsedBlock, Released, regVars, rxVars, cpuVars
<1>5. InSide'
  BY <1>1, InFrame DEF PhaseInv, regVars, txVars, cpuVars
<1>6. RuleTwo'
  BY <1>1 DEF PhaseInv, RuleTwo, Released, regVars
<1> QED
  BY <1>1, <1>3, <1>4, <1>5, <1>6
     DEF PhaseInv, OutSide, OutHandler, regVars, cpuVars

LEMMA OtherPhase ==
  ASSUME TypeOK, PhaseInv,
         (\E d \in Dirs : Stall(d) \/ ClearHalt(d)) \/ Abandon \/ UNCHANGED vars
  PROVE  PhaseInv'
<1>1. /\ UNCHANGED <<H, S, ctr, pma, usb, rxVars, cpuVars, txPushed, txRemain>>
      /\ UNCHANGED <<hBusy, hLen, hOff>>
      /\ \A d \in Dirs : tog[d] = 0 => tog'[d] = 0
  BY DEF Stall, ClearHalt, Abandon, vars, regVars, txVars, hostVars, TypeOK, HostTypes
<1>2. InSide' /\ OutSide'
  BY <1>1, InFrame, OutFrame DEF PhaseInv, rxVars
<1>3. RuleTwo' /\ (usb' # "on" => OffBus')
  BY <1>1 DEF PhaseInv, RuleTwo, Released, OffBus
<1> QED
  BY <1>2, <1>3 DEF PhaseInv

LEMMA PhaseInit == Init => PhaseInv
<1> SUFFICES ASSUME Init
             PROVE  PhaseInv
  OBVIOUS
<1>1. /\ pc = "idle" /\ usb = "default" /\ txPushed = 0 /\ txRemain = 0
      /\ rxSize = 0 /\ rxCount = 0 /\ hOff = 0 /\ hLen = 0 /\ ~hBusy
      /\ \A d \in Dirs : ~ctr[d] /\ tog[d] = 0
  BY DEF Init
<1>2. Taken = 0
  BY <1>1 DEF Taken, InCopy, Waiting, Dirs
<1> QED
  BY <1>1, <1>2 DEF PhaseInv, RuleTwo, InSide, InHandler, OutSide, OutHandler, OffBus, Dirs

LEMMA PhaseStep ==
  ASSUME TypeOK, PhaseInv, [Next]_vars
  PROVE  PhaseInv'
<1>1. CASE Calls
  BY <1>1, TransmitPhase, PrepareReceivePhase, OtherPhase, ResetPhase DEF Calls
<1>2. CASE Cpu
  BY <1>2, InHandlerPhase, OutHandlerPhase, HalInPhase, ResetPhase DEF Cpu
<1>3. CASE Wire
  BY <1>3, WireInPhase, WireOutPhase, HostSendPhase, ResetPhase DEF Wire
<1>4. CASE UNCHANGED vars
  BY <1>4, OtherPhase
<1> QED
  BY <1>1, <1>2, <1>3, <1>4 DEF Next

-----------------------------------------------------------------------------
(* Types are kept: no count leaves its range, at most two blocks of an IN  *)
(* transfer are in flight, and no receive buffer is written beyond its     *)
(* end, whatever the host sends, clears, abandons or resets.               *)
THEOREM TypeCorrect == Spec => []TypeOK
<1>1. Init => TypeOK /\ PhaseInv
  BY TypeInit, PhaseInit
<1>2. TypeOK /\ PhaseInv /\ [Next]_vars => TypeOK' /\ PhaseInv'
  BY TypeStep, PhaseStep DEF PhaseInv, InSide, OutSide
<1> QED
  BY <1>1, <1>2, PTL DEF Spec

(* The invariant behind the other theorems.                                *)
THEOREM PhaseCorrect == Spec => []PhaseInv
<1>1. TypeOK /\ PhaseInv /\ [Next]_vars => PhaseInv'
  BY PhaseStep
<1> QED
  BY <1>1, TypeCorrect, PhaseInit, PTL DEF Spec

(* Rule two of the double buffer: between a packet and its interrupt the   *)
(* software releases no block, so that S names the block that was used.    *)
THEOREM RuleTwoHolds == Spec => []RuleTwo
<1>1. PhaseInv => RuleTwo
  BY DEF PhaseInv
<1> QED
  BY <1>1, PhaseCorrect, PTL

(* Software and peripheral are never at work in the same block, although   *)
(* the handler releases one block before it fills or copies the other.     *)
THEOREM BlocksStayApart == Spec => []BlocksApart
<1>1. TypeOK /\ PhaseInv => BlocksApart
  <2> SUFFICES ASSUME TypeOK, PhaseInv
               PROVE  BlocksApart
    OBVIOUS
  <2>1. usb = "on" /\ pc = "inFill" /\ Released("in") => H["in"] # idx
    BY DEF PhaseInv, InSide, InHeld, Released
  <2>2. usb = "on" /\ pc \in {"outFlip", "outCopy"} /\ Released("out") => H["out"] # idx
    BY DEF PhaseInv, OutSide, OutHeld, Released
  <2>3. usb = "on" /\ pc = "outCopy" /\ ctr["out"] => UsedBlock("out") # idx
    <3>1. S["out"] \in Blocks
      BY DEF TypeOK, RegTypes, Dirs
    <3> QED
      BY <3>1 DEF PhaseInv, OutSide, OutHeld, UsedBlock, Blocks
  <2> QED
    BY <2>1, <2>2, <2>3 DEF BlocksApart
<1> QED
  BY <1>1, TypeCorrect, PhaseCorrect, PTL

-----------------------------------------------------------------------------
(* What is left of a transfer stays that transfer's                        *)

LEMMA NothingLeftStep ==
  ASSUME ~Abandons, ~OtherTraffic, TypeOK, PhaseInv, NothingLeft, [Next]_vars
  PROVE  NothingLeft'
<1>1. CASE \E n \in InLens : Transmit(n)
  BY <1>1 DEF Transmit, NothingLeft
<1>2. CASE OpenEp \/ ResetIrq
  BY <1>2 DEF OpenEp, ResetIrq, ResetProgress, NothingLeft
<1>3. CASE IrqIn
  <2>1. txPushed = 0 => txPushed' = 0
    BY <1>3 DEF IrqIn
  <2> QED
    BY <1>3, <2>1 DEF IrqIn, NothingLeft
<1>4. CASE InFill
  <2>1. txRemain # 0
    BY <1>4 DEF InFill, PhaseInv, InSide, InHandler
  <2> QED
    BY <1>4, <2>1 DEF InFill, NothingLeft
<1>5. CASE InDone
  BY <1>5 DEF InDone, NothingLeft, PhaseInv, InSide, InHandler
<1>6. CASE InFlip \/ IrqOut \/ OutFlip \/ OutCopy \/ OutDone
  BY <1>6 DEF InFlip, IrqOut, OutFlip, OutCopy, OutDone, NothingLeft, txVars
<1>7. CASE Wire
  BY <1>7 DEF Wire, WireIn, WireOut, HostSend, BusReset, NothingLeft, txVars
<1>8. CASE (\E m \in OutLens : PrepareReceive(m)) \/ (\E d \in Dirs : Stall(d) \/ ClearHalt(d))
  BY <1>8 DEF PrepareReceive, Stall, ClearHalt, NothingLeft, txVars
<1>9. CASE Abandon \/ HalIn
  BY <1>9 DEF Abandon, HalIn
<1>10. CASE UNCHANGED vars
  BY <1>10 DEF vars, txVars, NothingLeft
<1> QED
  BY <1>1, <1>2, <1>3, <1>4, <1>5, <1>6, <1>7, <1>8, <1>9, <1>10 DEF Next, Calls, Cpu

LEMMA AnomalyStep ==
  ASSUME ~OtherTraffic, TypeOK, PhaseInv, NothingLeft, [Next]_vars, usb = "on"
  PROVE  anom' = anom
<1>1. CASE \E n \in InLens : Transmit(n)
  BY <1>1 DEF Transmit, NothingLeft, UnderWay
<1>2. CASE IrqIn
  <2>1. txPushed # 0
    BY <1>2 DEF IrqIn, PhaseInv, InSide, InHeld
  <2> QED
    BY <1>2, <2>1 DEF IrqIn
<1>3. CASE IrqOut
  <2>1. rxOn
    BY <1>3 DEF IrqOut, PhaseInv, OutSide, OutHeld
  <2> QED
    BY <1>3, <2>1 DEF IrqOut
<1>4. CASE OutCopy
  <2>1. cnt # 0
    BY <1>4 DEF OutCopy, PhaseInv, OutSide, NoneEmpty
  <2>2. anom' = (anom \/ cnt = 0)
    BY <1>4 DEF OutCopy
  <2>3. anom \in BOOLEAN
    BY DEF TypeOK
  <2> QED
    BY <2>1, <2>2, <2>3
<1>5. CASE InFlip \/ InFill \/ InDone \/ OutFlip \/ OutDone \/ ResetIrq
  BY <1>5 DEF InFlip, InFill, InDone, OutFlip, OutDone, ResetIrq
<1>6. CASE Wire
  BY <1>6 DEF Wire, WireIn, WireOut, HostSend, BusReset
<1>7. CASE \/ \E m \in OutLens : PrepareReceive(m)
           \/ \E d \in Dirs : Stall(d) \/ ClearHalt(d)
           \/ Abandon \/ OpenEp \/ HalIn
  BY <1>7 DEF PrepareReceive, Stall, ClearHalt, Abandon, OpenEp, HalIn
<1>8. CASE UNCHANGED vars
  BY <1>8 DEF vars
<1> QED
  BY <1>1, <1>2, <1>3, <1>4, <1>5, <1>6, <1>7, <1>8 DEF Next, Calls, Cpu

(* As long as the host gives up no IN transfer half-way and the HAL gets   *)
(* none of this layer's interrupts, no diagnostic counter moves while the  *)
(* bus is on: no spurious interrupt, no interrupt without a buffer, no     *)
(* empty packet, no transfer refused.                                      *)
THEOREM NoAnomalyOccurs == ~Abandons /\ ~OtherTraffic => (Spec => NoAnomaly)
<1> SUFFICES ASSUME ~Abandons, ~OtherTraffic
             PROVE  Spec => NoAnomaly
  OBVIOUS
<1>1. Init => NothingLeft
  BY DEF Init, NothingLeft
<1>2. TypeOK /\ PhaseInv /\ NothingLeft /\ [Next]_vars => NothingLeft'
  BY NothingLeftStep
<1>3. TypeOK /\ PhaseInv /\ NothingLeft /\ [Next]_vars => [usb = "on" => anom' = anom]_vars
  BY AnomalyStep
<1> QED
  BY <1>1, <1>2, <1>3, TypeCorrect, PhaseCorrect, PTL DEF Spec, NoAnomaly

-----------------------------------------------------------------------------
(* Nobody waits for the other's flip: EP3                                  *)

(* The class waits only for blocks in the hardware's hands or for the rest *)
(* of the handler, and with the endpoint enabled.                          *)
InGoing ==
  usb = "on" /\ txBusy =>
    /\ stat["in"] = "valid"
    /\ txPushed # 0 \/ pc \in {"inFlip", "inFill", "inDone"}

LEMMA InGoingStep ==
  ASSUME ~Abandons, ~OtherTraffic, TypeOK, PhaseInv, NothingLeft, InGoing, [Next]_vars
  PROVE  InGoing'
<1> SUFFICES ASSUME usb' = "on", txBusy'
             PROVE  /\ stat'["in"] = "valid"
                    /\ txPushed' # 0 \/ pc' \in {"inFlip", "inFill", "inDone"}
  BY DEF InGoing
<1>1. stat \in [Dirs -> {"dis", "valid", "stall"}] /\ "in" \in Dirs /\ txPushed \in 0 .. 2
  BY DEF TypeOK, RegTypes, TxTypes, Dirs
<1>2. CASE \E n \in InLens : Transmit(n)
  <2>1. PICK n \in InLens : Transmit(n)
    BY <1>2
  <2>2. ~UnderWay
    BY <2>1 DEF Transmit, NothingLeft, UnderWay
  <2>3. stat' = [stat EXCEPT !["in"] = "valid"] /\ txPushed' \in {1, 2}
    BY <2>1, <2>2 DEF Transmit
  <2> QED
    BY <1>1, <2>3
<1>3. ASSUME NEW d \in Dirs, Stall(d)
      PROVE  /\ stat'["in"] = "valid"
             /\ txPushed' # 0 \/ pc' \in {"inFlip", "inFill", "inDone"}
  <2>1. usb = "on" /\ txBusy /\ d # "in" /\ UNCHANGED <<txPushed, pc>>
    BY <1>3 DEF Stall, regVars, txVars, cpuVars
  <2>2. stat'["in"] = stat["in"]
    BY <1>1, <1>3, <2>1 DEF Stall
  <2> QED
    BY <2>1, <2>2 DEF InGoing
<1>4. CASE IrqIn
  <2>1. usb = "on" /\ txBusy /\ stat' = stat /\ ctr["in"] /\ pc = "idle"
    BY <1>4 DEF IrqIn
  <2>2. txPushed # 0
    BY <2>1 DEF PhaseInv, InSide, InHeld
  <2> QED
    BY <1>4, <2>1, <2>2 DEF IrqIn, InGoing
<1>5. CASE InFlip
  <2>1. usb = "on" /\ txBusy /\ stat' = stat /\ txPushed' = txPushed
    BY <1>5 DEF InFlip, txVars
  <2>2. txPushed # 0 \/ pc' \in {"inFill", "inDone"}
    BY <1>5 DEF InFlip
  <2> QED
    BY <2>1, <2>2 DEF InGoing
<1>6. CASE InFill
  BY <1>1, <1>6 DEF InFill
<1>7. CASE InDone \/ ResetIrq \/ OpenEp \/ BusReset \/ Abandon \/ HalIn
  BY <1>7 DEF InDone, ResetIrq, OpenEp, BusReset, Abandon, HalIn
<1>8. CASE IrqOut \/ OutFlip \/ OutCopy \/ OutDone
  <2>1. usb = "on" /\ txBusy /\ UNCHANGED <<stat, txPushed>>
        /\ pc \notin {"inFlip", "inFill", "inDone"}
    BY <1>8 DEF IrqOut, OutFlip, OutCopy, OutDone, regVars, txVars
  <2> QED
    BY <2>1 DEF InGoing
<1>9. CASE \/ WireIn \/ WireOut \/ \E n \in OutLens : HostSend(n)
           \/ \E d \in Dirs : ClearHalt(d)
           \/ UNCHANGED vars
  BY <1>9 DEF WireIn, WireOut, HostSend, ClearHalt, InGoing, vars, regVars, txVars, cpuVars
<1>10. CASE \E m \in OutLens : PrepareReceive(m)
  <2>1. usb = "on" /\ txBusy /\ UNCHANGED <<txPushed, pc>> /\ stat'["in"] = stat["in"]
    BY <1>1, <1>10 DEF PrepareReceive, txVars, cpuVars
  <2> QED
    BY <2>1 DEF InGoing
<1> QED
  BY <1>2, <1>3, <1>4, <1>5, <1>6, <1>7, <1>8, <1>9, <1>10 DEF Next, Calls, Cpu, Wire

(* While the class waits for an IN transfer there is always a packet the   *)
(* host can fetch, an interrupt to take or a handler to finish, under the  *)
(* conditions of NoAnomalyOccurs: software and peripheral never wait for   *)
(* each other to flip.                                                     *)
THEOREM InAlwaysMoves == ~Abandons /\ ~OtherTraffic => (Spec => []InMoves)
<1> SUFFICES ASSUME ~Abandons, ~OtherTraffic
             PROVE  Spec => []InMoves
  OBVIOUS
<1>1. Init => NothingLeft /\ InGoing
  BY DEF Init, NothingLeft, InGoing
<1>2. TypeOK /\ PhaseInv /\ NothingLeft /\ InGoing /\ [Next]_vars => NothingLeft' /\ InGoing'
  BY NothingLeftStep, InGoingStep
<1>3. PhaseInv /\ InGoing => InMoves
  BY DEF PhaseInv, InSide, InHeld, InGoing, InMoves
<1> QED
  BY <1>1, <1>2, <1>3, TypeCorrect, PhaseCorrect, PTL DEF Spec

-----------------------------------------------------------------------------
(* The block number as data toggle                                         *)

(* Nothing is stalled when the policy is not to.                           *)
NoStall == HaltPolicy = "none" => \A d \in Dirs : stat[d] # "stall"

LEMMA NoStallStep ==
  ASSUME TypeOK, NoStall, [Next]_vars
  PROVE  NoStall'
<1> SUFFICES ASSUME HaltPolicy = "none", NEW d \in Dirs
             PROVE  stat'[d] # "stall"
  BY DEF NoStall
<1>1. \/ stat'[d] = stat[d]
      \/ stat'[d] \in {"valid", "dis"}
  BY DEF Next, Calls, Cpu, Wire, Transmit, PrepareReceive, Stall, ClearHalt, Abandon, OpenEp,
         IrqIn, InFlip, InFill, InDone, IrqOut, OutFlip, OutCopy, OutDone, HalIn, ResetIrq,
         WireIn, WireOut, HostSend, BusReset, vars, regVars, TypeOK, RegTypes
<1> QED
  BY <1>1 DEF NoStall

LEMMA ToggleStep ==
  ASSUME HaltPolicy # "any", TypeOK, PhaseInv, NoStall, PidAgrees, [Next]_vars
  PROVE  PidAgrees'
<1> SUFFICES ASSUME usb' = "on"
             PROVE  H' = tog'
  BY DEF PidAgrees
<1>1. ASSUME NEW n \in InLens, Transmit(n)
      PROVE  H' = tog'
  <2>1. usb = "on" /\ tog' = tog
    BY <1>1 DEF Transmit, regVars, hostVars
  <2>2. H' = H
    <3>1. CASE UnderWay
      BY <1>1, <3>1 DEF Transmit, regVars
    <3>2. CASE ~UnderWay
      <4>1. ~Released("in")
        BY <1>1, <2>1, <3>2
           DEF Transmit, Callable, UnderWay, PhaseInv, InSide, InHeld
      <4>2. H' = [H EXCEPT !["in"] = H["in"]]
        BY <1>1, <3>2, <4>1 DEF Transmit, PhaseOff, Released
      <4> QED
        BY <4>2 DEF TypeOK, RegTypes
    <3> QED
      BY <3>1, <3>2
  <2> QED
    BY <2>1, <2>2 DEF PidAgrees
<1>2. CASE WireIn
  BY <1>2 DEF WireIn, PidAgrees, Flipped
<1>3. CASE WireOut
  BY <1>3 DEF WireOut, PidAgrees, Flipped
<1>4. ASSUME NEW d \in Dirs, ClearHalt(d)
      PROVE  H' = tog'
  <2>1. H[d] = 0
    <3>1. HaltPolicy = "inPhase"
      BY <1>4, PolicyAssumption DEF ClearHalt, NoStall
    <3> QED
      BY <1>4, <3>1 DEF ClearHalt
  <2>2. usb = "on" /\ H' = H /\ tog' = [tog EXCEPT ![d] = 0]
    BY <1>4 DEF ClearHalt, regVars
  <2>3. tog' = [tog EXCEPT ![d] = tog[d]]
    BY <2>1, <2>2 DEF PidAgrees
  <2> QED
    BY <2>2, <2>3 DEF PidAgrees, TypeOK, HostTypes
<1>5. CASE OpenEp
  <2>1. H' = [d \in Dirs |-> 0] /\ tog' = tog /\ usb # "on"
    BY <1>5 DEF OpenEp, ForceInit, hostVars
  <2>2. \A d \in Dirs : tog[d] = 0
    BY <2>1 DEF PhaseInv, OffBus
  <2>3. tog = [d \in Dirs |-> tog[d]]
    BY DEF TypeOK, HostTypes
  <2> QED
    BY <2>1, <2>2, <2>3
<1>6. CASE \/ \E m \in OutLens : PrepareReceive(m)
           \/ \E d \in Dirs : Stall(d)
           \/ Abandon
           \/ \E n \in OutLens : HostSend(n)
  BY <1>6 DEF PrepareReceive, Stall, Abandon, HostSend, PidAgrees, regVars, hostVars
<1>7. CASE \/ IrqIn \/ InFlip \/ InFill \/ InDone \/ HalIn
           \/ IrqOut \/ OutFlip \/ OutCopy \/ OutDone
  BY <1>7 DEF IrqIn, InFlip, InFill, InDone, HalIn, IrqOut, OutFlip, OutCopy, OutDone,
              PidAgrees, regVars, hostVars
<1>8. CASE ResetIrq \/ BusReset
  BY <1>8 DEF ResetIrq, BusReset
<1>9. CASE UNCHANGED vars
  BY <1>9 DEF vars, regVars, hostVars, PidAgrees
<1> QED
  BY <1>1, <1>2, <1>3, <1>4, <1>5, <1>6, <1>7, <1>8, <1>9 DEF Next, Calls, Cpu, Wire

(* Rule three: device and host always mean the same toggle by a block, as  *)
(* long as a halt is only ever cleared when block 0 is next.               *)
THEOREM PidsAgree == HaltPolicy # "any" => (Spec => []PidAgrees)
<1> SUFFICES ASSUME HaltPolicy # "any"
             PROVE  Spec => []PidAgrees
  OBVIOUS
<1>1. Init => NoStall /\ PidAgrees
  BY DEF Init, NoStall, PidAgrees
<1>2. TypeOK /\ PhaseInv /\ NoStall /\ PidAgrees /\ [Next]_vars => NoStall' /\ PidAgrees'
  BY NoStallStep, ToggleStep
<1> QED
  BY <1>1, <1>2, TypeCorrect, PhaseCorrect, PTL DEF Spec
=============================================================================

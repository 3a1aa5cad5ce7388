--------------------------- MODULE PmaPipeProofs ---------------------------
(***************************************************************************)
(* Proofs that the double-buffered endpoints implement PacketPipe: what    *)
(* lies in packet memory, or in the interrupt handler's hands, followed by *)
(* what is still to be packed, is always the rest of the transfer; and     *)
(* that an OUT transfer never stands still for want of a released block.   *)
(***************************************************************************)
EXTENDS PmaDoubleBufferProofs, SequenceTheorems

-----------------------------------------------------------------------------
(* Division                                                                *)

LEMMA DivType ==
  ASSUME NEW a \in Nat, NEW m \in Nat \ {0}
  PROVE  a \div m \in Nat
  BY Z3T(30)

LEMMA NoPacket ==
  ASSUME NEW m \in Nat \ {0}
  PROVE  (m - 1) \div m = 0
  BY Z3T(30)

LEMMA OnePacket ==
  ASSUME NEW m \in Nat \ {0}, NEW n \in 1 .. m
  PROVE  (n + m - 1) \div m = 1
  BY Z3T(30)

LEMMA OneMore ==
  ASSUME NEW m \in Nat \ {0}, NEW n \in Nat, n > m
  PROVE  (n + m - 1) \div m = 1 + ((n - m) + m - 1) \div m
  BY Z3T(30)

-----------------------------------------------------------------------------
(* Sequences of packets                                                    *)

(* Packets with any offset and length.                                     *)
AnyPacket == [no : Blocks, off : Int, len : Int]
Count(n) == (n + MaxPacket - 1) \div MaxPacket

LEMMA PacketIsAny ==
  ASSUME NEW no \in Blocks, NEW off \in Int, NEW n \in Int
  PROVE  Packet(no, off, n) \in AnyPacket
  BY LengthsAssumption DEF Packet, AnyPacket, Least

LEMMA PacketMeaning == Packet0 \subseteq AnyPacket
<1>1. 0 .. MaxPacket \subseteq Int /\ Nat \subseteq Int
  BY LengthsAssumption
<1> QED
  BY <1>1 DEF Packet0, AnyPacket

LEMMA PacketsSeq ==
  ASSUME NEW no \in Blocks, NEW off \in Nat, NEW n \in Nat
  PROVE  /\ Packets(no, off, n) \in Seq(AnyPacket)
         /\ Len(Packets(no, off, n)) = Count(n)
         /\ \A i \in 1 .. Count(n) :
              Packets(no, off, n)[i] =
                Packet(no, off + (i - 1) * MaxPacket, n - (i - 1) * MaxPacket)
<1> DEFINE e(i) == Packet(no, off + (i - 1) * MaxPacket, n - (i - 1) * MaxPacket)
<1>1. n + MaxPacket - 1 \in Nat
  BY LengthsAssumption
<1>2. Count(n) \in Nat
  BY <1>1, DivType, LengthsAssumption DEF Count
<1>3. \A i \in Int : (i - 1) * MaxPacket \in Int
  BY LengthsAssumption
<1>4. \A i \in 1 .. Count(n) : e(i) \in AnyPacket
  BY <1>2, <1>3, PacketIsAny
<1>5. Packets(no, off, n) = [i \in 1 .. Count(n) |-> e(i)]
  BY DEF Packets, Count
<1> HIDE DEF e
<1>6. [i \in 1 .. Count(n) |-> e(i)] \in Seq(AnyPacket)
  BY <1>2, <1>4, IsASeq
<1>7. Len(Packets(no, off, n)) = Count(n)
  BY <1>2, <1>5, <1>6, LenProperties
<1> QED
  BY <1>5, <1>6, <1>7 DEF e

LEMMA SingleSeq ==
  ASSUME NEW p \in AnyPacket
  PROVE  /\ <<p>> \in Seq(AnyPacket)
         /\ Len(<<p>>) = 1
         /\ <<p>>[1] = p
  OBVIOUS

(* No packets for no bytes; otherwise the first packet and the others.     *)
LEMMA NonePacked ==
  ASSUME NEW no \in Blocks, NEW off \in Nat
  PROVE  Packets(no, off, 0) = <<>>
<1>1. Count(0) = 0
  BY NoPacket, LengthsAssumption DEF Count
<1>2. Packets(no, off, 0) \in Seq(AnyPacket) /\ Len(Packets(no, off, 0)) = 0
  BY <1>1, PacketsSeq
<1> QED
  BY <1>2, EmptySeq

LEMMA FirstPacked ==
  ASSUME NEW no \in Blocks, NEW off \in Nat, NEW n \in Nat \ {0}
  PROVE  LET p == Packet(no, off, n)
         IN  Packets(no, off, n) = <<p>> \o Packets(no, off + p.len, n - p.len)
<1> DEFINE p == Packet(no, off, n)
           t == Packets(no, off + p.len, n - p.len)
           s == Packets(no, off, n)
<1>1. p \in AnyPacket /\ p.len = Least(n, MaxPacket) /\ <<p>> \in Seq(AnyPacket)
  <2>1. p \in AnyPacket
    BY PacketIsAny
  <2>2. p.len = Least(n, MaxPacket)
    BY DEF Packet
  <2> QED
    BY <2>1, <2>2, SingleSeq
<1>2. off + p.len \in Nat /\ n - p.len \in Nat
  BY <1>1, LengthsAssumption DEF Least
<1>3. s \in Seq(AnyPacket) /\ Len(s) = Count(n) /\ Count(n) \in Nat
  BY PacketsSeq, LenProperties
<1>4. t \in Seq(AnyPacket) /\ Len(t) = Count(n - p.len) /\ Count(n - p.len) \in Nat
  BY <1>2, PacketsSeq, LenProperties
<1>5. Count(n) = 1 + Count(n - p.len)
  <2>1. CASE n <= MaxPacket
    <3>1. p.len = n /\ Count(n - p.len) = Count(0) /\ n \in 1 .. MaxPacket
      BY <1>1, <2>1, LengthsAssumption DEF Least
    <3>2. Count(0) = 0 /\ Count(n) = 1
      BY <3>1, NoPacket, OnePacket, LengthsAssumption DEF Count
    <3> QED
      BY <3>1, <3>2
  <2>2. CASE n > MaxPacket
    <3>1. p.len = MaxPacket
      BY <1>1, <2>2, LengthsAssumption DEF Least
    <3> QED
      BY <2>2, <3>1, OneMore, LengthsAssumption DEF Count
  <2> QED
    BY <2>1, <2>2, LengthsAssumption
<1>6. /\ <<p>> \o t \in Seq(AnyPacket)
      /\ Len(<<p>> \o t) = 1 + Len(t)
      /\ \A i \in 1 .. 1 + Len(t) :
           (<<p>> \o t)[i] = IF i <= 1 THEN p ELSE t[i - 1]
  <2> HIDE DEF p, t
  <2>1. Len(<<p>>) = 1 /\ <<p>>[1] = p
    OBVIOUS
  <2>2. \A i \in 1 .. 1 + Len(t) :
          (<<p>> \o t)[i] = IF i <= 1 THEN <<p>>[i] ELSE t[i - 1]
    BY <1>1, <1>4, <2>1, ConcatProperties
  <2>3. \A i \in 1 .. 1 + Len(t) : i <= 1 => i = 1
    BY <1>4
  <2> QED
    BY <1>1, <1>4, <2>1, <2>2, <2>3, ConcatProperties
<1>7. ASSUME NEW i \in 1 .. Count(n)
      PROVE  s[i] = (<<p>> \o t)[i]
  <2>1. s[i] = Packet(no, off + (i - 1) * MaxPacket, n - (i - 1) * MaxPacket)
    BY PacketsSeq
  <2>2. CASE i = 1
    <3>1. (i - 1) * MaxPacket = 0
      BY <2>2, LengthsAssumption
    <3>2. s[i] = p
      BY <2>1, <3>1
    <3>3. 1 \in 1 .. 1 + Len(t) /\ 1 <= 1
      BY <1>4
    <3> QED
      BY <1>6, <2>2, <3>2, <3>3
  <2>3. CASE i # 1
    <3> DEFINE j == i - 1
    <3>1. /\ j \in 1 .. Count(n - p.len) /\ i \in 1 .. 1 + Len(t) /\ ~(i <= 1)
          /\ 1 < Count(n)
      BY <1>3, <1>4, <1>5, <2>3
    <3>2. p.len = MaxPacket
      <4>1. n \notin 1 .. MaxPacket
        BY <3>1, OnePacket, LengthsAssumption DEF Count
      <4> QED
        BY <1>1, <4>1, LengthsAssumption DEF Least
    <3>3. t[j] = Packet(no, (off + p.len) + (j - 1) * MaxPacket,
                            (n - p.len) - (j - 1) * MaxPacket)
      BY <1>2, <3>1, PacketsSeq
    <3>4. (i - 1) * MaxPacket = MaxPacket + (j - 1) * MaxPacket
      <4>1. \A k \in Nat, m \in Nat : k * m = m + (k - 1) * m
        OBVIOUS
      <4> QED
        BY <3>1, <4>1, LengthsAssumption
    <3>5. (j - 1) * MaxPacket \in Int
      BY <3>1, LengthsAssumption
    <3>6. /\ off + (i - 1) * MaxPacket = (off + p.len) + (j - 1) * MaxPacket
          /\ n - (i - 1) * MaxPacket = (n - p.len) - (j - 1) * MaxPacket
      BY <3>2, <3>4, <3>5, LengthsAssumption
    <3> QED
      BY <1>6, <2>1, <3>1, <3>3, <3>6
  <2> QED
    BY <2>2, <2>3
<1> QED
  BY <1>3, <1>4, <1>5, <1>6, <1>7, SeqEqual

(* A sequence begun with a packet gives it back.                           *)
LEMMA HeadTailOfBegun ==
  ASSUME NEW p \in AnyPacket, NEW t \in Seq(AnyPacket)
  PROVE  /\ <<p>> \o t # <<>>
         /\ Head(<<p>> \o t) = p
         /\ Tail(<<p>> \o t) = t
<1> DEFINE s == <<p>> \o t
<1>1. <<p>> \in Seq(AnyPacket) /\ Len(<<p>>) = 1 /\ <<p>>[1] = p /\ Len(t) \in Nat
  BY SingleSeq, LenProperties
<1>2. /\ s \in Seq(AnyPacket) /\ Len(s) = 1 + Len(t)
      /\ \A i \in 1 .. 1 + Len(t) : s[i] = IF i <= 1 THEN <<p>>[i] ELSE t[i - 1]
  BY <1>1, ConcatProperties
<1>3. s # <<>>
  BY <1>1, <1>2, EmptySeq
<1>4. Head(s) = s[1] /\ Tail(s) \in Seq(AnyPacket) /\ Len(Tail(s)) = Len(s) - 1
      /\ \A i \in 1 .. Len(Tail(s)) : Tail(s)[i] = s[i + 1]
  BY <1>2, <1>3, HeadTailProperties
<1>5. s[1] = p
  BY <1>1, <1>2
<1>6. \A i \in 1 .. Len(t) : s[i + 1] = t[i]
  BY <1>1, <1>2
<1>7. Tail(s) = t
  BY <1>1, <1>2, <1>4, <1>6, SeqEqual
<1> QED
  BY <1>3, <1>4, <1>5, <1>7

-----------------------------------------------------------------------------
(* EP3 IN                                                                  *)

(* The first k blocks from block h on, and then t.                         *)
Seen(f, h, k, t) == [i \in 1 .. k |-> f[(h + i - 1) % 2]] \o t

LEMMA SeenIs ==
  ASSUME NEW f \in [Blocks -> Packet0], NEW h \in Blocks, NEW t \in Seq(AnyPacket)
  PROVE  /\ Seen(f, h, 0, t) = t
         /\ Seen(f, h, 1, t) = <<f[h]>> \o t
         /\ Seen(f, h, 2, t) = <<f[h]>> \o (<<f[1 - h]>> \o t)
<1> DEFINE e(i) == f[(h + i - 1) % 2]
           fst == f[h]
           snd == f[1 - h]
<1>1. fst \in AnyPacket /\ snd \in AnyPacket /\ 1 - h \in Blocks
  BY PacketMeaning DEF Blocks
<1>2. e(1) = fst /\ e(2) = snd
  <2>1. h = 0 \/ h = 1
    BY DEF Blocks
  <2>2. CASE h = 0
    BY <2>2
  <2>3. CASE h = 1
    BY <2>3
  <2> QED
    BY <2>1, <2>2, <2>3
<1> HIDE DEF e, fst, snd
<1>3. [i \in 1 .. 0 |-> e(i)] = <<>>
  <2>1. [i \in 1 .. 0 |-> e(i)] \in Seq(AnyPacket)
    BY IsASeq
  <2>2. Len([i \in 1 .. 0 |-> e(i)]) = 0
    BY <2>1, LenProperties
  <2> QED
    BY <2>1, <2>2, EmptySeq
<1>4. [i \in 1 .. 1 |-> e(i)] = <<fst>>
  <2>1. \A i \in 1 .. 1 : e(i) \in AnyPacket /\ e(i) = <<fst>>[i]
    BY <1>1, <1>2
  <2>2. [i \in 1 .. 1 |-> e(i)] \in Seq(AnyPacket)
    BY <2>1, IsASeq
  <2>3. Len([i \in 1 .. 1 |-> e(i)]) = 1
    BY <2>2, LenProperties
  <2> QED
    BY <1>1, <2>1, <2>2, <2>3, SingleSeq, SeqEqual
<1>5. [i \in 1 .. 2 |-> e(i)] = <<fst>> \o <<snd>>
  <2>1. \A i \in 1 .. 2 : i = 1 \/ i = 2
    OBVIOUS
  <2>2. \A i \in 1 .. 2 : e(i) \in AnyPacket
    BY <1>1, <1>2, <2>1
  <2>3. [i \in 1 .. 2 |-> e(i)] \in Seq(AnyPacket)
    BY <2>2, IsASeq
  <2>4. Len([i \in 1 .. 2 |-> e(i)]) = 2
    BY <2>3, LenProperties
  <2>5. /\ <<fst>> \o <<snd>> \in Seq(AnyPacket)
        /\ Len(<<fst>> \o <<snd>>) = 2
        /\ (<<fst>> \o <<snd>>)[1] = fst
        /\ (<<fst>> \o <<snd>>)[2] = snd
    BY <1>1, SingleSeq, ConcatProperties
  <2>6. \A i \in 1 .. 2 : e(i) = (<<fst>> \o <<snd>>)[i]
    BY <1>2, <2>1, <2>5
  <2> QED
    BY <2>3, <2>4, <2>5, <2>6, SeqEqual
<1>6. /\ Seen(f, h, 0, t) = <<>> \o t
      /\ Seen(f, h, 1, t) = <<fst>> \o t
      /\ Seen(f, h, 2, t) = (<<fst>> \o <<snd>>) \o t
  BY <1>3, <1>4, <1>5 DEF Seen, e
<1>7. (<<fst>> \o <<snd>>) \o t = <<fst>> \o (<<snd>> \o t)
  BY <1>1, SingleSeq, ConcatAssociative
<1> QED
  BY <1>6, <1>7, ConcatEmptySeq DEF fst, snd

(* The block being filled is the one behind the one in the hardware's      *)
(* hands, whether that has been sent meanwhile or not.                     *)
FillsNext == usb = "on" /\ pc = "inFill" => idx = S["in"]

LEMMA FillsNextStep ==
  ASSUME TypeOK, PhaseInv, FillsNext, [Next]_vars
  PROVE  FillsNext'
<1> SUFFICES ASSUME usb' = "on", pc' = "inFill"
             PROVE  idx' = S'["in"]
  BY DEF FillsNext
<1>1. CASE \E n \in InLens : Transmit(n)
  BY <1>1 DEF Transmit, Callable, cpuVars
<1>2. CASE InFlip
  <2>1. usb = "on" /\ idx' = idx /\ txPushed # 0 /\ txRemain # 0
    BY <1>2 DEF InFlip, Return, PhaseInv, InSide, InHeld
  <2>2. idx = 1 - S["in"] /\ S' = Flipped(S, "in")
    BY <1>2, <2>1 DEF InFlip, MoreToSend, PhaseInv, InSide, InHeld, UsedBlock
  <2> QED
    BY <2>1, <2>2, FlipFacts DEF TypeOK, RegTypes, Dirs
<1>3. CASE IrqIn \/ IrqOut
  BY <1>3 DEF IrqIn, IrqOut
<1>4. CASE InFill \/ InDone \/ OutFlip \/ OutCopy \/ OutDone
  BY <1>4 DEF InFill, InDone, OutFlip, OutCopy, OutDone, Return
<1>5. CASE HalIn \/ ResetIrq \/ Abandon \/ OpenEp
  BY <1>5 DEF HalIn, ResetIrq, Abandon, OpenEp, Callable, cpuVars
<1>6. CASE (\E m \in OutLens : PrepareReceive(m)) \/ (\E d \in Dirs : Stall(d) \/ ClearHalt(d))
  BY <1>6 DEF PrepareReceive, Stall, ClearHalt, Callable, cpuVars
<1>7. CASE WireIn \/ WireOut \/ (\E n \in OutLens : HostSend(n))
  BY <1>7 DEF WireIn, WireOut, HostSend, FillsNext, cpuVars, regVars
<1>8. CASE BusReset
  BY <1>8 DEF BusReset
<1>9. CASE UNCHANGED vars
  BY <1>9 DEF vars, cpuVars, regVars, FillsNext
<1> QED
  BY <1>1, <1>2, <1>3, <1>4, <1>5, <1>6, <1>7, <1>8, <1>9 DEF Next, Calls, Cpu, Wire

(* What the promise is about, in the states of EP3.                        *)
InInv == TypeOK /\ PhaseInv /\ NothingLeft /\ PidAgrees /\ FillsNext
InRest == Packets(txNo, txOff, txRemain)
InView == <<usb = "on", InTodo, inLast, usb = "on" /\ txBusy>>

LEMMA InTodoIs ==
  /\ usb = "on" /\ txBusy => InTodo = Seen(pma["in"], H["in"], InHands, InRest)
  /\ ~(usb = "on" /\ txBusy) => InTodo = <<>>
  BY DEF InTodo, Seen, InRest

LEMMA InTodoWillBe ==
  /\ usb' = "on" /\ txBusy' =>
       InTodo' = Seen(pma'["in"], H'["in"], InHands', Packets(txNo', txOff', txRemain'))
  /\ ~(usb' = "on" /\ txBusy') => InTodo' = <<>>
  BY DEF InTodo, Seen

LEMMA InTypes ==
  ASSUME TypeOK
  PROVE  /\ pma["in"] \in [Blocks -> Packet0]
         /\ H["in"] \in Blocks /\ S["in"] \in Blocks /\ txNo \in Blocks
         /\ txOff \in Nat /\ txRemain \in Nat /\ txPushed \in 0 .. 2
         /\ ctr["in"] \in BOOLEAN /\ txBusy \in BOOLEAN
         /\ InRest \in Seq(AnyPacket)
  BY PacketsSeq DEF TypeOK, RegTypes, TxTypes, Dirs, InRest

(* A step that touches nothing of EP3 is not seen.                         *)
LEMMA InUnseen ==
  ASSUME H'["in"] = H["in"], pma'["in"] = pma["in"], InHands' = InHands,
         UNCHANGED <<txNo, txOff, txRemain, txBusy, usb, inLast>>
  PROVE  UNCHANGED InView
<1>1. InTodo' = InTodo
  <2>1. CASE usb = "on" /\ txBusy
    BY <2>1, InTodoIs, InTodoWillBe DEF InRest
  <2>2. CASE ~(usb = "on" /\ txBusy)
    BY <2>2, InTodoIs, InTodoWillBe
  <2> QED
    BY <2>1, <2>2
<1> QED
  BY <1>1 DEF InView

LEMMA InOffBus ==
  ASSUME usb # "on", usb' # "on", inLast' = inLast
  PROVE  UNCHANGED InView
  BY InTodoIs, InTodoWillBe DEF InView

(* PMA_DB_Transmit begins a transfer, all of it.                           *)
LEMMA TransmitStarts ==
  ASSUME InInv, NEW n \in InLens, Transmit(n)
  PROVE  UNCHANGED InView \/ InPipe!Start
<1>1. /\ usb' = usb /\ inLast' = inLast /\ ~txBusy /\ txBusy' /\ ~UnderWay
      /\ txPushed = 0 /\ txRemain = 0 /\ pc = "idle"
  BY DEF Transmit, Callable, regVars, hostVars, InInv, NothingLeft, UnderWay
<1>2. CASE usb # "on"
  BY <1>1, <1>2, InOffBus
<1>3. CASE usb = "on"
  <2> DEFINE no == 1 - txNo
             h == H["in"]
             loaded == Least(n, 2 * MaxPacket)
             rest == Packets(no, loaded, n - loaded)
             p == Packet(no, 0, n)
             q == Packet(no, MaxPacket, n - MaxPacket)
  <2>1. ~Released("in") /\ ~ctr["in"] /\ H["in"] = S["in"]
    BY <1>1, <1>3 DEF InInv, PhaseInv, InSide, InHeld, Released
  <2>2. /\ n \in Nat /\ no \in Blocks /\ h \in Blocks /\ 1 - h \in Blocks /\ h # 1 - h
        /\ loaded \in Nat /\ n - loaded \in Nat
    <3>1. n \in Nat
      BY LengthsAssumption
    <3>2. no \in Blocks /\ h \in Blocks /\ 1 - h \in Blocks /\ h # 1 - h
      BY InTypes DEF InInv, Blocks
    <3> QED
      BY <3>1, <3>2, LengthsAssumption DEF Least
  <2>3. /\ H' = [H EXCEPT !["in"] = h]
        /\ pma' = [pma EXCEPT !["in"][h] = p,
                              !["in"][1 - h] = IF n > MaxPacket THEN q ELSE @]
        /\ txPushed' = IF n > MaxPacket THEN 2 ELSE 1
        /\ txOff' = loaded /\ txRemain' = n - loaded
        /\ txNo' = no /\ ctr' = ctr
    BY <1>1, <2>1 DEF Transmit, PhaseOff
  <2>4. H'["in"] = h
    BY <2>3 DEF InInv, TypeOK, RegTypes, Dirs
  <2>5. pma'["in"][h] = p /\ (n > MaxPacket => pma'["in"][1 - h] = q)
    <3>1. pma \in [Dirs -> [Blocks -> Packet0]] /\ "in" \in Dirs
      BY DEF InInv, TypeOK, RegTypes, Dirs
    <3> QED
      BY <2>2, <2>3, <3>1
  <2>6. InHands' = IF n > MaxPacket THEN 2 ELSE 1
    BY <2>1, <2>3 DEF InHands
  <2>7. p \in Packet0 /\ rest \in Seq(AnyPacket) /\ pma'["in"] \in [Blocks -> Packet0]
    <3>1. TypeOK'
      BY TransmitTypes DEF InInv
    <3> QED
      BY <2>2, <3>1, PacketFacts, PacketsSeq DEF TypeOK, RegTypes, Dirs
  <2>8. InTodo' = Seen(pma'["in"], h, InHands', rest)
    BY <1>1, <1>3, <2>3, <2>4, InTodoWillBe
  <2> HIDE DEF p, q, rest, h, no, loaded
  <2>9. InTodo' \in InTransfers
    <3>1. CASE n <= MaxPacket
      <4>1. loaded = n /\ InHands' = 1
        BY <2>2, <2>6, <3>1, LengthsAssumption DEF loaded, Least
      <4>2. InTodo' = <<p>> \o rest
        BY <2>2, <2>5, <2>7, <2>8, <4>1, SeenIs
      <4>3. CASE n = 0
        <5>1. rest = <<>>
          BY <2>2, <4>1, <4>3, NonePacked DEF rest
        <5>2. InTodo' = <<p>>
          BY <2>7, <4>2, <5>1, PacketMeaning, SingleSeq, ConcatEmptySeq
        <5>3. InTodo' = <<Packet(no, 0, 0)>>
          BY <4>3, <5>2 DEF p
        <5> QED
          BY <2>2, <5>3 DEF InTransfers
      <4>4. CASE n # 0
        <5>1. p.len = n
          BY <2>2, <3>1, LengthsAssumption DEF p, Packet, Least
        <5>2. Packets(no, 0, n) = <<p>> \o Packets(no, 0 + p.len, n - p.len)
          BY <2>2, <4>4, FirstPacked DEF p
        <5>3. Packets(no, 0, n) = <<p>> \o rest
          BY <2>2, <4>1, <5>1, <5>2 DEF rest
        <5> QED
          BY <2>2, <4>2, <4>4, <5>3 DEF InTransfers
      <4> QED
        BY <4>3, <4>4
    <3>2. CASE n > MaxPacket
      <4>1. InTodo' = <<p>> \o (<<q>> \o rest)
        <5>1. InTodo' = Seen(pma'["in"], h, 2, rest)
          BY <2>6, <2>8, <3>2
        <5>2. Seen(pma'["in"], h, 2, rest) = <<pma'["in"][h]>> \o (<<pma'["in"][1 - h]>> \o rest)
          BY <2>2, <2>7, SeenIs
        <5> QED
          BY <2>5, <3>2, <5>1, <5>2
      <4>2. p.len = MaxPacket /\ q.len = Least(n - MaxPacket, MaxPacket) /\ n # 0
            /\ n - MaxPacket \in Nat \ {0} /\ MaxPacket \in Nat
        BY <2>2, <3>2, LengthsAssumption DEF p, q, Packet, Least
      <4>3. loaded = MaxPacket + q.len /\ n - loaded = (n - MaxPacket) - q.len
        BY <2>2, <3>2, <4>2, LengthsAssumption DEF loaded, Least
      <4>4. Packets(no, 0, n) = <<p>> \o Packets(no, 0 + p.len, n - p.len)
        BY <2>2, <4>2, FirstPacked DEF p
      <4>5. Packets(no, MaxPacket, n - MaxPacket)
              = <<q>> \o Packets(no, MaxPacket + q.len, (n - MaxPacket) - q.len)
        BY <2>2, <4>2, FirstPacked DEF q
      <4>6. Packets(no, 0, n) = <<p>> \o (<<q>> \o rest)
        BY <4>2, <4>3, <4>4, <4>5 DEF rest
      <4>7. InTodo' = Packets(no, 0, n)
        BY <4>1, <4>6
      <4> QED
        BY <2>2, <4>2, <4>7 DEF InTransfers
    <3> QED
      BY <2>2, <3>1, <3>2, LengthsAssumption
  <2> QED
    BY <1>1, <1>3, <2>9 DEF InPipe!Start
<1> QED
  BY <1>2, <1>3

(* The wire moves the first of them.                                       *)
LEMMA WireInMoves ==
  ASSUME InInv, WireIn
  PROVE  InPipe!Move
<1> DEFINE h == H["in"]
           f == pma["in"]
<1>1. /\ usb = "on" /\ usb' = "on" /\ Released("in") /\ pma' = pma
      /\ UNCHANGED <<txBusy, txPushed, txNo, txOff, txRemain>>
      /\ H' = Flipped(H, "in") /\ ctr' = [ctr EXCEPT !["in"] = TRUE]
  BY DEF WireIn, txVars
<1>2. inLast' = f[h]
  BY <1>1 DEF WireIn, InInv, PidAgrees
<1>3. /\ ~ctr["in"] /\ txPushed \in {1, 2}
  BY <1>1, InTypes, RuleTwoSides DEF InInv, PhaseInv, InSide, InHeld
<1>4. txBusy /\ txBusy'
  BY <1>1, <1>3 DEF InInv, NothingLeft
<1>5. ctr'["in"] /\ H'["in"] = 1 - h
  BY <1>1, FlipFacts DEF InInv, TypeOK, RegTypes, Dirs
<1>6. InHands = txPushed /\ InHands' = txPushed - 1
  BY <1>1, <1>3, <1>5 DEF InHands
<1>7. f \in [Blocks -> Packet0] /\ h \in Blocks /\ 1 - h \in Blocks /\ InRest \in Seq(AnyPacket)
  BY InTypes DEF InInv, Blocks
<1>8. /\ InTodo = Seen(f, h, txPushed, InRest)
      /\ InTodo' = Seen(f, 1 - h, txPushed - 1, InRest)
  BY <1>1, <1>4, <1>5, <1>6, InTodoIs, InTodoWillBe DEF InRest
<1> HIDE DEF f, h
<1>9. f[h] \in AnyPacket /\ f[1 - h] \in AnyPacket
  BY <1>7, PacketMeaning
<1>10. InTodo = <<f[h]>> \o InTodo' /\ InTodo' \in Seq(AnyPacket)
  <2>1. CASE txPushed = 1
    BY <1>7, <1>8, <2>1, SeenIs
  <2>2. CASE txPushed = 2
    <3>1. InTodo = <<f[h]>> \o (<<f[1 - h]>> \o InRest)
      BY <1>7, <1>8, <2>2, SeenIs
    <3>2. InTodo' = <<f[1 - h]>> \o InRest
      <4>1. txPushed - 1 = 1
        BY <2>2
      <4>2. InTodo' = Seen(f, 1 - h, 1, InRest)
        BY <1>8, <4>1
      <4>3. Seen(f, 1 - h, 1, InRest) = <<f[1 - h]>> \o InRest
        BY <1>7, SeenIs
      <4> QED
        BY <4>2, <4>3
    <3>3. <<f[1 - h]>> \o InRest \in Seq(AnyPacket)
      BY <1>7, <1>9, SingleSeq, ConcatProperties
    <3> QED
      BY <3>1, <3>2, <3>3
  <2> QED
    BY <1>3, <2>1, <2>2
<1>11. InTodo # <<>> /\ Head(InTodo) = f[h] /\ Tail(InTodo) = InTodo'
  BY <1>9, <1>10, HeadTailOfBegun
<1> QED
  BY <1>1, <1>2, <1>4, <1>11 DEF InPipe!Move, f, h

(* The handler packs the next one behind those in the hardware's hands.    *)
LEMMA FillUnseen ==
  ASSUME InInv, InFill
  PROVE  UNCHANGED InView
<1>1. UNCHANGED <<H, S, ctr, usb, txNo, txBusy, inLast>>
  BY DEF InFill, hostVars
<1>2. CASE usb # "on"
  BY <1>1, <1>2, InOffBus
<1>3. CASE usb = "on"
  <2> DEFINE h == H["in"]
             f == pma["in"]
             g == pma'["in"]
             p == Packet(txNo, txOff, txRemain)
             rest == Packets(txNo, txOff + p.len, txRemain - p.len)
  <2>1. /\ pc = "inFill" /\ txPushed = 1 /\ txPushed' = 2 /\ txRemain # 0 /\ idx = S["in"]
        /\ Released("in") \/ ctr["in"]
        /\ ctr["in"] => ~Released("in")
    BY <1>3, RuleTwoSides
       DEF InFill, InInv, PhaseInv, InSide, InHandler, InHeld, FillsNext
  <2>2. txBusy
    BY <2>1 DEF InInv, NothingLeft
  <2>3. /\ txOff' = txOff + p.len /\ txRemain' = txRemain - p.len
        /\ pma' = [pma EXCEPT !["in"][idx] = p]
    BY DEF InFill
  <2>4. /\ f \in [Blocks -> Packet0] /\ h \in Blocks /\ idx \in Blocks /\ S["in"] \in Blocks
        /\ 1 - h \in Blocks
        /\ txNo \in Blocks /\ txOff \in Nat /\ txRemain \in Nat \ {0}
        /\ pma \in [Dirs -> [Blocks -> Packet0]] /\ "in" \in Dirs
    BY <2>1, InTypes DEF InInv, TypeOK, RegTypes, CpuTypes, Dirs, Blocks
  <2>5. p \in Packet0 /\ p.len \in Nat /\ txOff + p.len \in Nat /\ txRemain - p.len \in Nat
    <3>1. p \in Packet0 /\ p.len <= txRemain
      BY <2>4, PacketFacts
    <3>2. p.len \in Nat
      BY <3>1, LengthsAssumption DEF Packet0
    <3> HIDE DEF p
    <3> QED
      BY <2>4, <3>1, <3>2
  <2>6. /\ g \in [Blocks -> Packet0]
        /\ g[idx] = p
        /\ \A b \in Blocks \ {idx} : g[b] = f[b]
    BY <2>3, <2>4, <2>5
  <2>7. rest \in Seq(AnyPacket) /\ InRest = <<p>> \o rest /\ InRest \in Seq(AnyPacket)
    <3>1. rest \in Seq(AnyPacket)
      BY <2>4, <2>5, PacketsSeq
    <3>2. InRest = <<p>> \o rest
      BY <2>4, FirstPacked DEF InRest
    <3> QED
      BY <3>1, <3>2, InTypes DEF InInv
  <2>8. InTodo = Seen(f, h, InHands, InRest) /\ InTodo' = Seen(g, h, InHands', rest)
    BY <1>1, <1>3, <2>2, <2>3, InTodoIs, InTodoWillBe
  <2> HIDE DEF f, g, h, p, rest
  <2>9. InTodo' = InTodo
    <3>1. CASE ctr["in"]
      <4>1. idx = h /\ InHands = 0 /\ InHands' = 1
        BY <1>1, <2>1, <3>1 DEF InHands, Released, h
      <4>2. InTodo = InRest
        BY <2>4, <2>7, <2>8, <4>1, SeenIs
      <4>3. InTodo' = <<p>> \o rest
        BY <2>4, <2>6, <2>7, <2>8, <4>1, SeenIs
      <4> QED
        BY <2>7, <4>2, <4>3
    <3>2. CASE ~ctr["in"]
      <4>1. idx = 1 - h /\ idx # h /\ InHands = 1 /\ InHands' = 2
        BY <1>1, <2>1, <2>4, <3>2 DEF InHands, Released, Blocks, h
      <4>2. InTodo = <<f[h]>> \o InRest
        BY <2>4, <2>7, <2>8, <4>1, SeenIs
      <4>3. InTodo' = <<g[h]>> \o (<<g[1 - h]>> \o rest)
        BY <2>4, <2>6, <2>7, <2>8, <4>1, SeenIs
      <4>4. g[h] = f[h] /\ g[1 - h] = p
        BY <2>4, <2>6, <4>1
      <4> QED
        BY <2>7, <4>2, <4>3, <4>4
    <3> QED
      BY <3>1, <3>2
  <2> QED
    BY <1>1, <2>9 DEF InView
<1> QED
  BY <1>2, <1>3

(* A transfer is reported complete when no packet of it is left.           *)
LEMMA DoneCompletes ==
  ASSUME InInv, InDone
  PROVE  UNCHANGED InView \/ InPipe!Complete
<1>1. /\ UNCHANGED <<usb, inLast>> /\ ~txBusy' /\ pc = "inDone"
  BY DEF InDone, regVars, hostVars
<1>2. CASE usb = "on" /\ txBusy
  <2>1. txPushed = 0 /\ txRemain = 0 /\ ~ctr["in"]
    BY <1>1, <1>2 DEF InInv, PhaseInv, InSide, InHandler, InHeld
  <2>2. InHands = 0 /\ InRest = <<>>
    BY <2>1, InTypes, NonePacked DEF InHands, InRest, InInv
  <2>3. InTodo = <<>>
    BY <1>2, <2>2, InTypes, InTodoIs, SeenIs DEF InInv
  <2>4. InTodo' = <<>>
    BY <1>1, InTodoWillBe
  <2> QED
    BY <1>1, <1>2, <2>3, <2>4 DEF InPipe!Complete
<1>3. CASE ~(usb = "on" /\ txBusy)
  BY <1>1, <1>3, InTodoIs, InTodoWillBe DEF InView
<1> QED
  BY <1>2, <1>3

LEMMA InConnects ==
  ASSUME OpenEp
  PROVE  InPipe!Connect
<1>1. usb # "on" /\ usb' = "on" /\ ~txBusy' /\ inLast' = inLast
  BY DEF OpenEp, hostVars
<1>2. InTodo = <<>> /\ InTodo' = <<>>
  BY <1>1, InTodoIs, InTodoWillBe
<1> QED
  BY <1>1, <1>2 DEF InPipe!Connect

LEMMA InResets ==
  ASSUME BusReset
  PROVE  InPipe!BusReset
<1>1. usb = "on" /\ usb' # "on" /\ inLast' = inLast
  BY DEF BusReset
<1>2. InTodo' = <<>>
  BY <1>1, InTodoWillBe
<1> QED
  BY <1>1, <1>2 DEF InPipe!BusReset

(* Everything else goes on unseen.                                         *)
LEMMA RestUnseenIn ==
  ASSUME InInv,
         \/ IrqIn \/ InFlip \/ IrqOut \/ OutFlip \/ OutCopy \/ OutDone \/ ResetIrq
         \/ \E m \in OutLens : PrepareReceive(m) \/ HostSend(m)
         \/ \E d \in Dirs : Stall(d) \/ ClearHalt(d)
         \/ WireOut \/ UNCHANGED vars
  PROVE  UNCHANGED InView
<1>1. /\ H \in [Dirs -> Blocks] /\ ctr \in [Dirs -> BOOLEAN]
      /\ pma \in [Dirs -> [Blocks -> Packet0]] /\ txPushed \in 0 .. 2
  BY DEF InInv, TypeOK, RegTypes, TxTypes
<1>2. CASE IrqIn
  <2>1. /\ UNCHANGED <<H, pma, usb, txNo, txOff, txRemain, txBusy, inLast>>
        /\ ctr["in"] /\ ctr'["in"] = FALSE /\ pc = "idle"
    BY <1>1, <1>2 DEF IrqIn, hostVars, Dirs
  <2>2. CASE usb = "on"
    <3>1. txPushed # 0 /\ txPushed' = txPushed - 1
      BY <1>2, <2>1, <2>2 DEF IrqIn, InInv, PhaseInv, InSide, InHeld
    <3>2. InHands' = InHands
      BY <2>1, <3>1 DEF InHands
    <3> QED
      BY <2>1, <3>2, InUnseen
  <2>3. CASE usb # "on"
    BY <2>1, <2>3, InOffBus
  <2> QED
    BY <2>2, <2>3
<1>3. CASE InFlip \/ OutFlip
  <2>1. UNCHANGED <<H, pma, ctr, usb, txVars, inLast>>
    BY <1>3 DEF InFlip, OutFlip, hostVars
  <2> QED
    BY <2>1, InUnseen DEF InHands, txVars
<1>4. CASE IrqOut
  <2>1. UNCHANGED <<H, usb, txVars, inLast>> /\ ctr'["in"] = ctr["in"] /\ pma'["in"] = pma["in"]
    BY <1>1, <1>4 DEF IrqOut, NoCounts, hostVars, Dirs
  <2> QED
    BY <2>1, InUnseen DEF InHands, txVars
<1>5. CASE OutCopy \/ OutDone \/ (\E d \in Dirs : Stall(d) \/ ClearHalt(d)) \/ UNCHANGED vars
  <2>1. UNCHANGED <<H, pma, ctr, usb, txVars, inLast>>
    BY <1>5 DEF OutCopy, OutDone, Stall, ClearHalt, vars, regVars, hostVars
  <2> QED
    BY <2>1, InUnseen DEF InHands, txVars
<1>6. CASE ResetIrq
  BY <1>6, InOffBus DEF ResetIrq, hostVars
<1>7. CASE \E m \in OutLens : PrepareReceive(m) \/ HostSend(m)
  <2>1. UNCHANGED <<H, ctr, usb, txVars, inLast>> /\ pma'["in"] = pma["in"]
    BY <1>1, <1>7 DEF PrepareReceive, HostSend, NoCounts, regVars, hostVars, Dirs
  <2> QED
    BY <2>1, InUnseen DEF InHands, txVars
<1>8. CASE WireOut
  <2>1. /\ UNCHANGED <<usb, txVars, inLast>> /\ pma'["in"] = pma["in"]
        /\ H'["in"] = H["in"] /\ ctr'["in"] = ctr["in"]
    <3>1. CASE tog["out"] = H["out"]
      BY <1>1, <1>8, <3>1 DEF WireOut, Flipped, Dirs
    <3>2. CASE tog["out"] # H["out"]
      BY <1>1, <1>8, <3>2 DEF WireOut
    <3> QED
      BY <3>1, <3>2
  <2> QED
    BY <2>1, InUnseen DEF InHands, txVars
<1> QED
  BY <1>2, <1>3, <1>4, <1>5, <1>6, <1>7, <1>8

LEMMA InPipeStep ==
  ASSUME ~Abandons, ~OtherTraffic, InInv, [Next]_vars
  PROVE  InPipe!Next \/ UNCHANGED InView
<1>1. CASE \E n \in InLens : Transmit(n)
  BY <1>1, TransmitStarts DEF InPipe!Next
<1>2. CASE InFill \/ InDone
  BY <1>2, FillUnseen, DoneCompletes DEF InPipe!Next
<1>3. CASE OpenEp \/ BusReset
  BY <1>3, InConnects, InResets DEF InPipe!Next
<1>4. CASE WireIn
  BY <1>4, WireInMoves DEF InPipe!Next
<1>5. CASE Abandon \/ HalIn
  BY <1>5 DEF Abandon, HalIn
<1>6. CASE \/ IrqIn \/ InFlip \/ IrqOut \/ OutFlip \/ OutCopy \/ OutDone \/ ResetIrq
           \/ \E m \in OutLens : PrepareReceive(m) \/ HostSend(m)
           \/ \E d \in Dirs : Stall(d) \/ ClearHalt(d)
           \/ WireOut \/ UNCHANGED vars
  BY <1>6, RestUnseenIn
<1> QED
  BY <1>1, <1>2, <1>3, <1>4, <1>5, <1>6 DEF Next, Calls, Cpu, Wire

(* EP3 implements PacketPipe: no packet of an IN transfer is lost,         *)
(* repeated or overtaken, and completion is reported after the last one,   *)
(* as long as no transfer is given up half-way, the HAL takes none of this *)
(* layer's interrupts and no halt is cleared with block 1 next.            *)
THEOREM InRefinesPipe ==
  ~Abandons /\ ~OtherTraffic /\ HaltPolicy # "any" => (Spec => InImplementsPipe)
<1> SUFFICES ASSUME ~Abandons, ~OtherTraffic, HaltPolicy # "any"
             PROVE  Spec => InImplementsPipe
  OBVIOUS
<1>1. Init => NothingLeft /\ FillsNext /\ InPipe!Init
  BY DEF Init, NothingLeft, FillsNext, InPipe!Init, InTodo
<1>2. TypeOK /\ PhaseInv /\ NothingLeft /\ FillsNext /\ [Next]_vars
        => NothingLeft' /\ FillsNext'
  BY NothingLeftStep, FillsNextStep
<1>3. /\ TypeOK /\ PhaseInv /\ NothingLeft /\ FillsNext /\ PidAgrees
      /\ [Next]_vars
      => [InPipe!Next]_(InPipe!vars)
  BY InPipeStep DEF InInv, InView, InPipe!vars
<1> QED
  BY <1>1, <1>2, <1>3, TypeCorrect, PhaseCorrect, PidsAgree, PTL
     DEF Spec, InImplementsPipe, InPipe!Spec

-----------------------------------------------------------------------------
(* EP2 OUT                                                                 *)

(* Nothing of what the host has sent is missing, and a packet that ends    *)
(* the transfer for the handler is the last one the host had to send.      *)
OutExact ==
  usb = "on" =>
    /\ hBusy /\ hOff > 0 => Taken = hOff
    /\ ctr["out"] /\ Waiting < MaxPacket => hOff = hLen
    /\ pc \in {"outFlip", "outCopy"} /\ last => hOff = hLen
    /\ pc = "outDone" => hOff = hLen

OutPcs == {"outFlip", "outCopy", "outDone"}

LEMMA OutTypes ==
  ASSUME TypeOK
  PROVE  /\ pma["out"] \in [Blocks -> Packet0] /\ UsedBlock("out") \in Blocks
         /\ H["out"] \in Blocks /\ S["out"] \in Blocks /\ idx \in Blocks /\ hNo \in Blocks
         /\ rxCount \in Nat /\ rxSize \in Nat /\ cnt \in Nat /\ hOff \in Nat /\ hLen \in Nat
         /\ InCopy \in Nat /\ Waiting \in Nat
         /\ last \in BOOLEAN /\ hBusy \in BOOLEAN /\ ctr["out"] \in BOOLEAN
<1>1. /\ pma["out"] \in [Blocks -> Packet0] /\ UsedBlock("out") \in Blocks
      /\ H["out"] \in Blocks /\ S["out"] \in Blocks /\ ctr["out"] \in BOOLEAN
  BY UsedBlockType DEF TypeOK, RegTypes, Dirs
<1>2. /\ idx \in Blocks /\ hNo \in Blocks
      /\ rxCount \in Nat /\ rxSize \in Nat /\ cnt \in Nat /\ hOff \in Nat /\ hLen \in Nat
      /\ last \in BOOLEAN /\ hBusy \in BOOLEAN
  BY DEF TypeOK, RxTypes, CpuTypes, HostTypes
<1>3. Waiting \in Nat
  BY <1>1, LengthsAssumption DEF Waiting, Packet0
<1>4. InCopy \in Nat
  BY <1>2 DEF InCopy
<1> QED
  BY <1>1, <1>2, <1>3, <1>4

LEMMA ExactFrame ==
  ASSUME OutExact, S'["out"] = S["out"], ctr'["out"] = ctr["out"], pma'["out"] = pma["out"],
         UNCHANGED <<rxCount, hBusy, hLen, hOff, usb>>,
         UNCHANGED cpuVars \/ {pc, pc'} \cap OutPcs = {}
  PROVE  OutExact'
<1>1. Waiting' = Waiting
  BY DEF Waiting, UsedBlock
<1>2. InCopy' = InCopy
  BY DEF InCopy, cpuVars, OutPcs
<1>3. Taken' = Taken
  BY <1>1, <1>2 DEF Taken
<1> QED
  BY <1>1, <1>3 DEF OutExact, cpuVars, OutPcs

(* What a packet from the host does to the registers and the counts.       *)
LEMMA WireOutFacts ==
  ASSUME TypeOK, PhaseInv, PidAgrees, WireOut,
         NEW p, p = Packet(hNo, hOff, hLen - hOff)
  PROVE  /\ usb = "on" /\ hBusy /\ ~ctr["out"] /\ pc # "outFlip" /\ pc # "outDone"
         /\ UNCHANGED <<S, usb, txVars, rxVars, cpuVars, hNo, hLen, hBusy>>
         /\ hLen - hOff \in Nat \ {0} /\ p \in Packet0 /\ p.len \in Nat /\ p.len <= hLen - hOff
         /\ p.len < MaxPacket => p.len = hLen - hOff
         /\ hOff' = hOff + p.len
         /\ ctr'["out"] /\ UsedBlock("out")' = H["out"]
         /\ pma'["out"][H["out"]] = p
         /\ pma'["out"][1 - H["out"]] = pma["out"][1 - H["out"]]
         /\ pc = "outCopy" => idx = 1 - H["out"] /\ ~last
         /\ Waiting = 0 /\ Waiting' = p.len /\ Taken <= hOff /\ hLen <= rxSize
<1>1. /\ usb = "on" /\ Released("out") /\ hBusy /\ hOff < hLen /\ hOff' = hOff + p.len
      /\ UNCHANGED <<S, usb, txVars, rxVars, cpuVars, hNo, hBusy, hLen>>
  BY DEF WireOut
<1>2. hLen - hOff \in Nat \ {0}
  BY <1>1, OutTypes
<1>3. p \in Packet0 /\ p.len <= hLen - hOff
  BY <1>2, OutTypes, PacketFacts
<1>4. p.len \in Nat
  BY <1>3, LengthsAssumption DEF Packet0
<1>5. p.len < MaxPacket => p.len = hLen - hOff
  <2>1. p.len = Least(hLen - hOff, MaxPacket)
    BY DEF Packet
  <2> QED
    BY <1>2, <2>1, LengthsAssumption DEF Least
<1>6. /\ ~ctr["out"] /\ pc # "outFlip" /\ pc # "outDone"
      /\ pc = "outCopy" => idx = S["out"] /\ ~last
  BY <1>1, RuleTwoSides DEF PhaseInv, OutSide, OutHeld
<1>7. S["out"] = 1 - H["out"] /\ H["out"] # 1 - H["out"] /\ 1 - H["out"] \in Blocks
  BY <1>1, OutTypes DEF Released, Blocks
<1>8. /\ pma' = [pma EXCEPT !["out"][H["out"]] = p] /\ H' = Flipped(H, "out")
      /\ ctr' = [ctr EXCEPT !["out"] = TRUE]
  BY <1>1 DEF WireOut, PidAgrees
<1>9. /\ ctr'["out"] /\ pma'["out"][H["out"]] = p
      /\ pma'["out"][1 - H["out"]] = pma["out"][1 - H["out"]]
  BY <1>7, <1>8, OutTypes DEF TypeOK, RegTypes, Dirs
<1>10. UsedBlock("out")' = H["out"]
  BY <1>1, <1>7, OutTypes DEF UsedBlock, Blocks
<1>11. Waiting = 0 /\ Waiting' = p.len
  BY <1>6, <1>9, <1>10 DEF Waiting
<1>12. Taken <= hOff /\ hLen <= rxSize
  BY <1>1 DEF PhaseInv, OutSide, OutRoom
<1> QED
  BY <1>1, <1>2, <1>3, <1>4, <1>5, <1>6, <1>7, <1>9, <1>10, <1>11, <1>12

LEMMA WireOutExact ==
  ASSUME TypeOK, PhaseInv, PidAgrees, OutExact, WireOut
  PROVE  OutExact'
<1> DEFINE p == Packet(hNo, hOff, hLen - hOff)
<1>1. /\ usb = "on" /\ hBusy /\ pc # "outFlip" /\ pc # "outDone"
      /\ UNCHANGED <<rxVars, cpuVars, hLen>>
      /\ p.len \in Nat /\ (p.len < MaxPacket => p.len = hLen - hOff)
      /\ hOff' = hOff + p.len
      /\ pc = "outCopy" => ~last
      /\ Waiting = 0 /\ Waiting' = p.len /\ Taken <= hOff
  BY WireOutFacts
<1> HIDE DEF p
<1>2. InCopy' = InCopy
  BY <1>1 DEF InCopy, cpuVars
<1>3. Taken = hOff
  <2>1. Taken = rxCount + InCopy
    BY <1>1, OutTypes DEF Taken
  <2>2. CASE hOff = 0
    BY <1>1, <2>1, <2>2, OutTypes
  <2>3. CASE hOff # 0
    BY <1>1, <2>3, OutTypes DEF OutExact
  <2> QED
    BY <2>2, <2>3
<1>4. Taken' = hOff'
  BY <1>1, <1>2, <1>3, OutTypes DEF Taken, rxVars
<1>5. Waiting' < MaxPacket => hOff' = hLen'
  BY <1>1, OutTypes
<1> QED
  BY <1>1, <1>4, <1>5 DEF OutExact, cpuVars

LEMMA OutHandlerExact ==
  ASSUME TypeOK, PhaseInv, OutExact, IrqOut \/ OutFlip \/ OutCopy \/ OutDone
  PROVE  OutExact'
<1>1. usb' = usb
  BY DEF IrqOut, OutFlip, OutCopy, OutDone, regVars
<1> SUFFICES ASSUME usb = "on"
             PROVE  OutExact'
  BY <1>1 DEF OutExact
<1>2. CASE IrqOut
  <2>1. /\ pc = "idle" /\ ctr["out"] /\ rxOn /\ hBusy /\ hOff > 0
        /\ hLen <= rxSize /\ Taken <= rxSize /\ hOff <= hLen
        /\ Waiting = pma["out"][UsedBlock("out")].len
    BY <1>2 DEF IrqOut, PhaseInv, OutSide, OutHeld, OutRoom, Waiting
  <2>2. /\ ~ctr'["out"] /\ cnt' = Waiting /\ pc' = "outFlip" /\ last' = Done(Waiting)
        /\ UNCHANGED <<rxVars, hostVars>>
    BY <1>2, <2>1 DEF IrqOut, TypeOK, RegTypes, Dirs
  <2>3. InCopy = 0 /\ InCopy' = Waiting /\ Waiting' = 0
    BY <2>1, <2>2 DEF InCopy, Waiting
  <2>4. Taken' = Taken /\ Taken = hOff /\ Taken = rxCount + Waiting
    BY <2>1, <2>2, <2>3, OutTypes DEF Taken, OutExact, rxVars
  <2>5. last' => hOff = hLen
    <3>1. CASE Waiting < MaxPacket
      BY <2>1, <3>1 DEF OutExact
    <3>2. CASE rxCount + Waiting >= rxSize
      <4>1. \A a, b, c \in Nat : a >= b /\ c <= b /\ a <= c => a = c
        OBVIOUS
      <4>2. hOff >= rxSize
        BY <2>4, <3>2
      <4> QED
        BY <2>1, <4>1, <4>2, OutTypes
    <3> QED
      BY <2>2, <3>1, <3>2 DEF Done
  <2> QED
    BY <2>1, <2>2, <2>4, <2>5 DEF OutExact, hostVars
<1>3. CASE OutFlip
  <2>1. /\ UNCHANGED <<ctr, pma, rxVars, idx, cnt, last, hostVars>>
        /\ pc = "outFlip" /\ pc' = "outCopy" /\ ~ctr["out"]
    BY <1>3 DEF OutFlip, PhaseInv, OutSide, OutHandler
  <2>2. Taken' = Taken
    BY <2>1 DEF Taken, InCopy, Waiting, rxVars
  <2> QED
    BY <2>1, <2>2 DEF OutExact, hostVars
<1>4. CASE OutCopy
  <2>1. /\ UNCHANGED <<S, ctr, pma, hostVars>>
        /\ pc = "outCopy" /\ rxCount' = rxCount + cnt
        /\ \/ last /\ pc' = "outDone"
           \/ ~last /\ pc' = "idle"
    BY <1>4 DEF OutCopy, Return, regVars
  <2>2. InCopy = cnt /\ InCopy' = 0 /\ Waiting' = Waiting
    BY <2>1 DEF InCopy, Waiting, UsedBlock
  <2>3. Taken' = Taken
    BY <2>1, <2>2, OutTypes DEF Taken
  <2> QED
    BY <2>1, <2>2, <2>3 DEF OutExact, hostVars
<1>5. CASE OutDone
  <2>1. ~hBusy' /\ pc' = "idle" /\ ~ctr'["out"]
    BY <1>5 DEF OutDone, Return, regVars, PhaseInv, OutSide, OutHeld
  <2> QED
    BY <2>1 DEF OutExact
<1> QED
  BY <1>2, <1>3, <1>4, <1>5

(* The steps of EP3 and the calls that only look at EP2.                   *)
LEMMA OutAloof ==
  ASSUME TypeOK,
         \/ \E n \in InLens : Transmit(n)
         \/ IrqIn \/ InFlip \/ InFill \/ InDone \/ HalIn \/ WireIn
         \/ \E d \in Dirs : Stall(d) \/ ClearHalt(d)
         \/ Abandon \/ UNCHANGED vars
  PROVE  /\ S'["out"] = S["out"] /\ ctr'["out"] = ctr["out"] /\ pma'["out"] = pma["out"]
         /\ UNCHANGED <<rxVars, rxCount, rxLast, hBusy, hNo, hLen, hOff, usb>>
         /\ UNCHANGED cpuVars \/ {pc, pc'} \cap OutPcs = {}
<1>1. /\ S \in [Dirs -> Blocks] /\ ctr \in [Dirs -> BOOLEAN]
      /\ pma \in [Dirs -> [Blocks -> Packet0]]
  BY DEF TypeOK, RegTypes
<1>2. CASE \E n \in InLens : Transmit(n)
  <2>1. PICK n \in InLens : Transmit(n)
    BY <1>2
  <2>2. UNCHANGED <<ctr, usb, rxVars, cpuVars, hostVars>>
    BY <2>1 DEF Transmit
  <2>3. CASE UnderWay
    BY <2>1, <2>2, <2>3 DEF Transmit, rxVars, hostVars
  <2>4. CASE ~UnderWay
    <3>1. S'["out"] = S["out"] /\ pma'["out"] = pma["out"]
      BY <1>1, <2>1, <2>4 DEF Transmit, Dirs
    <3> QED
      BY <2>2, <3>1 DEF rxVars, hostVars
  <2> QED
    BY <2>3, <2>4
<1>3. CASE IrqIn
  BY <1>1, <1>3 DEF IrqIn, rxVars, hostVars, OutPcs, Dirs
<1>4. CASE InFlip
  <2>1. S'["out"] = S["out"]
    BY <1>1, <1>4, FlipFacts DEF InFlip, Dirs
  <2>2. {pc, pc'} \cap OutPcs = {}
    BY <1>4 DEF InFlip, Return, OutPcs
  <2> QED
    BY <1>4, <2>1, <2>2 DEF InFlip, rxVars, hostVars
<1>5. CASE InFill
  BY <1>1, <1>5 DEF InFill, Return, rxVars, hostVars, OutPcs, Dirs
<1>6. CASE InDone
  BY <1>6 DEF InDone, Return, regVars, rxVars, hostVars, OutPcs
<1>7. CASE HalIn
  <2>1. S'["out"] = S["out"] /\ ctr'["out"] = ctr["out"] /\ pma'["out"] = pma["out"]
    BY <1>1, <1>7, FlipFacts DEF HalIn, Dirs
  <2> QED
    BY <1>7, <2>1 DEF HalIn, rxVars, hostVars
<1>8. CASE WireIn
  BY <1>1, <1>8 DEF WireIn, rxVars, Dirs
<1>9. CASE (\E d \in Dirs : Stall(d) \/ ClearHalt(d)) \/ Abandon \/ UNCHANGED vars
  BY <1>9 DEF Stall, ClearHalt, Abandon, vars, regVars, rxVars, hostVars
<1> QED
  BY <1>2, <1>3, <1>4, <1>5, <1>6, <1>7, <1>8, <1>9

LEMMA OutExactStep ==
  ASSUME TypeOK, PhaseInv, PidAgrees, OutExact, [Next]_vars
  PROVE  OutExact'
<1>1. CASE IrqOut \/ OutFlip \/ OutCopy \/ OutDone
  BY <1>1, OutHandlerExact
<1>2. CASE WireOut
  BY <1>2, WireOutExact
<1>3. CASE \E n \in OutLens : HostSend(n)
  <2>1. /\ usb = "on" /\ ~hBusy /\ hOff' = 0 /\ UNCHANGED <<ctr, cpuVars>>
    BY <1>3 DEF HostSend, regVars
  <2>2. ~ctr["out"] /\ pc \notin OutPcs
    BY <2>1 DEF PhaseInv, OutSide, OutHeld, OutPcs
  <2> QED
    BY <2>1, <2>2 DEF OutExact, OutPcs, cpuVars
<1>4. CASE \E m \in OutLens : PrepareReceive(m)
  <2>1. /\ pc = "idle" /\ ~MidTransfer /\ UNCHANGED <<ctr, usb, cpuVars, hostVars>>
    BY <1>4 DEF PrepareReceive, Callable
  <2>2. usb = "on" => ~ctr["out"]
    BY <2>1 DEF PhaseInv, OutSide, OutHeld, MidTransfer
  <2> QED
    BY <2>1, <2>2 DEF OutExact, MidTransfer, cpuVars, hostVars
<1>5. CASE OpenEp
  <2>1. /\ pc' = "idle" /\ ~hBusy' /\ ~ctr'["out"]
    BY <1>5 DEF OpenEp, Callable, cpuVars, hostVars, PhaseInv, OffBus
  <2> QED
    BY <2>1 DEF OutExact
<1>6. CASE BusReset \/ ResetIrq
  BY <1>6 DEF BusReset, ResetIrq, OutExact
<1>7. CASE \/ \E n \in InLens : Transmit(n)
           \/ IrqIn \/ InFlip \/ InFill \/ InDone \/ HalIn \/ WireIn
           \/ \E d \in Dirs : Stall(d) \/ ClearHalt(d)
           \/ Abandon \/ UNCHANGED vars
  BY <1>7, OutAloof, ExactFrame
<1> QED
  BY <1>1, <1>2, <1>3, <1>4, <1>5, <1>6, <1>7 DEF Next, Calls, Cpu, Wire

(* What the promise is about, in the states of EP2: the packet being       *)
(* copied, the one that waits for its interrupt, those the host has still. *)
OutInv == TypeOK /\ PhaseInv /\ PidAgrees /\ OutExact
Copying == IF pc \in {"outFlip", "outCopy"} THEN <<pma["out"][idx]>> ELSE <<>>
Arrived == IF ctr["out"] THEN <<pma["out"][UsedBlock("out")]>> ELSE <<>>
OutRest == Packets(hNo, hOff, hLen - hOff)
OutView == <<usb = "on", OutTodo, rxLast, hBusy>>

LEMMA OutTodoIs ==
  /\ usb = "on" /\ hBusy => OutTodo = (Copying \o Arrived) \o OutRest
  /\ ~(usb = "on" /\ hBusy) => OutTodo = <<>>
  BY DEF OutTodo, Copying, Arrived, OutRest

LEMMA OutTodoWillBe ==
  /\ usb' = "on" /\ hBusy' =>
       OutTodo' = (Copying' \o Arrived') \o Packets(hNo', hOff', hLen' - hOff')
  /\ ~(usb' = "on" /\ hBusy') => OutTodo' = <<>>
  BY DEF OutTodo, Copying, Arrived

LEMMA OutSeqs ==
  ASSUME TypeOK, hOff <= hLen
  PROVE  /\ Copying \in Seq(AnyPacket) /\ Arrived \in Seq(AnyPacket)
         /\ Copying \o Arrived \in Seq(AnyPacket) /\ OutRest \in Seq(AnyPacket)
<1>1. \A b \in Blocks : pma["out"][b] \in AnyPacket
  BY OutTypes, PacketMeaning
<1>2. <<>> \in Seq(AnyPacket)
  BY EmptySeq
<1>3. Copying \in Seq(AnyPacket)
  BY <1>1, <1>2, OutTypes, SingleSeq DEF Copying
<1>4. Arrived \in Seq(AnyPacket)
  BY <1>1, <1>2, OutTypes, SingleSeq DEF Arrived
<1>5. hLen - hOff \in Nat
  BY OutTypes
<1>6. OutRest \in Seq(AnyPacket)
  BY <1>5, OutTypes, PacketsSeq DEF OutRest
<1> QED
  BY <1>3, <1>4, <1>6, ConcatProperties

LEMMA OutUnseen ==
  ASSUME Copying' = Copying, Arrived' = Arrived,
         UNCHANGED <<hNo, hOff, hLen, hBusy, usb, rxLast>>
  PROVE  UNCHANGED OutView
<1>1. OutTodo' = OutTodo
  <2>1. CASE usb = "on" /\ hBusy
    BY <2>1, OutTodoIs, OutTodoWillBe DEF OutRest
  <2>2. CASE ~(usb = "on" /\ hBusy)
    BY <2>2, OutTodoIs, OutTodoWillBe
  <2> QED
    BY <2>1, <2>2
<1> QED
  BY <1>1 DEF OutView

LEMMA OutOffBus ==
  ASSUME usb # "on", usb' # "on", rxLast' = rxLast, hBusy' = hBusy
  PROVE  UNCHANGED OutView
  BY OutTodoIs, OutTodoWillBe DEF OutView

(* The host begins a transfer, all of it.                                  *)
LEMMA HostSendStarts ==
  ASSUME OutInv, NEW n \in OutLens, HostSend(n)
  PROVE  OutPipe!Start
<1>1. /\ usb = "on" /\ usb' = "on" /\ ~hBusy /\ hBusy' /\ hNo' = 1 - hNo /\ hLen' = n /\ hOff' = 0
      /\ UNCHANGED <<pc, ctr, rxLast>>
      /\ n \in Nat /\ 1 - hNo \in Blocks
  <2>1. 1 - hNo \in Blocks
    BY OutTypes DEF OutInv, Blocks
  <2> QED
    BY <2>1, LengthsAssumption DEF HostSend, regVars, cpuVars, rxVars
<1>2. ~ctr["out"] /\ pc \notin {"outFlip", "outCopy"}
  BY <1>1 DEF OutInv, PhaseInv, OutSide, OutHeld
<1>3. Copying' = <<>> /\ Arrived' = <<>>
  BY <1>1, <1>2 DEF Copying, Arrived
<1>4. hLen' - hOff' = n
  BY <1>1
<1>5. OutTodo' = (<<>> \o <<>>) \o Packets(1 - hNo, 0, n)
  BY <1>1, <1>3, <1>4, OutTodoWillBe
<1>6. Packets(1 - hNo, 0, n) \in Seq(AnyPacket)
  BY <1>1, PacketsSeq
<1>7. OutTodo' = Packets(1 - hNo, 0, n)
  BY <1>5, <1>6, EmptySeq, ConcatEmptySeq
<1>8. OutTodo' \in OutTransfers
  BY <1>1, <1>7 DEF OutTransfers
<1> QED
  BY <1>1, <1>8 DEF OutPipe!Start

(* A packet on the wire goes from the host into the block that waits.      *)
LEMMA WireOutUnseen ==
  ASSUME OutInv, WireOut
  PROVE  UNCHANGED OutView
<1> DEFINE p == Packet(hNo, hOff, hLen - hOff)
           rest == Packets(hNo, hOff + p.len, (hLen - hOff) - p.len)
<1>1. /\ usb = "on" /\ hBusy /\ ~ctr["out"] /\ pc # "outFlip"
      /\ UNCHANGED <<usb, rxLast, pc, idx, hNo, hLen, hBusy>>
      /\ hLen - hOff \in Nat \ {0} /\ p \in Packet0 /\ p.len \in Nat /\ p.len <= hLen - hOff
      /\ hOff' = hOff + p.len
      /\ ctr'["out"] /\ UsedBlock("out")' = H["out"]
      /\ pma'["out"][H["out"]] = p
      /\ pma'["out"][1 - H["out"]] = pma["out"][1 - H["out"]]
      /\ pc = "outCopy" => idx = 1 - H["out"]
  BY WireOutFacts DEF OutInv, rxVars, cpuVars
<1>2. hNo \in Blocks /\ hOff \in Nat /\ hLen \in Nat
  BY OutTypes DEF OutInv
<1>3. OutRest = <<p>> \o rest
  BY <1>1, <1>2, FirstPacked DEF OutRest
<1>4. hLen' - hOff' = (hLen - hOff) - p.len /\ hOff + p.len \in Nat
      /\ (hLen - hOff) - p.len \in Nat
  <2> HIDE DEF p
  <2> QED
    BY <1>1, <1>2
<1>5. rest \in Seq(AnyPacket) /\ p \in AnyPacket
  BY <1>1, <1>2, <1>4, PacketsSeq, PacketMeaning
<1>6. OutTodo' = (Copying' \o Arrived') \o rest
  BY <1>1, <1>4, OutTodoWillBe
<1> HIDE DEF p, rest
<1>7. Arrived = <<>> /\ Arrived' = <<p>> /\ Copying' = Copying
  BY <1>1 DEF Arrived, Copying
<1>8. Copying \in Seq(AnyPacket)
  <2>1. hOff <= hLen
    BY <1>1 DEF OutInv, PhaseInv, OutSide, OutRoom
  <2> QED
    BY <2>1, OutSeqs DEF OutInv
<1>9. OutTodo = (Copying \o <<>>) \o (<<p>> \o rest)
  BY <1>1, <1>3, <1>7, OutTodoIs
<1>10. (Copying \o <<p>>) \o rest = Copying \o (<<p>> \o rest)
  BY <1>5, <1>8, SingleSeq, ConcatAssociative
<1>11. OutTodo' = OutTodo
  BY <1>6, <1>7, <1>8, <1>9, <1>10, ConcatEmptySeq
<1> QED
  BY <1>1, <1>11 DEF OutView

(* The interrupt takes the packet that waits and begins to copy it.        *)
LEMMA IrqOutUnseen ==
  ASSUME OutInv, IrqOut
  PROVE  UNCHANGED OutView
<1>1. UNCHANGED <<usb, rxLast, hNo, hOff, hLen, hBusy>>
  BY DEF IrqOut, rxVars, hostVars
<1>2. CASE usb # "on"
  BY <1>1, <1>2, OutOffBus
<1>3. CASE usb = "on"
  <2> DEFINE p == pma["out"][UsedBlock("out")]
  <2>1. pc = "idle" /\ ctr["out"] /\ rxOn /\ hBusy /\ hOff <= hLen
    BY <1>3 DEF IrqOut, OutInv, PhaseInv, OutSide, OutHeld, OutRoom
  <2>2. ~ctr'["out"] /\ idx' = UsedBlock("out") /\ pc' = "outFlip" /\ pma' = pma
    BY <2>1 DEF IrqOut, OutInv, TypeOK, RegTypes, Dirs
  <2>3. Copying = <<>> /\ Arrived = <<p>> /\ Copying' = <<p>> /\ Arrived' = <<>>
    BY <2>1, <2>2 DEF Copying, Arrived
  <2>4. p \in AnyPacket
    BY OutTypes, PacketMeaning DEF OutInv
  <2>5. OutTodo = (<<>> \o <<p>>) \o OutRest /\ OutTodo' = (<<p>> \o <<>>) \o OutRest
    BY <1>1, <1>3, <2>1, <2>3, OutTodoIs, OutTodoWillBe DEF OutRest
  <2> HIDE DEF p
  <2>6. OutTodo' = OutTodo
    BY <2>4, <2>5, SingleSeq, ConcatEmptySeq
  <2> QED
    BY <1>1, <2>6 DEF OutView
<1> QED
  BY <1>2, <1>3

(* Copied out of packet memory, a packet has been handed over.             *)
LEMMA CopyMoves ==
  ASSUME OutInv, OutCopy
  PROVE  UNCHANGED OutView \/ OutPipe!Move
<1>1. UNCHANGED <<usb, pma, ctr, S, hNo, hOff, hLen, hBusy>> /\ pc = "outCopy"
      /\ pc' \notin {"outFlip", "outCopy"}
  BY DEF OutCopy, Return, regVars, hostVars
<1>2. CASE usb # "on"
  <2>1. rxLast' = rxLast
    BY <1>2 DEF OutCopy
  <2> QED
    BY <1>1, <1>2, <2>1, OutOffBus
<1>3. CASE usb = "on"
  <2> DEFINE p == pma["out"][idx]
             t == Arrived \o OutRest
  <2>1. hBusy /\ hOff <= hLen /\ rxLast' = p
    BY <1>1, <1>3 DEF OutCopy, OutInv, PhaseInv, OutSide, OutHeld, OutRoom
  <2>2. Copying = <<p>> /\ Copying' = <<>> /\ Arrived' = Arrived
    BY <1>1 DEF Copying, Arrived, UsedBlock
  <2>3. p \in AnyPacket
    BY OutTypes, PacketMeaning DEF OutInv
  <2>4. Arrived \in Seq(AnyPacket) /\ OutRest \in Seq(AnyPacket)
    BY <2>1, OutSeqs DEF OutInv
  <2>5. t \in Seq(AnyPacket)
    BY <2>4, ConcatProperties
  <2>6. /\ OutTodo = (<<p>> \o Arrived) \o OutRest
        /\ OutTodo' = (<<>> \o Arrived) \o OutRest
    BY <1>1, <1>3, <2>1, <2>2, OutTodoIs, OutTodoWillBe DEF OutRest
  <2> HIDE DEF p
  <2>7. OutTodo = <<p>> \o t
    BY <2>3, <2>4, <2>6, SingleSeq, ConcatAssociative
  <2>8. OutTodo' = t
    BY <2>4, <2>6, ConcatEmptySeq
  <2> HIDE DEF t
  <2>9. OutTodo # <<>> /\ Head(OutTodo) = p /\ Tail(OutTodo) = t
    BY <2>3, <2>5, <2>7, HeadTailOfBegun
  <2> QED
    BY <1>1, <2>1, <2>8, <2>9 DEF OutPipe!Move
<1> QED
  BY <1>2, <1>3

(* The transfer is reported complete when no packet of it is left.         *)
LEMMA OutDoneCompletes ==
  ASSUME OutInv, OutDone
  PROVE  UNCHANGED OutView \/ OutPipe!Complete
<1>1. UNCHANGED <<usb, rxLast>> /\ hBusy' = FALSE /\ pc = "outDone"
  BY DEF OutDone, regVars, rxVars
<1>2. CASE usb # "on"
  <2>1. hBusy = FALSE
    <3>1. ~hBusy /\ hBusy \in BOOLEAN
      BY <1>2, OutTypes DEF OutInv, PhaseInv, OffBus
    <3> QED
      BY <3>1
  <2> QED
    BY <1>1, <1>2, <2>1, OutOffBus
<1>3. CASE usb = "on"
  <2>1. hBusy /\ ~ctr["out"] /\ hOff = hLen
    BY <1>1, <1>3 DEF OutInv, OutExact, PhaseInv, OutSide, OutHeld
  <2>2. Copying = <<>> /\ Arrived = <<>>
    BY <1>1, <2>1 DEF Copying, Arrived
  <2>3. OutRest = <<>>
    <3>1. hLen - hOff = 0
      BY <2>1, OutTypes DEF OutInv
    <3> QED
      BY <3>1, OutTypes, NonePacked DEF OutInv, OutRest
  <2>4. OutTodo = <<>>
    BY <1>3, <2>1, <2>2, <2>3, OutTodoIs, EmptySeq, ConcatEmptySeq
  <2>5. OutTodo' = <<>>
    BY <1>1, OutTodoWillBe
  <2> QED
    BY <1>1, <2>1, <2>4, <2>5 DEF OutPipe!Complete
<1> QED
  BY <1>2, <1>3

(* Nothing waits in packet memory when a buffer is prepared.               *)
LEMMA PrepareUnseen ==
  ASSUME OutInv, NEW m \in OutLens, PrepareReceive(m)
  PROVE  UNCHANGED OutView
<1>1. /\ UNCHANGED <<ctr, usb, pc, rxLast, hNo, hOff, hLen, hBusy>>
      /\ pc = "idle" /\ ~MidTransfer
  BY DEF PrepareReceive, Callable, cpuVars, hostVars
<1>2. CASE usb # "on"
  BY <1>1, <1>2, OutOffBus
<1>3. CASE usb = "on"
  <2>1. ~ctr["out"]
    BY <1>1, <1>3 DEF OutInv, PhaseInv, OutSide, OutHeld, MidTransfer
  <2>2. Copying' = Copying /\ Arrived' = Arrived
    BY <1>1, <2>1 DEF Copying, Arrived
  <2> QED
    BY <1>1, <2>2, OutUnseen
<1> QED
  BY <1>2, <1>3

LEMMA OutFlipUnseen ==
  ASSUME OutInv, OutFlip
  PROVE  UNCHANGED OutView
<1>1. /\ UNCHANGED <<ctr, pma, idx, usb, rxLast, hNo, hOff, hLen, hBusy>>
      /\ pc = "outFlip" /\ pc' = "outCopy" /\ ~ctr["out"]
  BY DEF OutFlip, rxVars, hostVars, OutInv, PhaseInv, OutSide, OutHandler
<1>2. Copying' = Copying /\ Arrived' = Arrived
  BY <1>1 DEF Copying, Arrived
<1> QED
  BY <1>1, <1>2, OutUnseen

LEMMA AloofUnseen ==
  ASSUME OutInv,
         \/ \E n \in InLens : Transmit(n)
         \/ IrqIn \/ InFlip \/ InFill \/ InDone \/ HalIn \/ WireIn
         \/ \E d \in Dirs : Stall(d) \/ ClearHalt(d)
         \/ Abandon \/ UNCHANGED vars
  PROVE  UNCHANGED OutView
<1>1. /\ S'["out"] = S["out"] /\ ctr'["out"] = ctr["out"] /\ pma'["out"] = pma["out"]
      /\ UNCHANGED <<rxLast, hBusy, hNo, hLen, hOff, usb>>
      /\ UNCHANGED cpuVars \/ {pc, pc'} \cap OutPcs = {}
  BY OutAloof DEF OutInv
<1>2. Copying' = Copying /\ Arrived' = Arrived
  BY <1>1 DEF Copying, Arrived, UsedBlock, OutPcs, cpuVars
<1> QED
  BY <1>1, <1>2, OutUnseen

LEMMA OutBusSteps ==
  ASSUME OutInv
  PROVE  /\ OpenEp => OutPipe!Connect
         /\ BusReset => OutPipe!BusReset
         /\ ResetIrq => UNCHANGED OutView
<1>1. ASSUME OpenEp
      PROVE  OutPipe!Connect
  <2>1. usb # "on" /\ usb' = "on" /\ ~hBusy /\ UNCHANGED <<hBusy, rxLast>>
    BY <1>1 DEF OpenEp, hostVars, OutInv, PhaseInv, OffBus
  <2>2. OutTodo = <<>> /\ OutTodo' = <<>>
    BY <2>1, OutTodoIs, OutTodoWillBe
  <2> QED
    BY <2>1, <2>2 DEF OutPipe!Connect
<1>2. ASSUME BusReset
      PROVE  OutPipe!BusReset
  <2>1. usb = "on" /\ usb' # "on" /\ hBusy' = FALSE /\ rxLast' = rxLast
    BY <1>2 DEF BusReset, rxVars
  <2>2. OutTodo' = <<>>
    BY <2>1, OutTodoWillBe
  <2> QED
    BY <2>1, <2>2 DEF OutPipe!BusReset
<1>3. ASSUME ResetIrq
      PROVE  UNCHANGED OutView
  BY <1>3, OutOffBus DEF ResetIrq, hostVars
<1> QED
  BY <1>1, <1>2, <1>3

LEMMA OutPipeStep ==
  ASSUME OutInv, [Next]_vars
  PROVE  OutPipe!Next \/ UNCHANGED OutView
<1>1. CASE \E n \in OutLens : HostSend(n) \/ PrepareReceive(n)
  BY <1>1, HostSendStarts, PrepareUnseen DEF OutPipe!Next
<1>2. CASE WireOut \/ IrqOut \/ OutFlip
  BY <1>2, WireOutUnseen, IrqOutUnseen, OutFlipUnseen
<1>3. CASE OutCopy \/ OutDone
  BY <1>3, CopyMoves, OutDoneCompletes DEF OutPipe!Next
<1>4. CASE OpenEp \/ BusReset \/ ResetIrq
  BY <1>4, OutBusSteps DEF OutPipe!Next
<1>5. CASE \/ \E n \in InLens : Transmit(n)
           \/ IrqIn \/ InFlip \/ InFill \/ InDone \/ HalIn \/ WireIn
           \/ \E d \in Dirs : Stall(d) \/ ClearHalt(d)
           \/ Abandon \/ UNCHANGED vars
  BY <1>5, AloofUnseen
<1> QED
  BY <1>1, <1>2, <1>3, <1>4, <1>5 DEF Next, Calls, Cpu, Wire

(* EP2 implements PacketPipe: no packet of an OUT transfer is lost,        *)
(* repeated or overtaken, and completion is reported after the last one,   *)
(* as long as no halt is cleared with block 1 next; an IN transfer given   *)
(* up, or the HAL's interference with EP3, does not matter to it.          *)
THEOREM OutRefinesPipe ==
  HaltPolicy # "any" => (Spec => OutImplementsPipe)
<1> SUFFICES ASSUME HaltPolicy # "any"
             PROVE  Spec => OutImplementsPipe
  OBVIOUS
<1>1. Init => OutExact /\ OutPipe!Init
  BY DEF Init, OutExact, OutPipe!Init, OutTodo
<1>2. TypeOK /\ PhaseInv /\ PidAgrees /\ OutExact /\ [Next]_vars => OutExact'
  BY OutExactStep
<1>3. TypeOK /\ PhaseInv /\ PidAgrees /\ OutExact /\ [Next]_vars
        => [OutPipe!Next]_(OutPipe!vars)
  BY OutPipeStep DEF OutInv, OutView, OutPipe!vars
<1> QED
  BY <1>1, <1>2, <1>3, TypeCorrect, PhaseCorrect, PidsAgree, PTL
     DEF Spec, OutImplementsPipe, OutPipe!Spec

-----------------------------------------------------------------------------
(* Nobody waits for the other's flip: EP2                                  *)

(* In a transfer that has begun the endpoint is enabled, and a block is    *)
(* released unless the handler is about to or the transfer is over.        *)
OutGoing ==
  usb = "on" =>
    /\ MidTransfer => stat["out"] = "valid" /\ (pc \in OutPcs \/ ctr["out"] \/ Released("out"))
    /\ pc = "outCopy" => last \/ ctr["out"] \/ Released("out")

(* The host sends what the buffer is for, in full packets up to the last,  *)
(* and that one is recognised.                                             *)
Agreed == hBusy /\ (Released("out") \/ hOff > 0) => Fits(hLen, rxSize)
Aligned == hBusy /\ hOff < hLen => hOff % MaxPacket = 0
LastSeen ==
  MidTransfer /\ hOff = hLen =>
    \/ ctr["out"] /\ (Waiting < MaxPacket \/ hLen = rxSize)
    \/ pc \in {"outFlip", "outCopy"} /\ last
    \/ pc = "outDone"
EndKnown == usb = "on" => Agreed /\ Aligned /\ LastSeen

LEMMA ModIs ==
  ASSUME NEW m \in Nat \ {0}, NEW a \in Nat
  PROVE  a % m = a - m * (a \div m) /\ a % m \in 0 .. m - 1
  BY Z3T(30)

LEMMA NextDiv ==
  ASSUME NEW m \in Nat \ {0}, NEW a \in Nat
  PROVE  (a + m) \div m = 1 + a \div m
  BY Z3T(30)

LEMMA NextMod ==
  ASSUME NEW m \in Nat \ {0}, NEW a \in Nat
  PROVE  (a + m) % m = a % m
<1>1. PICK q \in Nat : q = a \div m
  BY DivType
<1>2. (a + m) % m = (a + m) - m * (1 + q)
  <2>1. a + m \in Nat
    OBVIOUS
  <2> QED
    BY <1>1, <2>1, ModIs, NextDiv
<1>3. m * (1 + q) = m + m * q /\ m * q \in Nat
  BY Z3T(30)
<1>4. a % m = a - m * q
  BY <1>1, ModIs
<1> QED
  BY <1>2, <1>3, <1>4

LEMMA OutAloofPhase ==
  ASSUME TypeOK,
         \/ \E n \in InLens : Transmit(n)
         \/ IrqIn \/ InFlip \/ InFill \/ InDone \/ HalIn \/ WireIn
         \/ \E d \in Dirs : Stall(d) \/ ClearHalt(d)
         \/ Abandon \/ UNCHANGED vars
  PROVE  H'["out"] = H["out"]
<1>1. CASE \E n \in InLens : Transmit(n)
  <2>1. PICK n \in InLens : Transmit(n)
    BY <1>1
  <2>2. CASE UnderWay
    BY <2>1, <2>2 DEF Transmit
  <2>3. CASE ~UnderWay
    BY <2>1, <2>3 DEF Transmit, TypeOK, RegTypes, Dirs
  <2> QED
    BY <2>2, <2>3
<1>2. CASE WireIn
  BY <1>2, FlipFacts DEF WireIn, TypeOK, RegTypes, Dirs
<1>3. CASE \/ IrqIn \/ InFlip \/ InFill \/ InDone \/ HalIn
           \/ \E d \in Dirs : Stall(d) \/ ClearHalt(d)
           \/ Abandon \/ UNCHANGED vars
  BY <1>3 DEF IrqIn, InFlip, InFill, InDone, HalIn, Stall, ClearHalt, Abandon, vars, regVars
<1> QED
  BY <1>1, <1>2, <1>3

LEMMA OutGoingStep ==
  ASSUME TypeOK, PhaseInv, OutGoing, [Next]_vars
  PROVE  OutGoing'
<1> SUFFICES ASSUME usb' = "on"
             PROVE  OutGoing'
  BY DEF OutGoing
<1>1. /\ stat \in [Dirs -> {"dis", "valid", "stall"}] /\ "out" \in Dirs /\ "in" \in Dirs
      /\ S \in [Dirs -> Blocks] /\ H \in [Dirs -> Blocks] /\ ctr \in [Dirs -> BOOLEAN]
  BY DEF TypeOK, RegTypes, Dirs
<1>2. CASE IrqOut
  <2>1. usb = "on" /\ rxOn
    BY <1>2 DEF IrqOut, PhaseInv, OutSide, OutHeld
  <2>2. pc' = "outFlip" /\ UNCHANGED <<stat, hBusy, hOff>> /\ ctr["out"] /\ hBusy /\ hOff > 0
    BY <1>2, <2>1 DEF IrqOut, hostVars, PhaseInv, OutSide, OutHeld
  <2> QED
    BY <2>1, <2>2 DEF OutGoing, OutPcs, MidTransfer
<1>3. CASE OutFlip
  <2>1. usb = "on" /\ pc = "outFlip" /\ ~Released("out") /\ hBusy /\ hOff > 0
    BY <1>3 DEF OutFlip, PhaseInv, OutSide, OutHeld
  <2>2. pc' = "outCopy" /\ UNCHANGED <<stat, H, last, hBusy, hOff>>
    BY <1>3 DEF OutFlip, hostVars
  <2>3. ~last => Released("out")'
    <3> SUFFICES ASSUME ~last
                 PROVE  Released("out")'
      OBVIOUS
    <3>1. S'["out"] = 1 - S["out"]
      BY <1>1, <1>3, FlipFacts DEF OutFlip, MoreToReceive
    <3> QED
      BY <1>1, <2>1, <2>2, <3>1 DEF Released, Blocks
  <2>4. stat["out"] = "valid"
    BY <2>1 DEF OutGoing, MidTransfer
  <2> QED
    BY <2>2, <2>3, <2>4 DEF OutGoing, OutPcs
<1>4. CASE OutCopy
  <2>1. usb = "on" /\ pc = "outCopy" /\ UNCHANGED <<stat, H, S, ctr, hBusy, hOff>>
    BY <1>4 DEF OutCopy, regVars, hostVars
  <2>2. hBusy /\ hOff > 0
    BY <2>1 DEF PhaseInv, OutSide, OutHeld
  <2>3. \/ last /\ pc' = "outDone"
        \/ ~last /\ pc' = "idle"
    BY <1>4 DEF OutCopy, Return
  <2> QED
    BY <2>1, <2>2, <2>3 DEF OutGoing, OutPcs, MidTransfer, Released
<1>5. CASE OutDone
  BY <1>5 DEF OutDone, Return, OutGoing, MidTransfer
<1>6. CASE WireOut
  <2>1. /\ usb = "on" /\ stat["out"] = "valid" /\ Released("out")
        /\ UNCHANGED <<stat, S, pc, last>>
    BY <1>6 DEF WireOut, cpuVars
  <2>2. ctr'["out"] \/ Released("out")'
    BY <1>1, <1>6, <2>1 DEF WireOut, Released
  <2> QED
    BY <2>1, <2>2 DEF OutGoing
<1>7. CASE \E n \in OutLens : HostSend(n)
  <2>1. usb = "on" /\ hOff' = 0 /\ UNCHANGED <<pc, last, ctr, H, S>>
    BY <1>7 DEF HostSend, regVars, cpuVars
  <2> QED
    BY <2>1 DEF OutGoing, MidTransfer, Released
<1>8. CASE \E m \in OutLens : PrepareReceive(m)
  BY <1>8 DEF PrepareReceive, Callable, OutGoing, MidTransfer, hostVars, cpuVars
<1>9. CASE OpenEp
  <2>1. pc' = "idle" /\ ~hBusy'
    BY <1>9 DEF OpenEp, Callable, cpuVars, hostVars, PhaseInv, OffBus
  <2> QED
    BY <2>1 DEF OutGoing, MidTransfer
<1>10. CASE BusReset \/ ResetIrq
  BY <1>10 DEF BusReset, ResetIrq
<1>11. ASSUME NEW d \in Dirs, Stall(d)
       PROVE  OutGoing'
  <2>1. /\ usb = "on" /\ pc = "idle" /\ pc' = "idle" /\ UNCHANGED <<hBusy, hOff, H, S, ctr>>
        /\ d = "out" => ~hBusy
        /\ d # "out" => stat'["out"] = stat["out"]
    BY <1>1, <1>11 DEF Stall, Callable, cpuVars, hostVars, Dirs
  <2> QED
    BY <2>1 DEF OutGoing, MidTransfer, OutPcs, Released
<1>12. CASE \/ \E n \in InLens : Transmit(n)
            \/ IrqIn \/ InFlip \/ InFill \/ InDone \/ HalIn \/ WireIn
            \/ \E d \in Dirs : ClearHalt(d)
            \/ Abandon \/ UNCHANGED vars
  <2>1. /\ S'["out"] = S["out"] /\ ctr'["out"] = ctr["out"]
        /\ UNCHANGED <<hBusy, hOff, usb>>
        /\ UNCHANGED cpuVars \/ {pc, pc'} \cap OutPcs = {}
    BY <1>12, OutAloof
  <2>2. stat'["out"] = stat["out"]
    BY <1>1, <1>12
       DEF Transmit, IrqIn, InFlip, InFill, InDone, HalIn, WireIn, ClearHalt, Abandon,
           vars, regVars
  <2>3. H'["out"] = H["out"]
    BY <1>12, OutAloofPhase
  <2> QED
    BY <2>1, <2>2, <2>3 DEF OutGoing, MidTransfer, Released, cpuVars, OutPcs
<1> QED
  BY <1>2, <1>3, <1>4, <1>5, <1>6, <1>7, <1>8, <1>9, <1>10, <1>11, <1>12
     DEF Next, Calls, Cpu, Wire

LEMMA WireOutEnd ==
  ASSUME TypeOK, PhaseInv, PidAgrees, EndKnown, WireOut
  PROVE  EndKnown'
<1> DEFINE p == Packet(hNo, hOff, hLen - hOff)
<1>1. /\ usb = "on" /\ hBusy /\ UNCHANGED <<S, rxVars, cpuVars, hLen, hBusy>>
      /\ hLen - hOff \in Nat \ {0} /\ p.len \in Nat /\ p.len <= hLen - hOff
      /\ p.len < MaxPacket => p.len = hLen - hOff
      /\ hOff' = hOff + p.len
      /\ ctr'["out"] /\ Waiting' = p.len
  BY WireOutFacts
<1>2. p.len <= MaxPacket
  BY <1>1, LengthsAssumption DEF Packet, Least
<1> HIDE DEF p
<1>3. Released("out") /\ usb = "on" /\ usb' = "on"
  BY DEF WireOut
<1>4. Fits(hLen, rxSize) /\ hOff % MaxPacket = 0
  BY <1>1, <1>3, OutTypes DEF EndKnown, Agreed, Aligned
<1>5. Agreed'
  BY <1>1, <1>4 DEF Agreed, Fits, rxVars
<1>6. p.len = MaxPacket => hOff' % MaxPacket = 0
  BY <1>1, <1>4, OutTypes, NextMod, LengthsAssumption
<1>7. Aligned'
  BY <1>1, <1>2, <1>6, OutTypes, LengthsAssumption DEF Aligned
<1>8. LastSeen'
  <2>1. p.len = MaxPacket /\ hOff' = hLen => hLen = rxSize
    BY <1>4, <1>6 DEF Fits
  <2> QED
    BY <1>1, <1>2, <2>1, OutTypes, LengthsAssumption DEF LastSeen, rxVars
<1> QED
  BY <1>5, <1>7, <1>8 DEF EndKnown

LEMMA OutHandlerEnd ==
  ASSUME TypeOK, PhaseInv, OutExact, EndKnown, IrqOut \/ OutFlip \/ OutCopy \/ OutDone
  PROVE  EndKnown'
<1>1. usb' = usb /\ H' = H
  BY DEF IrqOut, OutFlip, OutCopy, OutDone, regVars
<1> SUFFICES ASSUME usb = "on"
             PROVE  EndKnown'
  BY <1>1 DEF EndKnown
<1>2. CASE IrqOut
  <2>1. /\ pc = "idle" /\ ctr["out"] /\ rxOn /\ hBusy /\ hOff > 0
        /\ Waiting = pma["out"][UsedBlock("out")].len
    BY <1>2 DEF IrqOut, PhaseInv, OutSide, OutHeld, Waiting
  <2>2. /\ pc' = "outFlip" /\ last' = Done(Waiting)
        /\ UNCHANGED <<S, rxVars, rxSize, hBusy, hLen, hOff>>
    BY <1>2, <2>1 DEF IrqOut, hostVars, rxVars
  <2>3. Agreed' /\ Aligned'
    BY <1>1, <2>2 DEF EndKnown, Agreed, Aligned, Released
  <2>4. hOff = hLen => Done(Waiting)
    <3> SUFFICES ASSUME hOff = hLen, ~(Waiting < MaxPacket)
                 PROVE  rxCount + Waiting >= rxSize
      BY DEF Done
    <3>1. hLen = rxSize
      BY <2>1 DEF EndKnown, LastSeen, MidTransfer
    <3>2. InCopy = 0 /\ Taken = hOff
      BY <2>1 DEF InCopy, OutExact
    <3> QED
      BY <3>1, <3>2, OutTypes DEF Taken
  <2>5. LastSeen'
    BY <2>2, <2>4 DEF LastSeen, MidTransfer
  <2> QED
    BY <2>3, <2>5 DEF EndKnown
<1>3. CASE OutFlip
  <2>1. /\ pc = "outFlip" /\ pc' = "outCopy" /\ ~ctr["out"] /\ hBusy /\ hOff > 0
        /\ UNCHANGED <<ctr, rxVars, rxSize, last, hBusy, hLen, hOff>>
    BY <1>3 DEF OutFlip, rxVars, hostVars, PhaseInv, OutSide, OutHeld
  <2> QED
    BY <2>1 DEF EndKnown, Agreed, Aligned, LastSeen, MidTransfer
<1>4. CASE OutCopy
  <2>1. /\ pc = "outCopy" /\ UNCHANGED <<S, ctr, pma, rxSize, hBusy, hLen, hOff>>
        /\ \/ last /\ pc' = "outDone"
           \/ ~last
    BY <1>4 DEF OutCopy, regVars, hostVars
  <2>2. Waiting' = Waiting
    BY <2>1 DEF Waiting, UsedBlock
  <2> QED
    BY <1>1, <2>1, <2>2 DEF EndKnown, Agreed, Aligned, LastSeen, MidTransfer, Released
<1>5. CASE OutDone
  BY <1>5 DEF OutDone, EndKnown, Agreed, Aligned, LastSeen, MidTransfer
<1> QED
  BY <1>2, <1>3, <1>4, <1>5

LEMMA EndKnownStep ==
  ASSUME TypeOK, PhaseInv, PidAgrees, OutExact, EndKnown, [Next]_vars
  PROVE  EndKnown'
<1>1. CASE IrqOut \/ OutFlip \/ OutCopy \/ OutDone
  BY <1>1, OutHandlerEnd
<1>2. CASE WireOut
  BY <1>2, WireOutEnd
<1>3. CASE \E n \in OutLens : HostSend(n)
  <2>1. PICK n \in OutLens : HostSend(n)
    BY <1>3
  <2>2. /\ usb = "on" /\ hLen' = n /\ hOff' = 0 /\ UNCHANGED <<rxSize, H, S>>
        /\ Released("out") => Fits(n, rxSize)
    BY <2>1 DEF HostSend, regVars, rxVars
  <2>3. 0 % MaxPacket = 0
    BY LengthsAssumption, Z3T(30)
  <2> QED
    BY <2>2, <2>3 DEF EndKnown, Agreed, Aligned, LastSeen, MidTransfer, Released, Fits
<1>4. CASE \E m \in OutLens : PrepareReceive(m)
  <2>1. PICK m \in OutLens : PrepareReceive(m)
    BY <1>4
  <2>2. /\ ~MidTransfer /\ rxSize' = m /\ (hBusy => Fits(hLen, m))
        /\ UNCHANGED <<usb, hBusy, hLen, hOff>>
    BY <2>1 DEF PrepareReceive, hostVars
  <2> QED
    BY <2>2 DEF EndKnown, Agreed, Aligned, LastSeen, MidTransfer, Fits
<1>5. CASE OpenEp
  <2>1. ~hBusy'
    BY <1>5 DEF OpenEp, hostVars, PhaseInv, OffBus
  <2> QED
    BY <2>1 DEF EndKnown, Agreed, Aligned, LastSeen, MidTransfer
<1>6. CASE BusReset \/ ResetIrq
  BY <1>6 DEF BusReset, ResetIrq, EndKnown
<1>7. CASE \/ \E n \in InLens : Transmit(n)
           \/ IrqIn \/ InFlip \/ InFill \/ InDone \/ HalIn \/ WireIn
           \/ \E d \in Dirs : Stall(d) \/ ClearHalt(d)
           \/ Abandon \/ UNCHANGED vars
  <2>1. /\ S'["out"] = S["out"] /\ ctr'["out"] = ctr["out"] /\ pma'["out"] = pma["out"]
        /\ UNCHANGED <<rxVars, hBusy, hLen, hOff, usb>>
        /\ UNCHANGED cpuVars \/ {pc, pc'} \cap OutPcs = {}
    BY <1>7, OutAloof
  <2>2. H'["out"] = H["out"]
    BY <1>7, OutAloofPhase
  <2>3. Waiting' = Waiting /\ rxSize' = rxSize
    BY <2>1 DEF Waiting, UsedBlock, rxVars
  <2> QED
    BY <2>1, <2>2, <2>3
       DEF EndKnown, Agreed, Aligned, LastSeen, MidTransfer, Released, cpuVars, OutPcs
<1> QED
  BY <1>1, <1>2, <1>3, <1>4, <1>5, <1>6, <1>7 DEF Next, Calls, Cpu, Wire

(* In the middle of a transfer of the host there is always a packet it can *)
(* send, an interrupt to take or a handler to finish, unless a halt is     *)
(* cleared with block 1 next: the end of a transfer is neither missed nor  *)
(* seen too early, whatever lengths it and the buffer have.                *)
THEOREM OutAlwaysMoves == HaltPolicy # "any" => (Spec => []OutMoves)
<1> SUFFICES ASSUME HaltPolicy # "any"
             PROVE  Spec => []OutMoves
  OBVIOUS
<1>1. Init => OutExact /\ OutGoing /\ EndKnown
  BY DEF Init, OutExact, OutGoing, EndKnown
<1>2. /\ TypeOK /\ PhaseInv /\ PidAgrees /\ OutExact /\ OutGoing /\ EndKnown
      /\ [Next]_vars
      => OutExact' /\ OutGoing' /\ EndKnown'
  BY OutExactStep, OutGoingStep, EndKnownStep
<1>3. TypeOK /\ PhaseInv /\ OutGoing /\ EndKnown => OutMoves
  <2> SUFFICES ASSUME TypeOK, PhaseInv, OutGoing, EndKnown, usb = "on", MidTransfer,
                      pc \notin OutPcs, ~ctr["out"]
               PROVE  Released("out") /\ stat["out"] = "valid" /\ hOff < hLen
    BY DEF OutMoves, OutPcs
  <2>1. Released("out") /\ stat["out"] = "valid"
    BY DEF OutGoing
  <2>2. hOff <= hLen /\ hOff # hLen
    BY DEF PhaseInv, OutSide, OutRoom, EndKnown, LastSeen, OutPcs
  <2> QED
    BY <2>1, <2>2, OutTypes
<1> QED
  BY <1>1, <1>2, <1>3, TypeCorrect, PhaseCorrect, PidsAgree, PTL DEF Spec
=============================================================================

------------------------- MODULE MouseReportProofs -------------------------
(***************************************************************************)
(* Proofs about MouseReport, for every FIFO depth and any number of        *)
(* packets and bus events.                                                 *)
(***************************************************************************)
EXTENDS MouseReport, SequenceTheorems, TLAPS

(* The device is configured, or will be when it wakes up.                  *)
Cfg == Configured \/ (devState = "SUSPENDED" /\ oldState = "CONFIGURED")

(* EP1 and hhid->state, while the device is configured.                    *)
Endpoint ==
  Cfg => /\ hid = "IDLE" => ep # "VALID" /\ ~ctr
         /\ ctr => ep # "VALID"
         /\ pc = "busy" => hid = "IDLE"
         /\ pc = "transmit" => hid = "BUSY" /\ ep # "VALID" /\ ~ctr
         /\ hid = "BUSY" /\ ~halted => ep = "VALID" \/ ctr \/ pc = "transmit"

(* RX_DR and the FIFO.                                                     *)
Radio ==
  /\ FifoAnnounced
  /\ rxdr /\ pc \in {"read", "flush"} => arrived
  /\ rxdr /\ pc \notin {"clear", "read", "flush"} /\ fifo = <<>> => arrived
  /\ pc \in {"clear", "read"} /\ fifo = <<>> => late
  /\ JunkOnlyAfterLateArrival

(* Everything on its way is newer than everything before it.               *)
Held == {"state", "idle?", "busy", "transmit"}
Order ==
  /\ pack <= sent /\ slot <= sent /\ seen <= sent
  /\ \A i \in 1 .. Len(fifo) :
       /\ fifo[i] > seen /\ fifo[i] > slot /\ fifo[i] <= sent
       /\ pc \in Held => fifo[i] > pack
  /\ pc \in Held \cup {"flush"} /\ pack # Junk => pack > seen /\ pack > slot
  /\ ep = "VALID" /\ slot # Junk => slot > seen

IInv == TypeOK /\ Endpoint /\ Radio /\ Order

-----------------------------------------------------------------------------
LEMMA InitEstablishes == Init => IInv
<1> SUFFICES ASSUME Init PROVE IInv
  OBVIOUS
<1>1. fifo \in Seq(1 .. MaxPackets) /\ Len(fifo) = 0
  BY EmptySeq DEF Init
<1>2. /\ sent = 0 /\ rxdr = FALSE /\ arrived = FALSE /\ late = FALSE /\ pc = "poll" /\ pack = 0
      /\ devState = "DEFAULT" /\ oldState = "DEFAULT" /\ hid = "IDLE" /\ ep = "DIS" /\ slot = 0
      /\ ctr = FALSE /\ halted = FALSE /\ seen = 0 /\ events = MaxEvents
  BY DEF Init, Junk
<1>3. TypeOK
  <2>1. 0 \in 0 .. MaxPackets /\ MaxEvents \in 0 .. MaxEvents /\ 0 <= FifoDepth
    BY MouseAssumption
  <2>2. /\ sent \in 0 .. MaxPackets /\ pack \in Payloads /\ slot \in Payloads /\ seen \in Payloads
        /\ events \in 0 .. MaxEvents /\ Len(fifo) <= FifoDepth
    BY <1>1, <1>2, <2>1 DEF Payloads
  <2> QED
    BY <1>1, <1>2, <2>2 DEF TypeOK
<1>4. Endpoint /\ Order
  BY <1>1, <1>2 DEF Endpoint, Cfg, Configured, Order, Junk, Held
<1>5. Radio
  BY <1>1, <1>2 DEF Init, Radio, FifoAnnounced, JunkOnlyAfterLateArrival
<1> QED
  BY <1>3, <1>4, <1>5 DEF IInv

LEMMA FifoFacts ==
  ASSUME TypeOK, fifo # <<>>
  PROVE  /\ Len(fifo) \in Nat \ {0} /\ Head(fifo) = fifo[1] /\ Head(fifo) \in 1 .. MaxPackets
         /\ Tail(fifo) \in Seq(1 .. MaxPackets) /\ Len(Tail(fifo)) = Len(fifo) - 1
         /\ \A i \in 1 .. Len(Tail(fifo)) : Tail(fifo)[i] = fifo[i + 1]
<1>1. fifo \in Seq(1 .. MaxPackets)
  BY DEF TypeOK
<1>2. Len(fifo) \in Nat \ {0}
  BY <1>1, EmptySeq
<1>3. Head(fifo) = fifo[1]
  BY <1>1
<1> QED
  BY <1>1, <1>2, <1>3, HeadTailProperties

LEMMA ArriveFacts ==
  ASSUME TypeOK, Arrive
  PROVE  /\ sent \in Nat /\ sent' = sent + 1 /\ sent' \in 1 .. MaxPackets
         /\ \/ UNCHANGED <<fifo, rxdr, arrived>>
            \/ /\ fifo' = Append(fifo, sent') /\ rxdr' = TRUE /\ Len(fifo) < FifoDepth
               /\ arrived' = (arrived \/ pc \in {"read", "flush"})
               /\ fifo' # <<>>
         /\ UNCHANGED <<late, pc, pack, devState, oldState, hid, ep, slot, ctr, halted, seen, events>>
<1>1. sent \in Nat /\ sent' = sent + 1 /\ sent' \in 1 .. MaxPackets
  BY MouseAssumption DEF TypeOK, Arrive
<1>2. UNCHANGED <<late, pc, pack, devState, oldState, hid, ep, slot, ctr, halted, seen, events>>
  BY DEF Arrive, taskVars, devVars, epVars, hostVars
<1>3. CASE Len(fifo) < FifoDepth
  <2>1. /\ fifo' = Append(fifo, sent') /\ rxdr' = TRUE
        /\ arrived' = (arrived \/ pc \in {"read", "flush"})
    BY <1>3 DEF Arrive
  <2>2. Append(fifo, sent') # <<>>
    BY <1>1 DEF TypeOK
  <2> QED
    BY <1>1, <1>2, <1>3, <2>1, <2>2
<1>4. CASE ~(Len(fifo) < FifoDepth)
  BY <1>1, <1>2, <1>4 DEF Arrive
<1> QED
  BY <1>3, <1>4

LEMMA TypeStep == ASSUME TypeOK, [Next]_vars PROVE TypeOK'
<1>1. CASE UNCHANGED vars
  BY <1>1 DEF vars, radioVars, taskVars, devVars, epVars, hostVars, TypeOK
<1>2. CASE Arrive
  <2>1. fifo' \in Seq(1 .. MaxPackets) /\ Len(fifo') <= FifoDepth
    <3>1. sent' \in 1 .. MaxPackets /\ FifoDepth \in Nat
          /\ fifo \in Seq(1 .. MaxPackets) /\ Len(fifo) <= FifoDepth
      BY <1>2, ArriveFacts, MouseAssumption DEF TypeOK
    <3>2. /\ Append(fifo, sent') \in Seq(1 .. MaxPackets)
          /\ Len(Append(fifo, sent')) = Len(fifo) + 1 /\ Len(fifo) \in Nat
      BY <3>1, AppendProperties
    <3>3. fifo' = fifo \/ (fifo' = Append(fifo, sent') /\ Len(fifo) < FifoDepth)
      BY <1>2, ArriveFacts
    <3>4. CASE fifo' = fifo
      BY <3>1, <3>4
    <3>5. CASE fifo' = Append(fifo, sent') /\ Len(fifo) < FifoDepth
      BY <3>1, <3>2, <3>5
    <3> QED
      BY <3>3, <3>4, <3>5
  <2>2. /\ rxdr' \in BOOLEAN /\ arrived' \in BOOLEAN /\ sent' \in 0 .. MaxPackets
        /\ UNCHANGED <<late, pc, pack, devState, oldState, hid, ep, slot, ctr, halted, seen, events>>
    <3>1. rxdr \in BOOLEAN /\ arrived \in BOOLEAN
      BY DEF TypeOK
    <3>2. rxdr' \in {rxdr, TRUE} /\ arrived' \in BOOLEAN
      BY <1>2, <3>1, ArriveFacts
    <3>3. rxdr' \in BOOLEAN
      BY <3>1, <3>2
    <3>4. sent' \in 0 .. MaxPackets
      BY <1>2, ArriveFacts, MouseAssumption
    <3> QED
      BY <1>2, <3>2, <3>3, <3>4, ArriveFacts
  <2> QED
    BY <2>1, <2>2 DEF TypeOK
<1>3. CASE ReadPayload
  <2>1. /\ fifo' \in Seq(1 .. MaxPackets) /\ Len(fifo') <= FifoDepth /\ pack' \in Payloads
    <3>1. CASE fifo = <<>>
      BY <1>3, <3>1, MouseAssumption DEF ReadPayload, TypeOK, Payloads, Junk
    <3>2. CASE fifo # <<>>
      BY <1>3, <3>2, FifoFacts, MouseAssumption DEF ReadPayload, TypeOK, Payloads
    <3> QED
      BY <3>1, <3>2
  <2> QED
    BY <1>3, <2>1 DEF ReadPayload, TypeOK, devVars, epVars, hostVars
<1>4. CASE Flush
  <2>1. fifo' \in Seq(1 .. MaxPackets) /\ Len(fifo') <= FifoDepth
    <3>1. fifo' = <<>>
      BY <1>4 DEF Flush, Flushes
    <3> QED
      BY <3>1, EmptySeq, MouseAssumption
  <2> QED
    BY <1>4, <2>1 DEF Flush, TypeOK, devVars, epVars, hostVars
<1>5. CASE ReadStatus \/ ClearStatus
  BY <1>5 DEF ReadStatus, ClearStatus, WritesBack, TypeOK, devVars, epVars, hostVars
<1>6. CASE CheckConfigured \/ CheckIdle \/ SetBusy \/ Transmit
  BY <1>6 DEF CheckConfigured, CheckIdle, NextIfIdle, SetBusy, Transmit, TypeOK, radioVars, devVars,
              epVars, hostVars
<1>7. CASE HostPoll \/ DataIn \/ SetAddress \/ Configure \/ Resume
  BY <1>7 DEF HostPoll, DataIn, SetAddress, Configure, HidInit, Resume, TypeOK, radioVars, taskVars,
              devVars, epVars, hostVars
<1>8. CASE BusReset \/ Unconfigure \/ Suspend \/ Halt \/ ClearHalt
  <2>1. events' \in 0 .. MaxEvents
    BY <1>8, MouseAssumption DEF BusReset, Unconfigure, Suspend, Halt, ClearHalt, Event, TypeOK
  <2> QED
    BY <1>8, <2>1 DEF BusReset, Unconfigure, Suspend, Awake, Halt, ClearHalt, Unstalled, TypeOK,
                      radioVars, taskVars, devVars, epVars
<1> QED
  BY <1>1, <1>2, <1>3, <1>4, <1>5, <1>6, <1>7, <1>8 DEF Next, Task, Requests

LEMMA EndpointStep == ASSUME TypeOK, Endpoint, [Next]_vars PROVE Endpoint'
<1> USE DEF Endpoint, Cfg, Configured
<1>1. CASE UNCHANGED vars
  BY <1>1 DEF vars, radioVars, taskVars, devVars, epVars, hostVars
<1>2. CASE Arrive
  BY <1>2, ArriveFacts
<1>3. CASE ReadStatus \/ ClearStatus \/ ReadPayload \/ Flush
  BY <1>3 DEF ReadStatus, ClearStatus, ReadPayload, Flush, devVars, epVars
<1>4. CASE CheckConfigured \/ CheckIdle
  BY <1>4 DEF CheckConfigured, CheckIdle, NextIfIdle, devVars, epVars, TypeOK
<1>5. CASE SetBusy \/ Transmit
  BY <1>5 DEF SetBusy, Transmit, devVars, TypeOK
<1>6. CASE HostPoll \/ DataIn
  BY <1>6 DEF HostPoll, DataIn, taskVars, devVars, TypeOK
<1>7. CASE SetAddress \/ Configure
  BY <1>7 DEF SetAddress, Configure, HidInit, InSendReport, taskVars, epVars, TypeOK
<1>8. CASE BusReset \/ Unconfigure \/ Suspend \/ Resume
  BY <1>8 DEF BusReset, Unconfigure, Suspend, Awake, Resume, taskVars, epVars, TypeOK
<1>9. CASE Halt \/ ClearHalt
  BY <1>9 DEF Halt, ClearHalt, Unstalled, taskVars, devVars, TypeOK
<1> QED
  BY <1>1, <1>2, <1>3, <1>4, <1>5, <1>6, <1>7, <1>8, <1>9 DEF Next, Task, Requests

LEMMA RadioStep == ASSUME TypeOK, Radio, [Next]_vars PROVE Radio'
<1> USE DEF Radio, FifoAnnounced, JunkOnlyAfterLateArrival
<1>1. CASE UNCHANGED <<radioVars, taskVars>>
  BY <1>1 DEF radioVars, taskVars
<1>2. CASE Arrive
  <2>1. CASE UNCHANGED <<fifo, rxdr, arrived>>
    BY <1>2, <2>1, ArriveFacts
  <2>2. CASE /\ rxdr' = TRUE /\ fifo' # <<>>
             /\ arrived' = (arrived \/ pc \in {"read", "flush"})
    BY <1>2, <2>2, ArriveFacts
  <2> QED
    BY <1>2, <2>1, <2>2, ArriveFacts
<1>3. CASE ReadStatus \/ ClearStatus
  BY <1>3 DEF ReadStatus, ClearStatus, WritesBack
<1>4. CASE ReadPayload
  <2>1. pack' = Junk => late
    <3>1. CASE fifo = <<>>
      BY <1>4, <3>1 DEF ReadPayload
    <3>2. CASE fifo # <<>>
      BY <1>4, <3>2, FifoFacts DEF ReadPayload, Junk
    <3> QED
      BY <3>1, <3>2
  <2> QED
    BY <1>4, <2>1 DEF ReadPayload
<1>5. CASE Flush
  BY <1>5 DEF Flush, Flushes
<1>6. CASE CheckConfigured \/ CheckIdle \/ SetBusy \/ Transmit
  BY <1>6 DEF CheckConfigured, CheckIdle, NextIfIdle, SetBusy, Transmit, radioVars, TypeOK
<1>7. CASE HostPoll \/ DataIn \/ Requests
  BY <1>1, <1>7 DEF HostPoll, DataIn, Requests, BusReset, SetAddress, Configure, Unconfigure,
                    Suspend, Resume, Halt, ClearHalt
<1> QED
  BY <1>1, <1>2, <1>3, <1>4, <1>5, <1>6, <1>7 DEF Next, Task, vars

LEMMA OrderStep == ASSUME TypeOK, Order, [Next]_vars PROVE Order'
<1>0. /\ sent \in Nat /\ pack \in Nat /\ slot \in Nat /\ seen \in Nat /\ Len(fifo) \in Nat
      /\ \A i \in 1 .. Len(fifo) : fifo[i] \in Nat \ {0}
  BY MouseAssumption DEF TypeOK, Payloads
<1>1. CASE UNCHANGED <<radioVars, taskVars, slot, seen>> /\ (ep' = "VALID" => ep = "VALID")
  BY <1>1 DEF Order, radioVars, taskVars
<1>2. CASE Arrive
  <2>1. /\ sent' = sent + 1 /\ fifo' \in {fifo, Append(fifo, sent')}
        /\ UNCHANGED <<pc, pack, slot, seen, ep>>
    BY <1>2, ArriveFacts
  <2>2. \A i \in 1 .. Len(fifo') : fifo'[i] = sent' \/ (i \in 1 .. Len(fifo) /\ fifo'[i] = fifo[i])
    BY <1>0, <2>1 DEF TypeOK
  <2> QED
    BY <1>0, <2>1, <2>2 DEF Order
<1>3. CASE ReadPayload
  <2>1. /\ pc' = "flush" /\ UNCHANGED <<sent, slot, seen, ep>>
    BY <1>3 DEF ReadPayload, epVars, hostVars
  <2>2. CASE fifo = <<>>
    BY <1>0, <1>3, <2>1, <2>2 DEF ReadPayload, Order, Junk, Held
  <2>3. CASE fifo # <<>>
    BY <1>0, <1>3, <2>1, <2>3, FifoFacts DEF ReadPayload, Order, Held
  <2> QED
    BY <2>2, <2>3
<1>4. CASE Flush
  <2>1. /\ pc = "flush" /\ pc' = "state" /\ Len(fifo') = 0 /\ UNCHANGED <<sent, pack, slot, seen, ep>>
    BY <1>4 DEF Flush, Flushes, epVars, hostVars
  <2> QED
    BY <2>1 DEF Order, Held
<1>5. CASE ReadStatus \/ ClearStatus
  BY <1>5 DEF ReadStatus, ClearStatus, epVars, hostVars, Order, Held
<1>6. CASE CheckConfigured \/ CheckIdle \/ SetBusy
  <2>1. /\ pc \in Held /\ pc' \in Held \cup {"poll"}
        /\ UNCHANGED <<sent, fifo, pack, slot, seen, ep>>
    BY <1>6 DEF CheckConfigured, CheckIdle, NextIfIdle, SetBusy, Held, radioVars, epVars, hostVars
  <2> QED
    BY <2>1 DEF Order, Held
<1>7. CASE Transmit
  <2>1. /\ pc = "transmit" /\ pc' = "poll" /\ slot' = pack /\ UNCHANGED <<sent, fifo, pack, seen>>
    BY <1>7 DEF Transmit, radioVars, hostVars
  <2> QED
    BY <1>0, <2>1 DEF Order, Held
<1>8. CASE HostPoll
  <2>1. /\ ep = "VALID" /\ ep' = "NAK" /\ seen' = (IF slot = Junk THEN seen ELSE slot)
        /\ UNCHANGED <<sent, fifo, pack, slot, pc>>
    BY <1>8 DEF HostPoll, radioVars, taskVars
  <2> QED
    BY <1>0, <2>1 DEF Order
<1>9. CASE DataIn \/ Requests
  BY <1>1, <1>9 DEF DataIn, Requests, BusReset, SetAddress, Configure, Unconfigure, Suspend, Resume,
                    Halt, ClearHalt, Unstalled, epVars, hostVars
<1>10. CASE UNCHANGED vars
  BY <1>1, <1>10 DEF vars, epVars, hostVars
<1> QED
  BY <1>2, <1>3, <1>4, <1>5, <1>6, <1>7, <1>8, <1>9, <1>10 DEF Next, Task

(* The invariant all the theorems below rest on.                           *)
THEOREM MouseInvariant == Spec => []IInv
<1>1. IInv /\ [Next]_vars => IInv'
  BY TypeStep, EndpointStep, RadioStep, OrderStep DEF IInv
<1> QED
  BY <1>1, InitEstablishes, PTL DEF Spec

-----------------------------------------------------------------------------
(* The properties                                                          *)

(* Every variable keeps its type; dev_old_state never becomes "suspended". *)
THEOREM TypeCorrect == Spec => []TypeOK
  BY MouseInvariant, PTL DEF IInv

(* rf_rx never writes into an armed packet buffer, and hhid->state is busy *)
(* only while a report is on its way or EP1 has been halted.               *)
THEOREM BusyMeansArmed == Spec => []BusyIsArmed
<1>1. IInv => BusyIsArmed
  BY DEF IInv, Endpoint, Cfg, BusyIsArmed, TypeOK
<1> QED
  BY <1>1, MouseInvariant, PTL

(* Whenever RxPacket is not at work, RX_DR is set if payloads wait.        *)
THEOREM PacketsAnnounced == Spec => []FifoAnnounced
<1>1. IInv => FifoAnnounced
  BY DEF IInv, Radio
<1> QED
  BY <1>1, MouseInvariant, PTL

(* RxPacket answers "received" without a payload only for a packet that    *)
(* its own flush threw away.                                               *)
THEOREM JunkExplained == Spec => []JunkOnlyAfterLateArrival
<1>1. IInv => JunkOnlyAfterLateArrival
  BY DEF IInv, Radio
<1> QED
  BY <1>1, MouseInvariant, PTL

(* No report is delivered twice or after a later one, through resets,      *)
(* suspends and halts.                                                     *)
THEOREM ReportsInOrder == Spec => InOrder
<1>1. IInv /\ [Next]_vars => [HostPoll /\ slot # Junk => slot > seen]_vars
  BY DEF IInv, Order, HostPoll
<1> QED
  BY <1>1, MouseInvariant, PTL DEF Spec, InOrder
=============================================================================

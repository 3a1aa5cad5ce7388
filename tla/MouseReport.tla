---------------------------- MODULE MouseReport ----------------------------
(***************************************************************************)
(* The way of a mouse packet: the receive FIFO of the nRF24L01, the rf_rx  *)
(* task that polls it (app_main.c, NRF24L01.c), USBD_HID_SendReport in the *)
(* task against the USB interrupt (usbd_hid.c, usbd_composite.c and the    *)
(* standard requests), and a host that polls EP1.                          *)
(*                                                                         *)
(* Every access of the task that an interrupt or a radio packet can come   *)
(* between is a step of its own; an interrupt handler is one step.  The    *)
(* task runs at the highest priority, microseconds at a time: a host that  *)
(* has reset the bus is not heard again before the task has passed through *)
(* SendReport.  pClassData is the HID handle whenever no interrupt runs,   *)
(* or NULL before the first SET_CONFIGURATION, where the handler table at  *)
(* address 0 does not read as HID_IDLE.  s_log_q is NULL in this build     *)
(* (app_main.c:80), so sd_log_write_packet does nothing.                   *)
(***************************************************************************)
EXTENDS Integers, Sequences

CONSTANTS
  FifoDepth,   \* payloads the radio keeps
  MaxPackets,  \* bound of this model: packets on the air
  MaxEvents    \* bound of this model: resets, configurations, suspends, halts

ASSUME MouseAssumption ==
  /\ FifoDepth \in Nat \ {0} /\ MaxPackets \in Nat /\ MaxEvents \in Nat

(* Packets are numbered from 1; Junk is what an empty FIFO gives.          *)
Junk == 0
Payloads == 0 .. MaxPackets

VARIABLES
  (* radio *)
  sent,      \* packets sent so far
  fifo,      \* payloads received and not read
  rxdr,      \* RX_DR in STATUS
  arrived,   \* history: a packet came after RX_DR was cleared, before the flush
  late,      \* history: the RX_DR that is being served may be such a packet's
  (* rf_rx *)
  pc,        \* next access of the task
  pack,      \* the payload read last
  (* USB device *)
  devState, oldState,   \* dev_state, dev_old_state
  hid,       \* hhid->state
  ep,        \* STAT_TX of EP1
  slot,      \* the report in its packet memory
  ctr,       \* its completion interrupt is pending
  halted,    \* history: EP1 has been halted in this configuration
  (* host *)
  seen,      \* the packet it got last
  events     \* bus events left

radioVars == <<sent, fifo, rxdr, arrived, late>>
taskVars == <<pc, pack>>
devVars == <<devState, oldState>>
epVars == <<hid, ep, slot, ctr, halted>>
hostVars == <<seen, events>>
vars == <<radioVars, taskVars, devVars, epVars, hostVars>>

-----------------------------------------------------------------------------
(* The radio                                                               *)

(* A packet for which there is no room is not acknowledged and lost.       *)
Arrive ==
  /\ sent < MaxPackets
  /\ sent' = sent + 1
  /\ IF Len(fifo) < FifoDepth
     THEN /\ fifo' = Append(fifo, sent')
          /\ rxdr' = TRUE
          /\ arrived' = (arrived \/ pc \in {"read", "flush"})
     ELSE UNCHANGED <<fifo, rxdr, arrived>>
  /\ UNCHANGED <<late, taskVars, devVars, epVars, hostVars>>

(* NRF24L01_RxPacket: STATUS is read and written back, which clears RX_DR  *)
(* when it was set, one payload is read and the rest flushed.  A poll that *)
(* finds RX_DR clear changes nothing: it is no step of this model.         *)
ReadStatus ==
  /\ pc = "poll"
  /\ rxdr
  /\ pc' = "clear"
  /\ late' = arrived /\ arrived' = FALSE
  /\ UNCHANGED <<sent, fifo, rxdr, pack, devVars, epVars, hostVars>>

(* The variant writes back a status in which RX_DR reads as 0.             *)
WritesZero == UNCHANGED rxdr
WritesBack == rxdr' = FALSE
ClearStatus ==
  /\ pc = "clear"
  /\ WritesBack
  /\ pc' = "read"
  /\ UNCHANGED <<sent, fifo, arrived, late, pack, devVars, epVars, hostVars>>

ReadPayload ==
  /\ pc = "read"
  /\ IF fifo = <<>> THEN pack' = Junk /\ UNCHANGED fifo
     ELSE pack' = Head(fifo) /\ fifo' = Tail(fifo)
  /\ pc' = "flush"
  /\ UNCHANGED <<sent, rxdr, arrived, late, devVars, epVars, hostVars>>

(* The variant flushes by STATUS and leaves the payloads.                  *)
FlushesNothing == UNCHANGED fifo
Flushes == fifo' = <<>>
Flush ==
  /\ pc = "flush"
  /\ Flushes
  /\ pc' = "state"
  /\ UNCHANGED <<sent, rxdr, arrived, late, pack, devVars, epVars, hostVars>>

-----------------------------------------------------------------------------
(* USBD_HID_SendReport                                                     *)

CheckConfigured ==
  /\ pc = "state"
  /\ pc' = IF devState = "CONFIGURED" THEN "idle?" ELSE "poll"
  /\ UNCHANGED <<radioVars, pack, devVars, epVars, hostVars>>

(* A report that finds the endpoint busy is dropped.  The variant sends it *)
(* all the same.                                                           *)
NextIfAny == "busy"
NextIfIdle == IF hid = "IDLE" THEN "busy" ELSE "poll"
CheckIdle ==
  /\ pc = "idle?"
  /\ pc' = NextIfIdle
  /\ UNCHANGED <<radioVars, pack, devVars, epVars, hostVars>>

SetBusy ==
  /\ pc = "busy"
  /\ hid' = "BUSY"
  /\ pc' = "transmit"
  /\ UNCHANGED <<radioVars, pack, devVars, ep, slot, ctr, halted, hostVars>>

(* USBD_LL_Transmit of the four bytes: packet memory, then STAT_TX.        *)
Transmit ==
  /\ pc = "transmit"
  /\ slot' = pack /\ ep' = "VALID"
  /\ pc' = "poll"
  /\ UNCHANGED <<radioVars, pack, devVars, hid, ctr, halted, hostVars>>

Task == ReadStatus \/ ClearStatus \/ ReadPayload \/ Flush \/ CheckConfigured \/ CheckIdle
        \/ SetBusy \/ Transmit

-----------------------------------------------------------------------------
(* The host and the USB interrupt                                          *)

(* The host takes the report of a device that is configured and awake.     *)
HostPoll ==
  /\ devState = "CONFIGURED" /\ ep = "VALID"
  /\ seen' = IF slot = Junk THEN seen ELSE slot
  /\ ep' = "NAK" /\ ctr' = TRUE
  /\ UNCHANGED <<radioVars, taskVars, devVars, hid, slot, halted, events>>

(* comp_data_in, USBD_HID_DataIn.                                          *)
DataIn ==
  /\ ctr
  /\ ctr' = FALSE
  /\ hid' = "IDLE"
  /\ UNCHANGED <<radioVars, taskVars, devVars, ep, slot, halted, hostVars>>

Event == events > 0 /\ events' = events - 1
InSendReport == pc \in {"state", "idle?", "busy", "transmit"}

(* USBD_LL_Reset and comp_deinit: USBD_HID_DeInit closes EP1 and leaves    *)
(* the state in the block that stands for the heap.                        *)
BusReset ==
  /\ Event
  /\ devState' = "DEFAULT"
  /\ ep' = "DIS" /\ ctr' = FALSE
  /\ UNCHANGED <<radioVars, taskVars, oldState, hid, slot, halted, seen>>

SetAddress ==
  /\ devState = "DEFAULT" /\ ~InSendReport
  /\ devState' = "ADDRESSED"
  /\ UNCHANGED <<radioVars, taskVars, oldState, epVars, hostVars>>

(* SET_CONFIGURATION 1, comp_init and USBD_HID_Init.  The variant leaves   *)
(* the state of the handle as it was.                                      *)
HidInitKeepsState == UNCHANGED hid
HidInit == hid' = "IDLE"
Configure ==
  /\ devState = "ADDRESSED" /\ ~InSendReport
  /\ devState' = "CONFIGURED"
  /\ HidInit
  /\ ep' = "NAK" /\ ctr' = FALSE /\ halted' = FALSE
  /\ UNCHANGED <<radioVars, taskVars, oldState, slot, hostVars>>

(* SET_CONFIGURATION 0.                                                    *)
Unconfigure ==
  /\ Event /\ devState = "CONFIGURED"
  /\ devState' = "ADDRESSED"
  /\ ep' = "DIS" /\ ctr' = FALSE
  /\ UNCHANGED <<radioVars, taskVars, oldState, hid, slot, halted, seen>>

(* The suspend interrupt is masked until the bus has woken: a host         *)
(* suspends a device that is awake.  The variant suspends it twice.        *)
AnyTime == TRUE
Awake == devState # "SUSPENDED"
Suspend ==
  /\ Event /\ Awake
  /\ oldState' = devState /\ devState' = "SUSPENDED"
  /\ UNCHANGED <<radioVars, taskVars, epVars, seen>>
Resume ==
  /\ devState = "SUSPENDED"
  /\ devState' = oldState
  /\ UNCHANGED <<radioVars, taskVars, oldState, epVars, hostVars>>

(* SET_FEATURE and CLEAR_FEATURE(ENDPOINT_HALT): USB_EPClearStall sets an  *)
(* IN endpoint to NAK whatever was there.  The variant sets it to VALID,   *)
(* as the code does for an OUT endpoint.                                   *)
Halt ==
  /\ Event /\ devState = "CONFIGURED"
  /\ ep' = "STALL" /\ halted' = TRUE
  /\ UNCHANGED <<radioVars, taskVars, devVars, hid, slot, ctr, seen>>
UnstalledValid == "VALID"
Unstalled == "NAK"
ClearHalt ==
  /\ Event /\ devState = "CONFIGURED"
  /\ ep' = Unstalled /\ halted' = TRUE
  /\ UNCHANGED <<radioVars, taskVars, devVars, hid, slot, ctr, seen>>

Init ==
  /\ sent = 0 /\ fifo = <<>> /\ rxdr = FALSE /\ arrived = FALSE /\ late = FALSE
  /\ pc = "poll" /\ pack = Junk
  /\ devState = "DEFAULT" /\ oldState = "DEFAULT"
  /\ hid = "IDLE" /\ ep = "DIS" /\ slot = Junk /\ ctr = FALSE /\ halted = FALSE
  /\ seen = Junk /\ events = MaxEvents

Requests ==
  \/ BusReset \/ SetAddress \/ Configure \/ Unconfigure
  \/ Suspend \/ Resume \/ Halt \/ ClearHalt

Next == Arrive \/ Task \/ HostPoll \/ DataIn \/ Requests

(* The task polls every millisecond, the host its endpoints and wakes a    *)
(* device it has suspended; interrupts are served.                         *)
Fairness ==
  WF_vars(Task) /\ WF_vars(HostPoll) /\ WF_vars(DataIn) /\ WF_vars(SetAddress \/ Configure \/ Resume)

Spec == Init /\ [][Next]_vars
FairSpec == Spec /\ Fairness

-----------------------------------------------------------------------------
(* Properties                                                              *)

(* Types; a device is never "resumed" into the suspended state.            *)
TypeOK ==
  /\ sent \in 0 .. MaxPackets /\ fifo \in Seq(1 .. MaxPackets) /\ Len(fifo) <= FifoDepth
  /\ rxdr \in BOOLEAN /\ arrived \in BOOLEAN /\ late \in BOOLEAN
  /\ pc \in {"poll", "clear", "read", "flush", "state", "idle?", "busy", "transmit"}
  /\ pack \in Payloads /\ slot \in Payloads /\ seen \in Payloads
  /\ devState \in {"DEFAULT", "ADDRESSED", "CONFIGURED", "SUSPENDED"}
  /\ oldState \in {"DEFAULT", "ADDRESSED", "CONFIGURED"}
  /\ hid \in {"IDLE", "BUSY"} /\ ep \in {"DIS", "NAK", "VALID", "STALL"}
  /\ ctr \in BOOLEAN /\ halted \in BOOLEAN /\ events \in 0 .. MaxEvents

(* A report that waits for the host is not overwritten in packet memory by *)
(* the task, and a busy HID class has a report with the host or on its way *)
(* there: nothing but a halt of EP1 leaves hhid->state busy for good.      *)
Configured == devState = "CONFIGURED"
BusyIsArmed ==
  /\ Configured /\ pc = "transmit" => ep # "VALID"
  /\ Configured /\ hid = "BUSY" /\ ~halted => ep = "VALID" \/ ctr \/ pc = "transmit"

(* The mouse does not die: again and again the class is ready for a report *)
(* of a configured device, unless the host has halted EP1.                 *)
MouseComesBack == []<>(Configured /\ (hid = "IDLE" \/ halted))

(* No packet waits in the radio unannounced: RX_DR is cleared before the   *)
(* payloads are read and all of them are flushed.                          *)
FifoAnnounced == fifo # <<>> /\ pc \notin {"read", "flush"} => rxdr

(* RxPacket returns a payload it did not receive only when the packet that *)
(* raised RX_DR came between the write to STATUS and the flush of the      *)
(* round before.                                                           *)
JunkOnlyAfterLateArrival == pc = "flush" /\ pack = Junk => late

(* The host gets packets in the order they were sent and none twice.       *)
InOrder == [][HostPoll /\ slot # Junk => slot > seen]_vars
=============================================================================

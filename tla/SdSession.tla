----------------------------- MODULE SdSession -----------------------------
(***************************************************************************)
(* The SD card driver (sd_spi.c) with its multi-block sessions that stay   *)
(* open between calls, the media operations of the flash drive on top of   *)
(* it (usb_storage.c), and FatFs's single-block access (diskio.c), which   *)
(* takes turns with them.  One step is one exchange with the card, which   *)
(* moves only at the bytes the driver clocks; no other task enters the     *)
(* driver meanwhile.                                                       *)
(*                                                                         *)
(* The card (not under src/) answers a command when it is idle, and CMD0   *)
(* always; it sends block after block from CMD18 to CMD12, and stores      *)
(* block after block from CMD25 to the stop token.  A fault is an answer   *)
(* the driver waits for and does not get; the card may also be pulled and  *)
(* put back.                                                               *)
(***************************************************************************)
EXTENDS Integers, Sequences

CONSTANTS
  NumBlocks,  \* blocks on the card
  Data,       \* the values a block can hold
  BlkSize,    \* SD_BLOCK_SIZE: a card of standard capacity counts bytes
  Wrap,       \* stands for 2^32
  Requests,   \* the calls: [op, lba, n, data]
  MaxFaults   \* bound of this model: faults and pulls in one behaviour

Blocks == 0 .. NumBlocks - 1
CardModes == {"absent", "off", "ready", "sending", "receiving"}

ASSUME CardAssumption ==
  /\ NumBlocks \in Nat \ {0} /\ BlkSize \in Nat \ {0} /\ MaxFaults \in Nat
  /\ Wrap \in Nat /\ Wrap > NumBlocks * BlkSize

ASSUME RequestsAssumption ==
  \A r \in Requests :
    /\ r.op \in {"read", "write"} /\ r.user \in {"msc", "fatfs"}
    /\ r.n \in Nat \ {0} /\ r.lba \in Blocks /\ r.lba + r.n <= NumBlocks
    /\ r.data \in [1 .. r.n -> Data]

VARIABLES
  (* sd_spi.c *)
  ready, hc,            \* s_ready, s_hc
  rdOpen, rdNext,       \* s_rd_open, s_rd_next
  wrOpen, wrNext,       \* s_multi_open, s_multi_next
  (* usb_storage.c and diskio.c *)
  capOk,                \* s_cap_ok
  req,                  \* the call
  done,                 \* blocks of it that are through
  got,                  \* what it has read
  status,               \* "busy" until it returns
  step, retried,        \* what the call does next; a chunk was tried again
  (* the card *)
  mode, pos,            \* its state and the block it sends or stores next
  mem, cardHc,
  (* history *)
  budget, faults,       \* faults left, faults during this call
  fresh,                \* the block at hand found no session that fits
  lost                  \* since SD_Init succeeded the card was pulled, missed
                        \* a close, or began what the driver had given up

driverVars == <<ready, hc, rdOpen, rdNext, wrOpen, wrNext>>
nextVars == <<rdNext, wrNext>>
callVars == <<req, done, got, status, step, retried, fresh>>
cardVars == <<mode, pos, mem, cardHc>>
faultVars == <<budget, faults, lost>>
vars == <<driverVars, capOk, callVars, cardVars, faultVars>>

-----------------------------------------------------------------------------
(* What goes over the wire as the address of a block, and what a card of   *)
(* either kind takes it for.  The variant knows high-capacity cards only.  *)
AddressInBlocks(b) == b % Wrap
Address(b) == IF hc THEN b ELSE (b * BlkSize) % Wrap
Addressed(a) == IF cardHc THEN a ELSE a \div BlkSize

Fault == budget > 0 /\ budget' = budget - 1 /\ faults' = faults + 1
NoFault == UNCHANGED <<budget, faults>>

(* sd_session_close leaves the card in mode m: CMD12 for a read, the stop  *)
(* token for a write.  The flags are cleared whatever comes back.  The     *)
(* variant only knows of write sessions.                                   *)
CloseWrites(m) ==
  /\ rdOpen' = FALSE /\ wrOpen' = FALSE
  /\ \/ m = (IF wrOpen /\ mode = "receiving" THEN "ready" ELSE mode)
        /\ NoFault /\ UNCHANGED lost
     \/ wrOpen /\ m = mode /\ Fault /\ lost' = TRUE
Close(m) ==
  /\ rdOpen' = FALSE /\ wrOpen' = FALSE
  /\ \/ m = (IF (rdOpen \/ wrOpen) /\ mode \in {"sending", "receiving"} THEN "ready" ELSE mode)
        /\ NoFault /\ UNCHANGED lost
     \/ (rdOpen \/ wrOpen) /\ m = mode /\ Fault /\ lost' = TRUE

-----------------------------------------------------------------------------
(* SD_Init                                                                 *)

(* Its sd_cs_low closes a session while CS is still high, so that the card *)
(* does not notice; CMD0 brings the card back from anywhere.  A step that  *)
(* fails leaves s_hc and s_ready cleared.                                  *)
InitDone ==
  /\ mode # "absent"
  /\ mode' = "ready"
  /\ ready' = TRUE /\ hc' = cardHc
  /\ lost' = FALSE
  /\ NoFault
InitFailed ==
  /\ \/ mode = "absent" /\ UNCHANGED mode /\ NoFault
     \/ mode # "absent" /\ mode' \in {mode, "off"} /\ Fault
  /\ ready' = FALSE /\ hc' = FALSE
  /\ UNCHANGED lost
SD_Init(ok) ==
  /\ IF ok THEN InitDone ELSE InitFailed
  /\ rdOpen' = FALSE /\ wrOpen' = FALSE
  /\ UNCHANGED <<nextVars, pos, mem, cardHc>>

(* disk_initialize, when f_mount calls it.                                 *)
Mount ==
  /\ status # "busy"
  /\ \E ok \in BOOLEAN : SD_Init(ok)
  /\ UNCHANGED <<capOk, callVars>>

(* sd_storage_get_capacity and usb_storage_preinit, until the capacity has *)
(* been read once: storage_sd_ensure, then CMD9.                           *)
GetCapacity ==
  /\ status # "busy" /\ ~capOk
  /\ \/ ~ready /\ SD_Init(FALSE) /\ UNCHANGED capOk
     \/ ~ready /\ SD_Init(TRUE) /\ capOk' \in BOOLEAN
     \/ /\ ready
        /\ \E m \in CardModes :
             /\ Close(m) /\ mode' = m
             /\ capOk' \in {m = "ready", FALSE}
        /\ UNCHANGED <<ready, hc, nextVars, pos, mem, cardHc>>
  /\ UNCHANGED callVars

-----------------------------------------------------------------------------
(* A call of the flash drive ("msc") or of FatFs                           *)

Blk == req.lba + done
First(r) == IF r.user = "msc" THEN "ensure" ELSE "cs"

(* No READ or WRITE is accepted before the capacity is known, and FatFs    *)
(* asks for sectors when its mount has succeeded.                          *)
Call ==
  /\ status # "busy"
  /\ \E r \in Requests :
       /\ IF r.user = "msc" THEN capOk ELSE ready
       /\ req' = r /\ step' = First(r)
  /\ done' = 0 /\ got' = <<>> /\ status' = "busy"
  /\ retried' = FALSE /\ fresh' = FALSE /\ faults' = 0
  /\ UNCHANGED <<driverVars, capOk, cardVars, budget, lost>>

Goto(s) == step' = s /\ UNCHANGED <<req, done, got, status, retried, fresh>>
Give == step' = "none" /\ status' = "failed" /\ UNCHANGED <<req, done, got, retried, fresh>>

Finish ==
  /\ status = "busy" /\ done = req.n
  /\ status' = "passed" /\ step' = "none"
  /\ UNCHANGED <<driverVars, capOk, req, done, got, retried, fresh, cardVars, faultVars>>

(* A block read from, or stored on, the card at its block b.               *)
Taken(b) == got' = Append(got, mem[b]) /\ UNCHANGED mem
Stored(b) == mem' = [mem EXCEPT ![b] = req.data[done + 1]] /\ UNCHANGED got
Through(b) ==
  /\ IF req.op = "read" THEN Taken(b) ELSE Stored(b)
  /\ done' = done + 1
  /\ step' = (IF req.user = "msc" THEN "chunk" ELSE "cs")
  /\ retried' = FALSE /\ fresh' = FALSE
  /\ UNCHANGED <<req, status>>

(* A block the driver gives up: a write may have reached the card.         *)
NotThrough(b) ==
  UNCHANGED mem \/ (req.op = "write" /\ mem' = [mem EXCEPT ![b] = req.data[done + 1]])

(* storage_sd_ensure.                                                      *)
Ensure ==
  /\ step = "ensure"
  /\ \/ ready /\ Goto("chunk") /\ UNCHANGED <<driverVars, cardVars, faultVars>>
     \/ ~ready /\ SD_Init(TRUE) /\ Goto("chunk")
     \/ ~ready /\ SD_Init(FALSE) /\ Give
  /\ UNCHANGED capOk

(* SD_ReadChunk and SD_WriteChunk: the open session must stand at this     *)
(* block.                                                                  *)
Fits == IF req.op = "read" THEN rdOpen /\ Blk = rdNext ELSE wrOpen /\ Blk = wrNext

(* sd_storage_read and sd_storage_write open a session and try the chunk   *)
(* again, once.  The variant gives up at the first failure of a session.   *)
AgainIfRefused(f) ==
  IF retried \/ ~f THEN Give
  ELSE step' = "begin" /\ fresh' = f /\ UNCHANGED <<req, done, got, status, retried>>
Again(f) ==
  IF retried THEN Give
  ELSE step' = "begin" /\ fresh' = f /\ UNCHANGED <<req, done, got, status, retried>>

(* Refused, what is open stays open.                                       *)
ChunkRefused ==
  /\ step = "chunk" /\ done < req.n /\ ~Fits
  /\ Again(TRUE)
  /\ UNCHANGED <<driverVars, capOk, cardVars, faultVars>>

(* The card takes part; the session then stands at the next block.  The    *)
(* variant skips one.                                                      *)
FollowingButOne(b) == b + 2
Following(b) == b + 1
Streaming == mode = IF req.op = "read" THEN "sending" ELSE "receiving"
ChunkDone ==
  /\ step = "chunk" /\ done < req.n /\ Fits /\ Streaming
  /\ Through(pos)
  /\ pos' = pos + 1
  /\ IF req.op = "read" THEN rdNext' = Following(Blk) /\ UNCHANGED wrNext
     ELSE wrNext' = Following(Blk) /\ UNCHANGED rdNext
  /\ UNCHANGED <<ready, hc, rdOpen, wrOpen, capOk, mode, cardHc, faultVars>>

(* No token, no answer, a refusal or no end of the busy signal.            *)
ChunkFailed ==
  /\ step = "chunk" /\ done < req.n /\ Fits
  /\ \/ ~Streaming /\ NoFault /\ UNCHANGED mem
     \/ Streaming /\ Fault /\ NotThrough(pos)
  /\ Goto("drop")
  /\ UNCHANGED <<driverVars, capOk, mode, pos, cardHc, lost>>

(* The session closed behind a failed chunk, and by the sd_cs_low of every *)
(* transaction that is not a chunk.                                        *)
SessionClose ==
  /\ done < req.n
  /\ \/ step = "drop" /\ Again(FALSE)
     \/ step = "begin" /\ Goto("open")
     \/ step = "cs" /\ Goto("single")
  /\ \E m \in CardModes : Close(m) /\ mode' = m
  /\ UNCHANGED <<ready, hc, nextVars, capOk, pos, mem, cardHc>>

(* SD_ReadBegin and SD_WriteBegin, CMD18 and CMD25: only an idle card      *)
(* answers; it may begin although its answer does not arrive.              *)
Begun == mode' = IF req.op = "read" THEN "sending" ELSE "receiving"
BeginDone ==
  /\ step = "open" /\ mode = "ready"
  /\ Begun /\ pos' = Addressed(Address(Blk))
  /\ IF req.op = "read"
     THEN rdOpen' = TRUE /\ rdNext' = Blk /\ UNCHANGED <<wrOpen, wrNext>>
     ELSE wrOpen' = TRUE /\ wrNext' = Blk /\ UNCHANGED <<rdOpen, rdNext>>
  /\ step' = "chunk" /\ retried' = TRUE
  /\ UNCHANGED <<ready, hc, capOk, req, done, got, status, fresh, mem, cardHc, faultVars>>
BeginFailed ==
  /\ step = "open"
  /\ \/ mode # "ready" /\ NoFault /\ UNCHANGED <<mode, lost>>
     \/ /\ mode = "ready" /\ Fault
        /\ \/ UNCHANGED <<mode, lost>>
           \/ Begun /\ lost' = TRUE
  /\ Give
  /\ UNCHANGED <<driverVars, capOk, pos, mem, cardHc>>

(* SD_ReadBlock and SD_WriteBlock: CMD17 and CMD24, no second try.         *)
SingleDone ==
  /\ step = "single" /\ mode = "ready"
  /\ Through(Addressed(Address(Blk)))
  /\ UNCHANGED <<driverVars, capOk, mode, pos, cardHc, faultVars>>
SingleFailed ==
  /\ step = "single"
  /\ \/ mode # "ready" /\ NoFault /\ UNCHANGED mem
     \/ mode = "ready" /\ Fault /\ NotThrough(Addressed(Address(Blk)))
  /\ Goto("give")
  /\ UNCHANGED <<driverVars, capOk, mode, pos, cardHc, lost>>
SingleGiven ==
  /\ step = "give"
  /\ Give
  /\ UNCHANGED <<driverVars, capOk, cardVars, faultVars>>

-----------------------------------------------------------------------------
(* The card is pulled, and put back: it then needs an SD_Init, but nothing *)
(* makes the driver do one, s_ready stays set.                             *)
Pull ==
  /\ mode # "absent" /\ budget > 0
  /\ mode' = "absent" /\ lost' = TRUE
  /\ budget' = budget - 1
  /\ UNCHANGED <<driverVars, capOk, callVars, pos, mem, cardHc, faults>>
PutBack ==
  /\ mode = "absent"
  /\ mode' = "off"
  /\ UNCHANGED <<driverVars, capOk, callVars, pos, mem, cardHc, faultVars>>

Init ==
  /\ ready = FALSE /\ hc = FALSE /\ capOk = FALSE
  /\ rdOpen = FALSE /\ wrOpen = FALSE /\ rdNext = 0 /\ wrNext = 0
  /\ req \in Requests /\ done = 0 /\ got = <<>> /\ status = "none" /\ step = "none"
  /\ retried = FALSE /\ fresh = FALSE
  /\ mode \in {"absent", "off"} /\ pos = 0 /\ mem \in [Blocks -> Data] /\ cardHc \in BOOLEAN
  /\ budget = MaxFaults /\ faults = 0 /\ lost = FALSE

Chunk == ChunkRefused \/ ChunkDone \/ ChunkFailed
Single == SingleDone \/ SingleFailed \/ SingleGiven
Next ==
  \/ Mount \/ GetCapacity \/ Call \/ Ensure \/ Chunk \/ SessionClose \/ BeginDone \/ BeginFailed
  \/ Single \/ Finish \/ Pull \/ PutBack

Spec == Init /\ [][Next]_vars

-----------------------------------------------------------------------------
(* Properties                                                              *)

TypeOK ==
  /\ {ready, hc, rdOpen, wrOpen, capOk, retried, cardHc, fresh, lost} \subseteq BOOLEAN
  /\ {rdNext, wrNext, pos} \subseteq 0 .. NumBlocks
  /\ req \in Requests /\ done \in 0 .. req.n /\ got \in Seq(Data)
  /\ status \in {"none", "busy", "passed", "failed"}
  /\ step \in {"none", "ensure", "chunk", "drop", "begin", "open", "cs", "single", "give"}
  /\ mode \in CardModes /\ mem \in [Blocks -> Data]
  /\ budget \in 0 .. MaxFaults /\ faults \in 0 .. MaxFaults

(* Across calls, users and failures the driver's idea of the session is    *)
(* the card's state: an open session is the only one, in the same          *)
(* direction, and stands at the same block; without one the card is idle.  *)
(* It is wrong only while "lost", which nothing but SD_Init ends.          *)
SessionMatchesCard ==
  ready /\ ~lost =>
    /\ ~(rdOpen /\ wrOpen)
    /\ mode = IF rdOpen THEN "sending" ELSE IF wrOpen THEN "receiving" ELSE "ready"
    /\ rdOpen => pos = rdNext
    /\ wrOpen => pos = wrNext
    /\ hc = cardHc

(* A call of the flash drive that fails while the driver and the card are  *)
(* in step has met two faults, or one at a block for which no session was  *)
(* open: there the second try is the first one the card sees.              *)
OneFaultIsRetried ==
  [][ status = "busy" /\ status' = "failed" /\ req.user = "msc" /\ ready' /\ ~lost' =>
        faults' >= 2 \/ (faults' = 1 /\ fresh) ]_vars

Device == INSTANCE BlockDevice WITH disk <- mem, Commands <- Requests

(* The media operations are a block device, call by call, whatever the     *)
(* sessions, the users, the faults and the pulls: what is read is what the *)
(* blocks hold, a write changes its own blocks only, and a call that       *)
(* succeeds has taken effect.                                              *)
ImplementsBlockDevice == Device!Spec
=============================================================================

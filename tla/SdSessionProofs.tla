-------------------------- MODULE SdSessionProofs --------------------------
(***************************************************************************)
(* Proofs about SdSession, for every card size, kind of card, set of calls *)
(* and number of faults.                                                   *)
(***************************************************************************)
EXTENDS SdSession, SequenceTheorems, TLAPS

(* TypeOK, one variable at a time.                                         *)
DriverTypes ==
  /\ ready \in BOOLEAN /\ hc \in BOOLEAN /\ rdOpen \in BOOLEAN /\ wrOpen \in BOOLEAN
  /\ rdNext \in 0 .. NumBlocks /\ wrNext \in 0 .. NumBlocks
  /\ capOk \in BOOLEAN
CallTypes ==
  /\ req \in Requests /\ done \in 0 .. req.n /\ got \in Seq(Data)
  /\ status \in {"none", "busy", "passed", "failed"}
  /\ step \in {"none", "ensure", "chunk", "drop", "begin", "open", "cs", "single", "give"}
  /\ retried \in BOOLEAN /\ fresh \in BOOLEAN
CardTypes ==
  /\ mode \in CardModes /\ pos \in 0 .. NumBlocks /\ mem \in [Blocks -> Data]
  /\ cardHc \in BOOLEAN
FaultTypes ==
  /\ budget \in 0 .. MaxFaults /\ faults \in 0 .. MaxFaults /\ budget + faults <= MaxFaults
  /\ lost \in BOOLEAN

(* What is left of a session the driver has open: the card is in it, at    *)
(* the same block, or has been pulled out of it.                           *)
Sessions ==
  /\ ~(rdOpen /\ wrOpen)
  /\ rdOpen => mode \in {"sending", "absent", "off"} /\ (mode = "sending" => pos = rdNext)
  /\ wrOpen => mode \in {"receiving", "absent", "off"} /\ (mode = "receiving" => pos = wrNext)
  /\ ready => hc = cardHc
  /\ ready /\ ~lost => /\ mode \notin {"absent", "off"}
                       /\ ~rdOpen /\ ~wrOpen => mode = "ready"

(* Where a call can be.                                                    *)
Progress ==
  /\ status = "busy" <=> step # "none"
  /\ step \in {"ensure", "chunk", "drop", "begin", "open"} => req.user = "msc"
  /\ step \in {"cs", "single", "give"} => req.user = "fatfs"
  /\ step \notin {"none", "ensure"} => ready
  /\ step \in {"open", "single"} => ~rdOpen /\ ~wrOpen
  /\ step = "ensure" => ~retried
  /\ step \notin {"none", "ensure", "chunk", "cs"} => done < req.n

(* What a call has done so far.                                            *)
Effect ==
  status = "busy" =>
    IF req.op = "read" THEN Len(got) = done
    ELSE \A i \in 1 .. done : mem[req.lba + i - 1] = req.data[i]

(* What a second try has cost: a fault, or nothing where no session was.   *)
Retries ==
  /\ step = "chunk" /\ retried => Fits
  /\ ~lost =>
       /\ step \in {"begin", "open"} => fresh \/ faults >= 1
       /\ step = "chunk" /\ retried => fresh \/ faults >= 1
       /\ step = "drop" => faults >= 1 /\ (retried => fresh \/ faults >= 2)

Types == DriverTypes /\ CallTypes /\ CardTypes /\ FaultTypes
IInv == Types /\ Sessions /\ Progress /\ Effect /\ Retries

-----------------------------------------------------------------------------
(* Facts about the calls and the addresses                                 *)

LEMMA RequestFacts ==
  ASSUME NEW r \in Requests
  PROVE  /\ r.op \in {"read", "write"} /\ r.user \in {"msc", "fatfs"}
         /\ r.n \in Nat \ {0} /\ r.lba \in Nat /\ r.lba + r.n <= NumBlocks
         /\ r.data \in [1 .. r.n -> Data]
  BY RequestsAssumption DEF Blocks

LEMMA BlkFacts ==
  ASSUME CallTypes
  PROVE  /\ Blk \in 0 .. NumBlocks
         /\ done < req.n => Blk \in Blocks /\ req.data[done + 1] \in Data
  BY RequestFacts, CardAssumption DEF CallTypes, Blk, Blocks

LEMMA DivisionUndoesMultiplication ==
  ASSUME NEW b \in Nat, NEW k \in Nat \ {0}
  PROVE  (b * k) \div k = b
  OBVIOUS

(* The card takes the address on the wire for the block the driver means,  *)
(* as long as the two agree on the kind of card.                           *)
LEMMA AddressRoundTrip ==
  ASSUME NEW b \in Blocks, hc = cardHc
  PROVE  Addressed(Address(b)) = b
<1>1. b \in Nat /\ b <= NumBlocks /\ NumBlocks \in Nat /\ BlkSize \in Nat \ {0}
  BY CardAssumption DEF Blocks
<1>2. b * BlkSize \in Nat /\ b * BlkSize <= NumBlocks * BlkSize
  BY <1>1
<1>3. (b * BlkSize) % Wrap = b * BlkSize
  BY <1>2, CardAssumption
<1>4. (b * BlkSize) \div BlkSize = b
  BY <1>1, DivisionUndoesMultiplication
<1> QED
  BY <1>3, <1>4 DEF Addressed, Address

(* What a close does to the session and the card.                          *)
LEMMA CloseFacts ==
  ASSUME DriverTypes, CardTypes, FaultTypes, Sessions,
         NEW m \in CardModes, Close(m), mode' = m, UNCHANGED <<ready, hc, cardHc>>
  PROVE  /\ ~rdOpen' /\ ~wrOpen'
         /\ Sessions' /\ FaultTypes'
         /\ faults' >= faults
         /\ ~lost' => ~lost /\ faults' = faults /\ (ready => m = "ready")
<1>1. ~rdOpen' /\ ~wrOpen'
  BY DEF Close
<1>2. \/ NoFault /\ UNCHANGED lost
      \/ Fault /\ lost' = TRUE
  BY DEF Close
<1>3. FaultTypes' /\ faults' >= faults /\ (~lost' => ~lost /\ faults' = faults)
  <2>1. CASE NoFault /\ UNCHANGED lost
    BY <2>1 DEF FaultTypes, NoFault
  <2>2. CASE Fault /\ lost' = TRUE
    BY <2>2, CardAssumption DEF FaultTypes, Fault
  <2> QED
    BY <1>2, <2>1, <2>2
<1>4. ~lost' /\ ready => m = "ready"
  BY DEF DriverTypes, CardTypes, CardModes, Sessions, Close
<1>5. Sessions'
  BY <1>1, <1>3, <1>4 DEF Sessions
<1> QED
  BY <1>1, <1>3, <1>4, <1>5

(* What an initialization does.                                            *)
LEMMA InitFacts ==
  ASSUME DriverTypes, CardTypes, FaultTypes, Sessions, NEW ok \in BOOLEAN, SD_Init(ok)
  PROVE  /\ ready' = ok /\ ~rdOpen' /\ ~wrOpen'
         /\ hc' \in BOOLEAN /\ CardTypes' /\ Sessions' /\ FaultTypes'
         /\ UNCHANGED <<rdNext, wrNext, pos, mem>>
         /\ ~ok => ~ready'
<1>1. CASE ok
  <2>1. /\ mode' = "ready" /\ ready' = TRUE /\ hc' = cardHc /\ lost' = FALSE
        /\ UNCHANGED <<budget, faults, rdNext, wrNext, pos, mem, cardHc>>
        /\ rdOpen' = FALSE /\ wrOpen' = FALSE
    BY <1>1 DEF SD_Init, InitDone, NoFault, nextVars
  <2>2. CardTypes' /\ FaultTypes' /\ hc' \in BOOLEAN
    BY <2>1 DEF CardTypes, CardModes, FaultTypes
  <2>3. Sessions'
    BY <2>1 DEF Sessions
  <2> QED
    BY <1>1, <2>1, <2>2, <2>3
<1>2. CASE ~ok
  <2>1. /\ ready' = FALSE /\ hc' = FALSE
        /\ UNCHANGED <<lost, rdNext, wrNext, pos, mem, cardHc>>
        /\ rdOpen' = FALSE /\ wrOpen' = FALSE
        /\ mode' \in {mode, "off"}
    BY <1>2 DEF SD_Init, InitFailed, nextVars
  <2>2. NoFault \/ Fault
    BY <1>2 DEF SD_Init, InitFailed
  <2>3. CardTypes' /\ hc' \in BOOLEAN
    BY <2>1 DEF CardTypes, CardModes
  <2>4. FaultTypes'
    <3>1. CASE NoFault
      BY <2>1, <3>1 DEF FaultTypes, NoFault
    <3>2. CASE Fault
      BY <2>1, <3>2, CardAssumption DEF FaultTypes, Fault
    <3> QED
      BY <2>2, <3>1, <3>2
  <2>5. Sessions'
    BY <2>1 DEF Sessions
  <2> QED
    BY <1>2, <2>1, <2>3, <2>4, <2>5
<1> QED
  BY <1>1, <1>2

-----------------------------------------------------------------------------
(* The invariant, step by step                                             *)

LEMMA InitEstablishes == Init => IInv
<1> SUFFICES ASSUME Init PROVE IInv
  OBVIOUS
<1>1. Types
  <2>1. DriverTypes /\ CardTypes /\ FaultTypes
    <3>1. 0 \in 0 .. NumBlocks /\ MaxFaults \in 0 .. MaxFaults /\ 0 \in 0 .. MaxFaults
          /\ MaxFaults + 0 <= MaxFaults
      BY CardAssumption
    <3> QED
      BY <3>1 DEF Init, DriverTypes, CardTypes, FaultTypes, CardModes
  <2>2. req \in Requests /\ req.n \in Nat
    BY RequestFacts DEF Init
  <2>3. got \in Seq(Data)
    BY EmptySeq DEF Init
  <2>4. CallTypes
    <3>1. done \in 0 .. req.n
      BY <2>2 DEF Init
    <3>2. /\ status = "none" /\ step = "none"
          /\ retried = FALSE /\ fresh = FALSE
      BY DEF Init
    <3> QED
      BY <2>2, <2>3, <3>1, <3>2 DEF CallTypes
  <2> QED
    BY <2>1, <2>4 DEF Types
<1>2. Sessions /\ Progress /\ Effect /\ Retries
  BY DEF Init, Sessions, Progress, Effect, Retries
<1> QED
  BY <1>1, <1>2 DEF IInv

LEMMA MountStep ==
  ASSUME IInv, Mount
  PROVE  IInv'
<1>1. PICK ok \in BOOLEAN : SD_Init(ok)
  BY DEF Mount
<1>2. status # "busy" /\ UNCHANGED <<capOk, req, done, got, status, step, retried, fresh>>
  BY DEF Mount, callVars
<1>3. /\ ready' = ok /\ hc' \in BOOLEAN /\ ~rdOpen' /\ ~wrOpen'
      /\ CardTypes' /\ FaultTypes' /\ Sessions' /\ UNCHANGED <<rdNext, wrNext, pos, mem>>
  BY <1>1, InitFacts DEF IInv, Types
<1>4. rdOpen' = FALSE /\ wrOpen' = FALSE
  BY <1>1 DEF SD_Init
<1>5. DriverTypes'
  BY <1>2, <1>3, <1>4 DEF IInv, Types, DriverTypes
<1>6. CallTypes'
  BY <1>2 DEF IInv, Types, CallTypes
<1>7. Progress' /\ Effect' /\ Retries'
  BY <1>2 DEF IInv, Progress, Effect, Retries
<1> QED
  BY <1>3, <1>5, <1>6, <1>7 DEF IInv, Types

LEMMA GetCapacityStep ==
  ASSUME IInv, GetCapacity
  PROVE  IInv'
<1>1. status # "busy" /\ UNCHANGED <<req, done, got, status, step, retried, fresh>>
  BY DEF GetCapacity, callVars
<1>2. CallTypes' /\ Progress' /\ Effect' /\ Retries'
  BY <1>1 DEF IInv, Types, CallTypes, Progress, Effect, Retries
<1>3. CASE \E ok \in BOOLEAN : SD_Init(ok) /\ capOk' \in BOOLEAN
  <2>1. PICK ok \in BOOLEAN : SD_Init(ok) /\ capOk' \in BOOLEAN
    BY <1>3
  <2>2. /\ ready' = ok /\ hc' \in BOOLEAN
        /\ CardTypes' /\ FaultTypes' /\ Sessions' /\ UNCHANGED <<rdNext, wrNext>>
    BY <2>1, InitFacts DEF IInv, Types
  <2>3. rdOpen' = FALSE /\ wrOpen' = FALSE
    BY <2>1 DEF SD_Init
  <2>4. DriverTypes'
    BY <2>1, <2>2, <2>3 DEF IInv, Types, DriverTypes
  <2> QED
    BY <1>2, <2>2, <2>4 DEF IInv, Types
<1>4. CASE /\ \E m \in CardModes : Close(m) /\ mode' = m
           /\ capOk' \in BOOLEAN
           /\ UNCHANGED <<ready, hc, nextVars, pos, mem, cardHc>>
  <2>1. PICK m \in CardModes : Close(m) /\ mode' = m
    BY <1>4
  <2>2. Sessions' /\ FaultTypes'
    BY <1>4, <2>1, CloseFacts DEF IInv, Types
  <2>3. rdOpen' = FALSE /\ wrOpen' = FALSE
    BY <2>1 DEF Close
  <2>4. DriverTypes' /\ CardTypes'
    BY <1>4, <2>1, <2>3 DEF IInv, Types, DriverTypes, CardTypes, nextVars
  <2> QED
    BY <1>2, <2>2, <2>4 DEF IInv, Types
<1>5. capOk \in BOOLEAN
  BY DEF IInv, Types, DriverTypes
<1> QED
  BY <1>3, <1>4, <1>5 DEF GetCapacity

LEMMA CallStep ==
  ASSUME IInv, Call
  PROVE  IInv'
<1>1. PICK r \in Requests :
        (IF r.user = "msc" THEN capOk ELSE ready) /\ req' = r /\ step' = First(r)
  BY DEF Call
<1>2. /\ done' = 0 /\ got' = <<>> /\ status' = "busy" /\ retried' = FALSE /\ fresh' = FALSE
      /\ faults' = 0
      /\ UNCHANGED <<ready, hc, rdOpen, wrOpen, rdNext, wrNext, capOk, mode, pos, mem, cardHc,
                     budget, lost>>
  BY DEF Call, driverVars, cardVars
<1>3. r.n \in Nat \ {0} /\ r.user \in {"msc", "fatfs"}
  BY RequestFacts
<1>4. step' \in {"ensure", "cs"} /\ (step' = "ensure" <=> r.user = "msc")
      /\ (step' = "cs" => ready)
  BY <1>1, <1>3 DEF First
<1>5. Types'
  <2>1. CallTypes'
    <3>1. got' \in Seq(Data)
      BY <1>2, EmptySeq
    <3>2. req' \in Requests /\ done' \in 0 .. req'.n
      BY <1>1, <1>2, <1>3
    <3>3. status' = "busy" /\ retried' = FALSE /\ fresh' = FALSE
      BY <1>2
    <3> QED
      BY <1>4, <3>1, <3>2, <3>3 DEF CallTypes
  <2>2. FaultTypes'
    BY <1>2, CardAssumption DEF IInv, Types, FaultTypes
  <2> QED
    BY <1>2, <2>1, <2>2 DEF IInv, Types, DriverTypes, CardTypes
<1>6. Sessions'
  BY <1>2 DEF IInv, Sessions
<1>7. Progress'
  BY <1>1, <1>2, <1>3, <1>4 DEF Progress
<1>8. Effect'
  BY <1>2 DEF Effect
<1>9. Retries'
  BY <1>2, <1>4 DEF Retries
<1> QED
  BY <1>5, <1>6, <1>7, <1>8, <1>9 DEF IInv

LEMMA EnsureStep ==
  ASSUME IInv, Ensure
  PROVE  IInv'
<1>1. step = "ensure" /\ status = "busy" /\ req.user = "msc" /\ UNCHANGED capOk
  BY DEF IInv, Progress, Ensure
<1>2. CASE ready /\ Goto("chunk") /\ UNCHANGED <<driverVars, cardVars, faultVars>>
  <2>1. /\ step' = "chunk"
        /\ UNCHANGED <<req, done, got, status, retried, fresh, ready, hc, rdOpen, rdNext, wrOpen,
                       wrNext, mode, pos, mem, cardHc, budget, faults, lost>>
    BY <1>2 DEF Goto, driverVars, cardVars, faultVars
  <2> QED
    BY <1>1, <1>2, <2>1
       DEF IInv, Types, DriverTypes, CallTypes, CardTypes, FaultTypes, Sessions, Progress, Effect,
           Retries
<1>3. ASSUME NEW ok \in BOOLEAN, SD_Init(ok), step' \in {"none", "chunk"},
             step' = "none" <=> ~ok,
             status' = IF ok THEN status ELSE "failed",
             UNCHANGED <<req, done, got, retried, fresh>>
      PROVE  IInv'
  <2>1. /\ ready' = ok /\ hc' \in BOOLEAN
        /\ CardTypes' /\ FaultTypes' /\ Sessions' /\ UNCHANGED <<rdNext, wrNext, mem>>
    BY <1>3, InitFacts DEF IInv, Types
  <2>2. rdOpen' = FALSE /\ wrOpen' = FALSE
    BY <1>3 DEF SD_Init
  <2>3. DriverTypes'
    BY <1>1, <2>1, <2>2 DEF IInv, Types, DriverTypes
  <2>4. CallTypes'
    BY <1>3 DEF IInv, Types, CallTypes
  <2>5. Progress' /\ Effect' /\ Retries'
    BY <1>1, <1>3, <2>1 DEF IInv, Progress, Effect, Retries
  <2> QED
    BY <2>1, <2>3, <2>4, <2>5 DEF IInv, Types
<1> QED
  BY <1>2, <1>3 DEF Ensure, Goto, Give

LEMMA ChunkAtBlock ==
  ASSUME IInv, step = "chunk", Fits, Streaming
  PROVE  pos = Blk
  BY DEF IInv, Sessions, Fits, Streaming

LEMMA AddressedBlk ==
  ASSUME IInv, step \notin {"none", "ensure"}, done < req.n
  PROVE  Addressed(Address(Blk)) = Blk
  BY BlkFacts, AddressRoundTrip DEF IInv, Types, Sessions, Progress

(* A block that is through, at its own address.                            *)
LEMMA ThroughStep ==
  ASSUME IInv, step \in {"chunk", "single"}, done < req.n, Through(Blk)
  PROVE  /\ CallTypes' /\ Effect' /\ mem' \in [Blocks -> Data]
         /\ done' = done + 1 /\ ~retried' /\ UNCHANGED <<req, status>>
         /\ step' = (IF req.user = "msc" THEN "chunk" ELSE "cs")
<1>1. /\ done' = done + 1 /\ retried' = FALSE /\ fresh' = FALSE /\ UNCHANGED <<req, status>>
      /\ step' = (IF req.user = "msc" THEN "chunk" ELSE "cs")
  BY DEF Through
<1>2. /\ CallTypes /\ status = "busy" /\ Effect /\ mem \in [Blocks -> Data]
  BY DEF IInv, Types, CardTypes, Progress
<1>3. /\ req.op \in {"read", "write"} /\ req.n \in Nat /\ req.lba \in Nat /\ done \in Nat
      /\ req.lba + req.n <= NumBlocks /\ NumBlocks \in Nat
      /\ Blk \in Blocks /\ req.data[done + 1] \in Data
  BY <1>2, RequestFacts, BlkFacts, CardAssumption DEF CallTypes
<1>4. done' \in 0 .. req'.n
  BY <1>1, <1>2, <1>3 DEF CallTypes
<1>5. CASE req.op = "read"
  <2>1. got' = Append(got, mem[Blk]) /\ mem' = mem /\ mem[Blk] \in Data /\ got \in Seq(Data)
    BY <1>2, <1>3, <1>5 DEF Through, Taken, CallTypes
  <2>2. got' \in Seq(Data) /\ Len(got') = Len(got) + 1
    BY <2>1
  <2>3. CallTypes'
    BY <1>1, <1>2, <1>4, <2>2 DEF CallTypes
  <2>4. Effect'
    BY <1>1, <1>2, <1>5, <2>2 DEF Effect
  <2> QED
    BY <1>1, <1>2, <2>1, <2>3, <2>4
<1>6. CASE req.op = "write"
  <2>1. mem' = [mem EXCEPT ![Blk] = req.data[done + 1]] /\ got' = got
    BY <1>3, <1>6 DEF Through, Stored
  <2>2. mem' \in [Blocks -> Data]
    BY <1>2, <1>3, <2>1
  <2>3. CallTypes'
    BY <1>1, <1>2, <1>4, <2>1 DEF CallTypes
  <2>4. ASSUME NEW i \in 1 .. done + 1
        PROVE  mem'[req.lba + i - 1] = req.data[i]
    <3>1. CASE i = done + 1
      BY <1>2, <1>3, <2>1, <3>1 DEF Blk
    <3>2. CASE i # done + 1
      <4>1. i \in 1 .. done /\ req.lba + i - 1 # Blk /\ req.lba + i - 1 \in Blocks
        BY <1>3, <3>2 DEF Blk, Blocks
      <4> QED
        BY <1>2, <1>6, <2>1, <4>1 DEF Effect
    <3> QED
      BY <3>1, <3>2
  <2>5. Effect'
    BY <1>1, <1>6, <2>4 DEF Effect
  <2> QED
    BY <1>1, <2>2, <2>3, <2>5
<1> QED
  BY <1>3, <1>5, <1>6

(* A block the driver gives up.                                            *)
LEMMA NotThroughStep ==
  ASSUME IInv, status = "busy", done < req.n, UNCHANGED mem \/ NotThrough(Blk),
         UNCHANGED <<req, done, got, status>>
  PROVE  Effect' /\ mem' \in [Blocks -> Data]
<1>1. CallTypes /\ Effect /\ mem \in [Blocks -> Data]
  BY DEF IInv, Types, CardTypes
<1>2. CASE UNCHANGED mem
  BY <1>1, <1>2 DEF Effect
<1>3. CASE req.op = "write" /\ mem' = [mem EXCEPT ![Blk] = req.data[done + 1]]
  <2>1. /\ req.lba \in Nat /\ done \in Nat /\ Blk \in Blocks /\ req.data[done + 1] \in Data
        /\ req.n \in Nat /\ req.lba + req.n <= NumBlocks /\ NumBlocks \in Nat
    BY <1>1, RequestFacts, BlkFacts, CardAssumption DEF CallTypes
  <2>2. mem' \in [Blocks -> Data]
    BY <1>1, <1>3, <2>1
  <2>3. ASSUME NEW i \in 1 .. done
        PROVE  mem'[req.lba + i - 1] = req.data[i]
    <3>1. req.lba + i - 1 # Blk /\ req.lba + i - 1 \in Blocks
      BY <2>1 DEF Blk, Blocks
    <3> QED
      BY <1>1, <1>3, <2>1, <3>1 DEF Effect
  <2> QED
    BY <1>3, <2>2, <2>3 DEF Effect
<1> QED
  BY <1>2, <1>3 DEF NotThrough

(* A call that goes on, or ends, without a block.                          *)
LEMMA WithoutBlock ==
  ASSUME IInv, NEW f \in BOOLEAN, Again(f) \/ Give
  PROVE  /\ CallTypes' /\ UNCHANGED <<req, done, got, retried>>
         /\ \/ step' = "begin" /\ ~retried /\ fresh' = f /\ UNCHANGED status
            \/ step' = "none" /\ status' = "failed" /\ UNCHANGED fresh
         /\ Again(f) /\ step' = "none" => retried
  BY DEF IInv, Types, CallTypes, Again, Give

LEMMA ChunkRefusedStep ==
  ASSUME IInv, ChunkRefused
  PROVE  IInv'
<1>1. /\ step = "chunk" /\ done < req.n /\ ~Fits /\ Again(TRUE)
      /\ UNCHANGED <<ready, hc, rdOpen, rdNext, wrOpen, wrNext, capOk, mode, pos, mem, cardHc,
                     budget, faults, lost>>
  BY DEF ChunkRefused, driverVars, cardVars, faultVars
<1>2. ~retried /\ ready /\ req.user = "msc" /\ status = "busy"
  BY <1>1 DEF IInv, Retries, Progress
<1>3. /\ CallTypes' /\ step' = "begin" /\ fresh' = TRUE
      /\ UNCHANGED <<req, done, got, status, retried>>
  BY <1>1, <1>2, WithoutBlock DEF Again
<1>4. Types' /\ Sessions'
  BY <1>1, <1>3 DEF IInv, Types, DriverTypes, CardTypes, FaultTypes, Sessions
<1>5. Progress' /\ Effect' /\ Retries'
  BY <1>1, <1>2, <1>3 DEF IInv, Progress, Effect, Retries
<1> QED
  BY <1>4, <1>5 DEF IInv

LEMMA ChunkDoneStep ==
  ASSUME IInv, ChunkDone
  PROVE  IInv' /\ Through(Blk)
<1>1. /\ step = "chunk" /\ done < req.n /\ Fits /\ Streaming /\ pos' = pos + 1
      /\ UNCHANGED <<ready, hc, rdOpen, wrOpen, capOk, mode, cardHc, budget, faults, lost>>
      /\ Through(pos)
  BY DEF ChunkDone, faultVars
<1>2. pos = Blk
  BY <1>1, ChunkAtBlock
<1>3. Through(Blk)
  BY <1>1, <1>2
<1>4. ready /\ req.user = "msc" /\ status = "busy"
  BY <1>1 DEF IInv, Progress
<1>5. /\ CallTypes' /\ Effect' /\ mem' \in [Blocks -> Data] /\ done' = done + 1 /\ ~retried'
      /\ UNCHANGED <<req, status>> /\ step' = "chunk"
  BY <1>1, <1>3, <1>4, ThroughStep
<1>6. Blk \in 0 .. NumBlocks - 1 /\ Blk + 1 \in 0 .. NumBlocks
  BY <1>1, BlkFacts, CardAssumption DEF IInv, Types, Blocks
<1>7. \/ req.op = "read" /\ rdNext' = Blk + 1 /\ wrNext' = wrNext
      \/ req.op # "read" /\ wrNext' = Blk + 1 /\ rdNext' = rdNext
  BY DEF ChunkDone, Following
<1>8. Types'
  BY <1>1, <1>2, <1>5, <1>6, <1>7 DEF IInv, Types, DriverTypes, CardTypes, FaultTypes
<1>9. Sessions'
  BY <1>1, <1>2, <1>7 DEF IInv, Sessions, Streaming, Fits
<1>10. Progress' /\ Retries'
  BY <1>1, <1>4, <1>5 DEF IInv, Progress, Retries
<1> QED
  BY <1>3, <1>5, <1>8, <1>9, <1>10 DEF IInv

LEMMA ChunkFailedStep ==
  ASSUME IInv, ChunkFailed
  PROVE  IInv' /\ (UNCHANGED mem \/ NotThrough(Blk))
<1>1. /\ step = "chunk" /\ done < req.n /\ Fits /\ Goto("drop")
      /\ UNCHANGED <<ready, hc, rdOpen, rdNext, wrOpen, wrNext, capOk, mode, pos, cardHc, lost>>
  BY DEF ChunkFailed, driverVars
<1>2. \/ ~Streaming /\ NoFault /\ UNCHANGED mem
      \/ Streaming /\ Fault /\ NotThrough(pos)
  BY DEF ChunkFailed
<1>3. UNCHANGED mem \/ NotThrough(Blk)
  BY <1>1, <1>2, ChunkAtBlock
<1>4. step' = "drop" /\ UNCHANGED <<req, done, got, status, retried, fresh>>
  BY <1>1 DEF Goto
<1>5. ready /\ req.user = "msc" /\ status = "busy"
  BY <1>1 DEF IInv, Progress
<1>6. Effect' /\ mem' \in [Blocks -> Data]
  BY <1>1, <1>3, <1>4, <1>5, NotThroughStep
<1>7. FaultTypes'
  <2>1. CASE NoFault
    BY <1>1, <2>1 DEF IInv, Types, FaultTypes, NoFault
  <2>2. CASE Fault
    BY <1>1, <2>2, CardAssumption DEF IInv, Types, FaultTypes, Fault
  <2> QED
    BY <1>2, <2>1, <2>2
<1>8. Types' /\ Sessions' /\ Progress'
  BY <1>1, <1>4, <1>5, <1>6, <1>7
     DEF IInv, Types, DriverTypes, CallTypes, CardTypes, Sessions, Progress
<1>9. ~lost => Streaming
  BY <1>1, <1>5 DEF IInv, Sessions, Streaming, Fits
<1>10. Retries'
  <2>1. ~lost => faults' = faults + 1 /\ faults \in Nat
    BY <1>2, <1>9 DEF Fault, IInv, Types, FaultTypes
  <2> QED
    BY <1>1, <1>4, <2>1 DEF IInv, Retries
<1> QED
  BY <1>3, <1>6, <1>8, <1>10 DEF IInv

LEMMA SessionCloseStep ==
  ASSUME IInv, SessionClose
  PROVE  IInv'
<1>1. /\ done < req.n
      /\ UNCHANGED <<ready, hc, rdNext, wrNext, capOk, pos, mem, cardHc>>
  BY DEF SessionClose, nextVars
<1>2. PICK m \in CardModes : Close(m) /\ mode' = m
  BY DEF SessionClose
<1>3. /\ ~rdOpen' /\ ~wrOpen' /\ Sessions' /\ FaultTypes' /\ faults' >= faults
      /\ ~lost' => ~lost /\ faults' = faults
  BY <1>1, <1>2, CloseFacts DEF IInv, Types
<1>4. rdOpen' = FALSE /\ wrOpen' = FALSE
  BY <1>2 DEF Close
<1>5. DriverTypes' /\ CardTypes'
  BY <1>1, <1>2, <1>4 DEF IInv, Types, DriverTypes, CardTypes
<1>6. CASE step = "drop" /\ Again(FALSE)
  <2>1. /\ CallTypes' /\ UNCHANGED <<req, done, got, retried>>
        /\ \/ step' = "begin" /\ fresh' = FALSE /\ UNCHANGED status
           \/ step' = "none" /\ status' = "failed"
    BY <1>6, WithoutBlock DEF Again, Give
  <2>2. status = "busy" /\ ready /\ req.user = "msc"
    BY <1>6 DEF IInv, Progress
  <2>3. Progress' /\ Effect' /\ Retries'
    BY <1>1, <1>3, <1>6, <2>1, <2>2 DEF IInv, Progress, Effect, Retries
  <2> QED
    BY <1>3, <1>5, <2>1, <2>3 DEF IInv, Types
<1>7. CASE \/ step = "begin" /\ Goto("open")
           \/ step = "cs" /\ Goto("single")
  <2>1. /\ step \in {"begin", "cs"} /\ step' = IF step = "begin" THEN "open" ELSE "single"
        /\ UNCHANGED <<req, done, got, status, retried, fresh>>
    BY <1>7 DEF Goto
  <2>2. CallTypes'
    BY <2>1 DEF IInv, Types, CallTypes
  <2>3. Progress' /\ Effect'
    BY <1>1, <1>3, <2>1 DEF IInv, Progress, Effect
  <2>4. Retries'
    BY <1>3, <2>1 DEF IInv, Retries
  <2> QED
    BY <1>3, <1>5, <2>2, <2>3, <2>4 DEF IInv, Types
<1> QED
  BY <1>6, <1>7 DEF SessionClose

LEMMA BeginDoneStep ==
  ASSUME IInv, BeginDone
  PROVE  IInv'
<1>1. /\ step = "open" /\ mode = "ready" /\ pos' = Addressed(Address(Blk))
      /\ step' = "chunk" /\ retried' = TRUE
      /\ mode' = IF req.op = "read" THEN "sending" ELSE "receiving"
      /\ IF req.op = "read"
         THEN rdOpen' = TRUE /\ rdNext' = Blk /\ UNCHANGED <<wrOpen, wrNext>>
         ELSE wrOpen' = TRUE /\ wrNext' = Blk /\ UNCHANGED <<rdOpen, rdNext>>
      /\ UNCHANGED <<ready, hc, capOk, req, done, got, status, fresh, mem, cardHc, budget, faults,
                     lost>>
  BY DEF BeginDone, Begun, faultVars
<1>2. done < req.n /\ ready /\ ~rdOpen /\ ~wrOpen /\ req.user = "msc" /\ status = "busy"
  BY <1>1 DEF IInv, Progress
<1>3. pos' = Blk /\ Blk \in 0 .. NumBlocks
  BY <1>1, <1>2, AddressedBlk, BlkFacts DEF IInv, Types
<1>4. Blk' = Blk
  BY <1>1 DEF Blk
<1>5. Types'
  BY <1>1, <1>3 DEF IInv, Types, DriverTypes, CallTypes, CardTypes, FaultTypes, CardModes
<1>6. Sessions'
  BY <1>1, <1>2, <1>3 DEF IInv, Sessions
<1>7. Progress' /\ Effect'
  BY <1>1, <1>2 DEF IInv, Progress, Effect
<1>8. Retries'
  BY <1>1, <1>4 DEF IInv, Retries, Fits
<1> QED
  BY <1>5, <1>6, <1>7, <1>8 DEF IInv

LEMMA BeginFailedStep ==
  ASSUME IInv, BeginFailed
  PROVE  IInv'
<1>1. /\ step = "open" /\ step' = "none" /\ status' = "failed"
      /\ UNCHANGED <<ready, hc, rdOpen, rdNext, wrOpen, wrNext, capOk, req, done, got, retried,
                     fresh, pos, mem, cardHc>>
  BY DEF BeginFailed, Give, driverVars
<1>2. \/ NoFault /\ UNCHANGED <<mode, lost>>
      \/ Fault /\ (UNCHANGED <<mode, lost>> \/ (Begun /\ lost' = TRUE))
  BY DEF BeginFailed
<1>3. ~rdOpen /\ ~wrOpen
  BY <1>1 DEF IInv, Progress
<1>4. mode' \in CardModes /\ lost' \in BOOLEAN
  BY <1>2 DEF IInv, Types, CardTypes, FaultTypes, Begun, CardModes
<1>5. FaultTypes'
  <2>1. CASE NoFault
    BY <1>4, <2>1 DEF IInv, Types, FaultTypes, NoFault
  <2>2. CASE Fault
    BY <1>4, <2>2, CardAssumption DEF IInv, Types, FaultTypes, Fault
  <2> QED
    BY <1>2, <2>1, <2>2
<1>6. Types'
  BY <1>1, <1>4, <1>5 DEF IInv, Types, DriverTypes, CallTypes, CardTypes
<1>7. Sessions'
  BY <1>1, <1>2, <1>3 DEF IInv, Sessions
<1>8. Progress' /\ Effect' /\ Retries'
  BY <1>1 DEF IInv, Progress, Effect, Retries
<1> QED
  BY <1>6, <1>7, <1>8 DEF IInv

LEMMA SingleDoneStep ==
  ASSUME IInv, SingleDone
  PROVE  IInv' /\ Through(Blk) /\ done < req.n
<1>1. /\ step = "single" /\ Through(Addressed(Address(Blk)))
      /\ UNCHANGED <<ready, hc, rdOpen, rdNext, wrOpen, wrNext, capOk, mode, pos, cardHc,
                     budget, faults, lost>>
  BY DEF SingleDone, driverVars, faultVars
<1>2. done < req.n /\ ready /\ req.user = "fatfs" /\ status = "busy"
  BY <1>1 DEF IInv, Progress
<1>3. Through(Blk)
  BY <1>1, <1>2, AddressedBlk
<1>4. /\ CallTypes' /\ Effect' /\ mem' \in [Blocks -> Data] /\ done' = done + 1
      /\ UNCHANGED <<req, status>> /\ step' = "cs"
  BY <1>1, <1>2, <1>3, ThroughStep
<1>5. Types' /\ Sessions'
  BY <1>1, <1>4 DEF IInv, Types, DriverTypes, CardTypes, FaultTypes, Sessions
<1>6. Progress' /\ Retries'
  BY <1>1, <1>2, <1>4 DEF IInv, Progress, Retries
<1> QED
  BY <1>2, <1>3, <1>4, <1>5, <1>6 DEF IInv

LEMMA SingleFailedStep ==
  ASSUME IInv, SingleFailed
  PROVE  IInv' /\ (UNCHANGED mem \/ NotThrough(Blk))
<1>1. /\ step = "single" /\ step' = "give"
      /\ UNCHANGED <<req, done, got, status, retried, fresh, ready, hc, rdOpen, rdNext, wrOpen,
                     wrNext, capOk, mode, pos, cardHc, lost>>
  BY DEF SingleFailed, Goto, driverVars
<1>2. \/ NoFault /\ UNCHANGED mem
      \/ Fault /\ NotThrough(Addressed(Address(Blk)))
  BY DEF SingleFailed
<1>3. done < req.n /\ ready /\ req.user = "fatfs" /\ status = "busy"
  BY <1>1 DEF IInv, Progress
<1>4. UNCHANGED mem \/ NotThrough(Blk)
  BY <1>1, <1>2, <1>3, AddressedBlk
<1>5. Effect' /\ mem' \in [Blocks -> Data]
  BY <1>1, <1>3, <1>4, NotThroughStep
<1>6. FaultTypes'
  <2>1. CASE NoFault
    BY <1>1, <2>1 DEF IInv, Types, FaultTypes, NoFault
  <2>2. CASE Fault
    BY <1>1, <2>2, CardAssumption DEF IInv, Types, FaultTypes, Fault
  <2> QED
    BY <1>2, <2>1, <2>2
<1>7. Types' /\ Sessions'
  BY <1>1, <1>5, <1>6 DEF IInv, Types, DriverTypes, CallTypes, CardTypes, Sessions
<1>8. Progress' /\ Retries'
  BY <1>1, <1>3 DEF IInv, Progress, Retries
<1> QED
  BY <1>4, <1>5, <1>7, <1>8 DEF IInv

LEMMA ReturnStep ==
  ASSUME IInv, SingleGiven \/ Finish
  PROVE  IInv'
<1>1. /\ step' = "none" /\ status' \in {"passed", "failed"}
      /\ UNCHANGED <<req, done, got, retried, fresh, ready, hc, rdOpen, rdNext, wrOpen, wrNext,
                     capOk, mode, pos, mem, cardHc, budget, faults, lost>>
  BY DEF SingleGiven, Finish, Give, driverVars, cardVars, faultVars
<1>2. Types' /\ Sessions'
  BY <1>1 DEF IInv, Types, DriverTypes, CallTypes, CardTypes, FaultTypes, Sessions
<1>3. Progress' /\ Effect' /\ Retries'
  BY <1>1 DEF Progress, Effect, Retries
<1> QED
  BY <1>2, <1>3 DEF IInv

LEMMA PullStep ==
  ASSUME IInv, Pull \/ PutBack
  PROVE  IInv'
<1>1. /\ mode' \in {"absent", "off"} /\ lost' \in BOOLEAN /\ (lost => lost')
      /\ UNCHANGED <<ready, hc, rdOpen, rdNext, wrOpen, wrNext, capOk, req, done, got, status,
                     step, retried, fresh, pos, mem, cardHc, faults>>
  BY DEF Pull, PutBack, IInv, Types, FaultTypes, driverVars, callVars, faultVars
<1>2. FaultTypes'
  BY <1>1, CardAssumption DEF Pull, PutBack, IInv, Types, FaultTypes, faultVars
<1>3. Types'
  BY <1>1, <1>2 DEF IInv, Types, DriverTypes, CallTypes, CardTypes, CardModes
<1>4. ready => lost'
  BY <1>1 DEF Pull, PutBack, IInv, Sessions, faultVars
<1>5. Sessions'
  BY <1>1, <1>4 DEF IInv, Sessions
<1>6. Progress' /\ Effect' /\ Retries'
  BY <1>1 DEF IInv, Progress, Effect, Retries, Fits, Blk
<1> QED
  BY <1>3, <1>5, <1>6 DEF IInv

LEMMA NextPreserves == IInv /\ [Next]_vars => IInv'
<1> SUFFICES ASSUME IInv, [Next]_vars PROVE IInv'
  OBVIOUS
<1>1. CASE UNCHANGED vars
  BY <1>1 DEF vars, driverVars, callVars, cardVars, faultVars, IInv, Types, DriverTypes, CallTypes,
              CardTypes, FaultTypes, Sessions, Progress, Effect, Retries, Fits, Blk
<1>2. CASE Next
  BY <1>2, MountStep, GetCapacityStep, CallStep, EnsureStep, ChunkRefusedStep, ChunkDoneStep,
     ChunkFailedStep, SessionCloseStep, BeginDoneStep, BeginFailedStep, SingleDoneStep,
     SingleFailedStep, ReturnStep, PullStep
     DEF Next, Chunk, Single
<1> QED
  BY <1>1, <1>2

(* The invariant all the theorems below rest on.                           *)
THEOREM SessionInvariant == Spec => []IInv
  BY InitEstablishes, NextPreserves, PTL DEF Spec

-----------------------------------------------------------------------------
(* The properties                                                          *)

(* Every variable of the driver, the call and the card keeps its type, for *)
(* every card size: in particular no session runs past the card's end.     *)
THEOREM TypeCorrect == Spec => []TypeOK
<1>1. IInv => TypeOK
  BY DEF IInv, Types, DriverTypes, CallTypes, CardTypes, FaultTypes, TypeOK
<1> QED
  BY <1>1, SessionInvariant, PTL

(* s_rd_open, s_multi_open and their next block tell the state of the card *)
(* whenever it answers and nothing was lost, whoever used it before.       *)
THEOREM SessionsAgree == Spec => []SessionMatchesCard
<1>1. IInv => SessionMatchesCard
  BY DEF IInv, Sessions, SessionMatchesCard
<1> QED
  BY <1>1, SessionInvariant, PTL

(* sd_storage_read and sd_storage_write give up on a card that is in step  *)
(* only after a second fault, or a first one on a new session.             *)
THEOREM SecondTry == Spec => OneFaultIsRetried
<1> DEFINE P == status = "busy" /\ status' = "failed" /\ req.user = "msc" /\ ready' /\ ~lost' =>
                  faults' >= 2 \/ (faults' = 1 /\ fresh)
<1>1. ASSUME IInv, Next
      PROVE  P
  <2> SUFFICES ASSUME status = "busy", status' = "failed", req.user = "msc", ready', ~lost'
               PROVE  faults' >= 2 \/ (faults' = 1 /\ fresh)
    OBVIOUS
  <2>0. /\ faults \in Nat /\ step # "none" /\ step \notin {"cs", "single", "give"}
        /\ step # "ensure" => ready
        /\ step \in {"open", "drop", "begin"} => done < req.n
    BY <1>1 DEF IInv, Types, FaultTypes, Progress
  <2>1. CASE Ensure
    BY <1>1, <2>1, InitFacts DEF Ensure, Goto, IInv, Types
  <2>2. CASE ChunkRefused
    <3>1. ~retried
      BY <1>1, <2>2 DEF ChunkRefused, IInv, Retries
    <3> QED
      BY <2>2, <3>1 DEF ChunkRefused, Again
  <2>3. CASE SessionClose
    <3>1. step = "drop" /\ Again(FALSE)
      BY <2>3 DEF SessionClose, Goto
    <3>2. retried
      BY <3>1 DEF Again
    <3>3. faults' = faults /\ ~lost
      <4>1. PICK m \in CardModes : Close(m) /\ mode' = m
        BY <2>3 DEF SessionClose
      <4>2. UNCHANGED <<ready, hc, cardHc>>
        BY <2>3 DEF SessionClose
      <4> QED
        BY <1>1, <4>1, <4>2, CloseFacts DEF IInv, Types
    <3>4. faults >= 1 /\ (fresh \/ faults >= 2)
      BY <1>1, <3>1, <3>2, <3>3 DEF IInv, Retries
    <3> QED
      BY <2>0, <3>3, <3>4
  <2>4. CASE BeginFailed
    <3>1. step = "open" /\ ready
      BY <2>0, <2>4 DEF BeginFailed
    <3>2. ~lost /\ (mode # "ready" \/ Fault)
      BY <2>4 DEF BeginFailed
    <3>3. mode = "ready"
      BY <1>1, <3>1, <3>2 DEF IInv, Sessions, Progress
    <3>4. faults' = faults + 1 /\ (fresh \/ faults >= 1)
      BY <1>1, <3>1, <3>2, <3>3 DEF Fault, IInv, Retries
    <3> QED
      BY <2>0, <3>4
  <2>5. CASE Mount \/ GetCapacity \/ Call \/ Pull \/ PutBack
    BY <2>5 DEF Mount, GetCapacity, Call, Pull, PutBack, callVars
  <2>6. CASE ChunkDone \/ ChunkFailed \/ BeginDone \/ SingleDone
    BY <2>6 DEF ChunkDone, ChunkFailed, BeginDone, SingleDone, Through, Goto
  <2>7. CASE SingleFailed \/ SingleGiven \/ Finish
    BY <2>0, <2>7 DEF SingleFailed, SingleGiven, Finish
  <2> QED
    BY <1>1, <2>1, <2>2, <2>3, <2>4, <2>5, <2>6, <2>7 DEF Next, Chunk, Single
<1>2. IInv /\ [Next]_vars => [P]_vars
  BY <1>1
<1> QED
  BY <1>2, SessionInvariant, PTL DEF Spec, OneFaultIsRetried

(* A block that is through is a Store or a Deliver of the block device.    *)
LEMMA ThroughIsDeviceStep ==
  ASSUME IInv, status = "busy", done < req.n, Through(Blk)
  PROVE  Device!Next
<1>1. /\ CallTypes /\ req \in Requests /\ UNCHANGED <<req, status>>
      /\ req.op = "read" => Len(got) = done
  BY DEF IInv, Types, CallTypes, Effect, Through
<1>2. /\ req.op \in {"read", "write"} /\ req.n \in Nat /\ done \in Nat /\ req.lba \in Nat
  BY <1>1, RequestFacts DEF CallTypes
<1>3. CASE req.op = "read"
  BY <1>1, <1>3 DEF Through, Taken, Blk, Device!Next, Device!Deliver
<1>4. CASE req.op = "write"
  <2>1. mem' = [mem EXCEPT ![Blk] = req.data[done + 1]] /\ got' = got
    BY <1>4 DEF Through, Stored
  <2>2. done + 1 \in 1 .. req.n /\ req.lba + (done + 1) - 1 = Blk
    BY <1>2 DEF Blk
  <2> QED
    BY <1>1, <1>4, <2>1, <2>2 DEF Device!Next, Device!Store
<1> QED
  BY <1>2, <1>3, <1>4

LEMMA NotThroughIsDeviceStep ==
  ASSUME IInv, status = "busy", done < req.n, UNCHANGED mem \/ NotThrough(Blk),
         UNCHANGED <<req, got, status>>
  PROVE  [Device!Next]_(Device!vars)
<1>1. CASE UNCHANGED mem
  BY <1>1 DEF Device!vars
<1>2. CASE req.op = "write" /\ mem' = [mem EXCEPT ![Blk] = req.data[done + 1]]
  <2>1. req.n \in Nat /\ done \in Nat /\ req.lba \in Nat
    BY RequestFacts DEF IInv, Types, CallTypes
  <2>2. done + 1 \in 1 .. req.n /\ req.lba + (done + 1) - 1 = Blk
    BY <2>1 DEF Blk
  <2> QED
    BY <1>2, <2>2 DEF Device!Next, Device!Store
<1> QED
  BY <1>1, <1>2 DEF NotThrough

(* A call that ends is an answer; one that has passed has taken effect.    *)
LEMMA GivenIsDeviceStep ==
  ASSUME IInv, status = "busy", UNCHANGED <<mem, req, got>>, status' \in {"busy", "failed"}
  PROVE  [Device!Next]_(Device!vars)
  BY DEF Device!Next, Device!Answer, Device!vars

LEMMA FinishIsDeviceStep ==
  ASSUME IInv, Finish
  PROVE  Device!Next
<1>1. /\ status = "busy" /\ status' = "passed" /\ done = req.n /\ UNCHANGED <<mem, req, got>>
  BY DEF Finish, cardVars
<1>2. Device!Done
  BY <1>1, RequestFacts DEF IInv, Types, CallTypes, Effect, Device!Done
<1> QED
  BY <1>1, <1>2 DEF Device!Next, Device!Answer

LEMMA NextIsDeviceStep == IInv /\ [Next]_vars => [Device!Next]_(Device!vars)
<1> SUFFICES ASSUME IInv, [Next]_vars PROVE [Device!Next]_(Device!vars)
  OBVIOUS
<1>0. step # "none" => status = "busy"
  BY DEF IInv, Progress
<1>1. CASE UNCHANGED vars \/ Pull \/ PutBack
  BY <1>1 DEF vars, callVars, cardVars, Pull, PutBack, Device!vars
<1>2. CASE Mount \/ GetCapacity
  BY <1>2 DEF Mount, GetCapacity, SD_Init, callVars, Device!vars
<1>3. CASE Call
  BY <1>3 DEF Call, cardVars, Device!Next, Device!Issue
<1>4. CASE Ensure \/ ChunkRefused \/ SessionClose \/ SingleGiven
  <2>1. /\ UNCHANGED <<mem, req, got>> /\ step # "none"
        /\ status' = status \/ status' = "failed"
    BY <1>4 DEF Ensure, ChunkRefused, SessionClose, SingleGiven, Goto, Give, Again, SD_Init, cardVars
  <2> QED
    BY <1>0, <2>1, GivenIsDeviceStep
<1>5. CASE BeginDone \/ BeginFailed
  <2>1. /\ UNCHANGED <<mem, req, got>> /\ step # "none"
        /\ status' = status \/ status' = "failed"
    BY <1>5 DEF BeginDone, BeginFailed, Give
  <2> QED
    BY <1>0, <2>1, GivenIsDeviceStep
<1>6. CASE ChunkDone
  BY <1>0, <1>6, ChunkDoneStep, ThroughIsDeviceStep DEF ChunkDone
<1>7. CASE SingleDone
  BY <1>0, <1>7, SingleDoneStep, ThroughIsDeviceStep DEF SingleDone
<1>8. CASE ChunkFailed
  BY <1>0, <1>8, ChunkFailedStep, NotThroughIsDeviceStep DEF ChunkFailed, Goto
<1>9. CASE SingleFailed
  <2>1. step = "single" /\ done < req.n /\ UNCHANGED <<req, got, status>>
    BY <1>9 DEF SingleFailed, Goto, IInv, Progress
  <2> QED
    BY <1>0, <1>9, <2>1, SingleFailedStep, NotThroughIsDeviceStep
<1>10. CASE Finish
  BY <1>10, FinishIsDeviceStep
<1> QED
  BY <1>1, <1>2, <1>3, <1>4, <1>5, <1>6, <1>7, <1>8, <1>9, <1>10 DEF Next, Chunk, Single

(* The card behind usb_storage.c and diskio.c is a block device: every     *)
(* step of a call, a fault or a pull is one of its steps or changes        *)
(* nothing it shows.                                                       *)
THEOREM CardRefinesBlockDevice == Spec => ImplementsBlockDevice
<1>1. Init => Device!Init
  BY DEF Init, Device!Init, Blocks, Device!Blocks
<1> QED
  BY <1>1, NextIsDeviceStep, SessionInvariant, PTL DEF Spec, ImplementsBlockDevice, Device!Spec
=============================================================================

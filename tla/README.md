# Verification of the 2.4G mouse receiver and USB flash drive

The firmware (an STM32F103 with FreeRTOS) is one composite USB device: a HID mouse fed by an
nRF24L01 radio and a Bulk-Only mass-storage flash drive whose medium is an SD card. This
directory holds TLA+ models of its own code, TLC configurations that check them on small
instances, and proofs checked by TLAPS. Paths below are relative to `src/`;
`MSC/` stands for `Middlewares/ST/STM32_USB_Device_Library/Class/MSC/Src/`.

## 1. Inventory

| Part | State | Operations | Talks to |
|---|---|---|---|
| Bulk-Only transport `MSC/usbd_msc_bot.c` | `bot_state`, `bot_status`, `cbw`, `csw`, `bot_data(_length)` | Init, Reset, DataIn, DataOut, CBW_Decode, SendData, SendCSW, Abort, CplClrFeature | called in the USB interrupt (SendCSW also by the task); SCSI layer; endpoints |
| SCSI commands `MSC/usbd_msc_scsi.c` | `scsi_blk_addr/len/nbr/size`, sense ring | one handler per command, range check, sense | medium (`fops`), transport |
| Data pipeline `MSC/usbd_msc_scsi.c:30-229` | `s_buf[2]`, `s_buf_idx`, signal queue, read-ahead flags | signal from the interrupt, the `scsi_msc` task, reset | queue, endpoints, card |
| PMA double buffer `USB_DEVICE/Target/usbd_pma_db.c` | per endpoint: transfer progress, packets in the hardware; the two toggles in the endpoint register; `s_anom`, `s_resync` | Transmit, PrepareReceive, OpenEp, Reset, the CTR interrupt | USB peripheral, HAL callbacks |
| Flash-drive medium `App/Src/usb_storage.c` | cached capacity, last activity | capacity, ready, read, write | card driver |
| Card driver `App/Src/sd_spi.c` | ready, addressing mode, open CMD18/CMD25 session and its next block | init, block read/write, session begin/chunk/end | SPI, DMA |
| Logger `App/Src/sd_log.c`, `diskio.c` | record queue, 512-byte buffer, drop counters | append, flush, mount/retry | FatFs, card driver, activity of the flash drive |
| Mouse `App/Src/NRF24L01.c`, `app_main.c`, HID class | radio FIFO, HID endpoint state | poll, send report | radio, endpoint 1 |
| Composite class `App/Src/usbd_composite.c`, `MSC/usbd_msc.c` | class handles | setup, data in/out dispatch | USB core |
| Monitoring `App/Src/sysmon.c`, `console.c` | counters | print, feed watchdog | UART |

Tasks and priorities: `rf_rx` 5 (wakes every millisecond), `scsi_msc` 4, `sd_log` 3 (its start is
commented out at `App/Src/app_main.c:80`), `sysmon` 1. Both USB interrupt lines have the same
priority and preempt every task.

What is hard: the interrupt and the task share `hmsc` and the buffers without locks; every
completion must wake the task, and the task must re-arm the endpoint, exactly once; errors of the
card arrive when the wire is already working on the next chunk; the host may give up and reset
at any moment; the card session outlives the command that opened it; the double-buffered endpoint
is steered by two toggles that software and hardware flip concurrently.

What makes each part correct:

* transport and pipeline: a command gets exactly one honest answer, data is neither lost,
  duplicated nor stored elsewhere, nothing of a command survives it;
* PMA layer: packets arrive once and in order, in transfers of the armed length, and the toggles
  are in phase whenever a transfer starts;
* card sessions: a block is read or written at its own address, a session never outlives another
  use of the card;
* SCSI commands: whatever goes wrong goes wrong for a command that deserves it and is over with it;
  residues, answers and senses belong to the command they are sent for;
* logger: never on the card together with the flash drive;
* mouse: reports in the order of the packets, no packet left unannounced in the radio, and no way to
  be busy for ever.

## 2. Modules

| Module | What it is |
|---|---|
| `BlockDevice` | the promise to the host: READ hands over the stored blocks in order, WRITE stores at its own addresses only, "passed" only after the whole transfer |
| `MscPipeline` | transport, READ(10)/WRITE(10), task, queue, buffers, host and wire; its properties |
| `MCMscPipeline` | command sets for TLC |
| `MscPipelineProofs` | theorems about `MscPipeline` |
| `MscDataProofs` | theorems about the blocks `MscPipeline` moves, the refinement of `BlockDevice` among them |
| `MscProgressProofs` | the theorem that no step of `MscPipeline` goes round in circles |
| `PacketPipe` | the promise of a bulk endpoint: one transfer at a time, its packets once each and in order, complete when all are over; only a bus reset loses any |
| `PmaDoubleBuffer` | the double buffering of EP3 IN and EP2 OUT: endpoint registers, packet memory, interrupt handler, peripheral and host; its properties |
| `MCPmaDoubleBuffer` | transfer lengths for TLC |
| `PmaDoubleBufferProofs` | theorems about `PmaDoubleBuffer` |
| `PmaPipeProofs` | the refinement of `PacketPipe` by either endpoint; `OutMoves` |
| `ScsiCommands` | every SCSI command, the ring of senses, answers, statuses, residues, stalls, and a host that recovers; its properties |
| `MCScsiCommands` | the commands for TLC |
| `ScsiCommandsProofs` | theorems about `ScsiCommands` |
| `SdSession` | card driver, media operations and FatFs's block access on one card; its properties; shown to implement `BlockDevice` |
| `MCSdSession` | a card and calls for TLC |
| `SdSessionProofs` | theorems about `SdSession`, the refinement among them |
| `MouseReport` | radio FIFO, `rf_rx` task, HID class and USB device states, polling host; its properties; its own TLC module |
| `MouseReportProofs` | theorems about `MouseReport` |

How they fit together, from the host down: `ScsiCommands` decides which command reaches the pipeline and
takes the data stage of an accepted READ or WRITE as one step, all blocks or none; `MscPipeline` is
that step in detail, and takes from an endpoint what `PacketPipe` promises, in blocks instead of
packets; `PmaDoubleBuffer` implements `PacketPipe`. `MscPipeline` takes from the medium that a block is
read or written at its address or refused; `SdSession` implements that promise, `BlockDevice`, which
is also what `MscPipeline` implements towards the host. `MouseReport` shares the device states of the
USB core with the flash drive and nothing else. The modules are checked one by one: the promises
are the joints, there is no module that runs two of them together.

### MscPipeline and the code

Variables: `botState cbw cswTag residue blkAddr blkLen` are the fields of `hmsc`;
`sIdx q rdPend rdBuf rdFailed` the statics of the pipeline; `pc cur cnt addr done` the task's place
and locals; `buf` is `s_buf`, `card` the medium. `rx` and `tx` are what the PMA layer keeps of the
running OUT and IN transfer, `inStall` the STALL state of EP IN. The `h...` variables are the host.

| Code | Definitions |
|---|---|
| `MSC_BOT_CBW_Decode`, `SCSI_Read10`, `SCSI_Write10` | `CbwDecode`, `Read10`, `Write10` |
| `MSC_BOT_DataOut`, `MSC_BOT_DataIn`, `MSC_BOT_SendCSW`, `MSC_BOT_Reset` | `DataOut`, `DataIn`, `SendCSW`, `HostReset` |
| `USBD_MSC_DeInit`; `USBD_MSC_Init`, `MSC_BOT_Init` | `BusReset`; `HostConfigure` |
| `scsi_msc_signal_from_isr` | `Signal` (drops what the queue does not take) |
| `scsi_msc_task_entry` | `TaskRecv`; `TaskWriteArm`, `TaskWriteBlock/Fail/Done`; `TaskReadTake`, `TaskReadBlock/Fail/Done`, `TaskSend`, `TaskSent` |
| `PMA_DB_Transmit`, `PMA_DB_PrepareReceive` | `Transmit` (BUSY is ignored by every caller), `Arm` |
| `db_out_complete`, `db_in_complete` and the handlers they call | `OutCbw`, `OutBlock`, `InData`, `InCsw` |

Granularity. The unit of data is one 512-byte block, eight bulk packets. An interrupt handler is one
step. The task takes one step per operation another party can see: dequeue, arming, each block of a
card access, transmit, the updates behind it. `MSC_BOT_SendCSW` in the task is one step: the
interrupt has nothing to do between its transmit and its re-arming except to let the host take the
status, and a host that has it cannot send the next CBW before EP OUT is armed. (In the run with
refused writes in mid-transfer another data completion could fall between the two; that run already
shows the violation without it.)

Assumptions on the environment, all named in the module:

* `TaskKeptUp`: the four statements after `USBD_LL_Transmit` (`usbd_msc_scsi.c:194-201`) run before
  the transfer they started is over. A block takes eight bulk packets, 0.4 ms at full speed; the
  statements take microseconds, and only the mouse task and interrupts can come between. The code
  depends on this: without it the completion finds `DATA_IN` instead of `LAST_DATA_IN`.
* the host follows Bulk-Only transport: one command at a time, valid CBWs with the direction and
  length of the command, addresses inside the medium. It accepts a CSW that cuts a data stage short
  (hosts do, the specification asks the device to stall first).
* the card may refuse any block of a READ (`ReadMayFail`), and of a WRITE no block, a block of the
  last chunk or any block (`WriteFailures`).
* the host resets never, only when the device, the task and the wire have nothing left to do
  (`"quiet"`: a time-out of seconds against accesses of milliseconds), or in the middle of a
  command (`"any"`). These are Bulk-Only resets. `"bus"` adds to the quiet ones bus resets at any
  moment of a command (`BusReset`, phase `off`, `HostConfigure`). The queue and the task go on behind them: `MSC_BOT_Init` drains nothing, unlike `MSC_BOT_Reset`.
  Assumed is that the task has come to rest before the device is configured again: at most one access
  of the card is under way and one item queued, some tens of milliseconds, against a reset, its recovery
  time and a dozen control transfers (`Progress` bounds the steps). The code does not wait for it; a
  task kept away for so long, and an item that outlives the configuration, are outside the model.

### PmaDoubleBuffer and the code

An endpoint has two blocks of packet memory. Two bits of its register, `H` (flipped by the peripheral
after every packet) and `S` (flipped by the software), say who may act: the peripheral uses block
`H` while `H # S` (`Released`). `stat`, `ctr` and `pma` are the rest of the registers and the packets;
`txOff txRemain txPushed` and `rxOn rxSize rxCount` are the fields of `s_ep_in` and `s_ep_out`; `pc idx cnt
last` the place of the interrupt handler and its locals; `txNo txBusy rxLast` what the layer above sees;
`tog inLast hNo hLen hOff hBusy` the host. A packet is known by its transfer, its offset and its length.

| Code | Definitions |
|---|---|
| `PMA_DB_Transmit`, `PMA_DB_PrepareReceive`, `db_rx_arm` | `Transmit`, `PrepareReceive`, `RxArm` |
| `PMA_DB_OpenEp`, `db_force_init`; `PMA_DB_Reset` | `OpenEp`, `ForceInit`; `ResetIrq` |
| `PMA_DB_IRQHandler`, `db_in_complete` | `IrqIn`, `InFlip`, `InFill`, `InDone` |
| `PMA_DB_IRQHandler`, `db_out_complete` | `IrqOut`, `OutFlip`, `OutCopy`, `OutDone` |
| `HAL_PCD_EP_DB_Transmit` | `HalIn` |
| `MSC_BOT_Abort`, `USB_EPClearStall`, `MSC_BOT_Reset` | `Stall`, `ClearHalt`, `Abandon`: what they mean for this layer |

Granularity. The calls from above mask interrupts, so each is one step; the peripheral cannot act
in the middle because `S` is flipped last. The handlers run with nothing above them, yet beside the
peripheral, so they are split wherever it could slip in: at the flip of `S` and at the copy.
`s_anom` is the flag `anom`. A bus reset is two events, the peripheral's (`BusReset`) and the
interrupt (`ResetIrq`), with anything in between.

Assumptions on the environment: the host starts transfers that the receive buffer can take and that end
(`Fits`: of the buffer's length, or shorter with a short last packet; that is a CBW, or the data stage
the CBW announced); an endpoint is stalled only between transfers; the flag of a packet that
completed survives a bus reset, as on this peripheral. `HaltPolicy`, `Abandons` and
`OtherTraffic` switch on what breaks the nominal behaviour. Not modelled: the HAL's OUT path, which
`OtherTraffic` would reach in the same way.

### ScsiCommands and the code

`botState botStatus dataLen botData residue blkNbr blkAddr blkLen sense head tail` are fields of `hmsc`;
`capOk` is `s_cap_ok`; `pipe` the item of the `scsi_msc` task; `out`, `tx` and `inStall` the endpoints.
`unread`, `raised` and `spilled` are history. An answer is a length, the command that wrote it into
`bot_data` and the sense key in it.

| Code | Definitions |
|---|---|
| `SCSI_ProcessCmd` and its handlers | `CbwDecode`; `FixedAnswer` (TEST UNIT READY, START STOP UNIT, INQUIRY, MODE SENSE), `RequestSense`, `ReadCapacity`, `ReadFormatCapacity`, `Verify10`, `Read10`, `Write10`, `Unsupported` |
| `SCSI_SenseCode`, `SCSI_CheckAddressRange` | `Raise`, `InRange` |
| a handler that returns an error | `Refuse`: the dispatcher drops the result |
| `MSC_BOT_SendData`, `SendCSW`, `Abort`, `DataIn`, `DataOut` | `SendData`, `SendCSW`, `Abort`, `DataIn`, `OutData` |
| a packet of data received into `hmsc->cbw` | `OutSpill`, `BadCbw` |
| `MSC_BOT_Reset`; `USBD_MSC_DeInit`, `USBD_MSC_Init` | `HostReset`; `HostReconfigure` |

What the translation brings to light, and the properties count as part of the code's behaviour:

* only the `default:` of `SCSI_ProcessCmd` has a result that is looked at. Every other refusal goes on as
  a success: the host gets CSW PASSED, or the `bot_data` and `bot_data_length` of an earlier command. The
  sense is raised all the same. READ CAPACITY without a card thus sends a status where eight bytes are
  due;
* the additional sense code never arrives: `ASC << 8` is stored in 8 bits (`usbd_msc_scsi.c:620`);
* the sense ring has no full state: the fourth unread error makes all four disappear;
* VERIFY checks the address range the last READ or WRITE left behind, not its own;
* a READ whose two lengths differ has set `DATA_IN` before it is refused, so nothing at all is sent; a
  WRITE of no blocks is never answered;
* the data of a refused WRITE is received into `hmsc->cbw`, whole packets of it: they overwrite `csw` and
  the first senses, and the first one ends as a bad CBW that stalls EP IN;
* an answer longer than the host asked for makes the residue wrap; before the first READ CAPACITY the
  block size is 0, and a range that wraps passes the check.

Assumptions on the environment: the host sends commands whose direction and length fit the command,
except for the READs, WRITEs and unknown commands, where it may not; it recognises a status that cuts a
data stage short if there is room for it; it resets or reconfigures a device that has stopped.

### SdSession and the code

`ready hc rdOpen rdNext wrOpen wrNext` are the statics of `sd_spi.c`, `capOk` that of `usb_storage.c`;
`req done got status step retried` is the call in progress: of the flash drive (`"msc"`) or of FatFs
(`"fatfs"`); `mode pos mem cardHc` the card.

| Code | Definitions |
|---|---|
| `SD_Init`, `disk_initialize`, `storage_sd_ensure` | `SD_Init`, `Mount`, `Ensure` |
| `sd_storage_get_capacity`, `usb_storage_preinit` | `GetCapacity` |
| `SD_ReadChunk`, `SD_WriteChunk` | `ChunkRefused`, `ChunkDone`, `ChunkFailed` |
| `SD_ReadBegin`, `SD_WriteBegin` | `SessionClose`, `BeginDone`, `BeginFailed` |
| `SD_ReadBlock`, `SD_WriteBlock` (FatFs) | `SessionClose`, `SingleDone`, `SingleFailed`, `SingleGiven` |
| the retry in `sd_storage_read/write` | `Again` |
| `sd_session_close`, `sd_cs_low` | `Close`, `SessionClose` |

One exchange with the card is one step; nobody else enters the driver meanwhile, because the only
other user, the logger, is not started, and would wait for a call to return anyway if the time
window held. The card is the external part: idle, sending, receiving, absent, or off. It answers
when idle, a fault is an answer that does not come (a timeout, a refusal, no token, endless busy), and
the driver cannot tell whether the card has obeyed. `lost` is the state in which that went wrong: the card
missed a close, or began a session the driver had given up, or was pulled. Then `s_ready` stays 1, no
flag says that a session is open, and every later call fails until an `SD_Init` (which only a FatFs
mount or a restart brings), although the comment at `sd_spi.c:122` says that each new transaction first
ends the old session, or else the card would stay in multi-block mode for ever. `SessionMatchesCard`
says that nothing else goes wrong. `OneFaultIsRetried` has a limit worth knowing: the second try
helps a chunk inside an open session only; for a chunk that opens its session the first try is made
without the card.

### MouseReport and the code

`fifo rxdr` are the radio; `pc pack` the task between two of its accesses; `devState oldState` are
`dev_state` and `dev_old_state`; `hid` is `hhid->state`; `ep slot ctr` the registers and the packet memory of
EP1. `arrived late halted seen` are history.

| Code | Definitions |
|---|---|
| `NRF24L01_RxPacket` | `ReadStatus`, `ClearStatus`, `ReadPayload`, `Flush` |
| `USBD_HID_SendReport` | `CheckConfigured`, `CheckIdle`, `SetBusy`, `Transmit` |
| `USBD_HID_DataIn`, `USBD_HID_Init`/`DeInit` through `usbd_composite.c` | `DataIn`, `Configure`, `BusReset`, `Unconfigure` |
| `USBD_LL_Reset`, `Suspend`, `Resume`, `USBD_SetAddress` | `BusReset`, `Suspend`, `Resume`, `SetAddress` |
| endpoint halt in `usbd_ctlreq.c`, `USB_EPClearStall` | `Halt`, `ClearHalt` |

Every access of the task is a step, an interrupt handler is one step. The host does not speak to a
device it has reset before the task has passed the microseconds of `SendReport`: the one timing
assumption. Packets are numbered; that a busy endpoint drops a report, and with it a movement
(`项目架构.md`, #22), is part of the model and not an error of it. Two findings of the translation:

* `SET_FEATURE` and `CLEAR_FEATURE(ENDPOINT_HALT)` on EP1 while a report waits discard the report
  (`stm32f1xx_ll_usb.c:2534` sets NAK) and leave `hhid->state` busy: no report is sent again before the
  next SET_CONFIGURATION. #22 says the reports are dropped until the host fetches EP1, which it
  never can. `BusyIsArmed` and `MouseComesBack` show that a halt is the only way into this state;
* a packet that arrives between the write to STATUS and the flush leaves RX_DR set over an empty FIFO, so
  the next poll returns "received" with a payload nobody sent (the comment at `NRF24L01.c:182` promises
  1 for that case). `JunkOnlyAfterLateArrival` shows that there is no other way.

Standard requests in the ADDRESSED state other than SET_CONFIGURATION are left out.

## 3. Runs

Constants common to all `msc` runs: chunks of two blocks (`MSC_STREAM_PACKET` is two media packets), a queue of
two (`usb_storage.c:321`), two block values so that a block in the wrong place shows, two tags so that
a stale status shows, counters modulo 16 (above every length, so a wrap is visible and not hidden).

| Run | Instance | Result |
|---|---|---|
| `msc_nominal` | 6 blocks; READs of 1-6 and WRITEs of 1, 2, 4, 6 blocks, a command without data; no faults; fairness | types, one token, buffer ownership, never armed for more than what comes, every command answered |
| `msc_recovery` | 4 blocks; READs of 3 and 4, WRITEs of 1-4 blocks; refused reads, refused writes in the last chunk, quiet resets, bus resets at any moment of a command | free endpoint at every send, nothing left over, honest residue, `TransferShape`, `Progress`, only odd tails hang, implements `BlockDevice` |
| `msc_odd_tail` | a WRITE of 3 blocks; no faults; fairness | **violation** of `Answered` |
| `msc_write_fault` | two-chunk commands; any write may be refused | **violation** of `CswRearmsForCbw` |
| `msc_reset` | two-chunk commands; Bulk-Only resets at any moment, no bus resets | **violation** of `AbandonedStaysAbandoned` |
| `pma_in` | packets of 2 bytes; IN transfers of 0, 1, 4, 5, 9 bytes; halts cleared with block 0 next; bus resets; fairness | `InMoves` (nobody waits for the other's flip), `NoAnomaly`, toggles agree with the host's, EP3 implements `PacketPipe`, transfers end |
| `pma_out` | host transfers and buffers of 1, 4, 5 bytes; the same | types and buffer bounds, `OutMoves`, EP2 implements `PacketPipe`, transfers end |
| `pma_recovery` | an IN transfer of 5 and an OUT transfer of 4 bytes together; any halt, abandoned transfers, interrupts taken by the HAL | `RuleTwo`, `BlocksApart` |
| `pma_hal` | one-packet transfers, interrupts taken by the HAL; fairness | **violation** of `NoAnomaly` |
| `scsi_all` | blocks of 128 bytes, packets of 64, a card of 4 blocks, counters modulo 1024, 22 commands, with and without a card | types, ready for the next command, sense ring, range check, residue, own answers, hangs only after refusals |
| `sd_all` | a card of 3 blocks of two values, either addressing kind, addresses modulo 16; 6 calls of two users; up to 4 faults or pulls | types, sessions match the card, one fault is retried, implements `BlockDevice` |
| `mouse` | 5 packets, a radio of 3, up to 4 resets, reconfigurations, suspends and halts; fairness | types, busy means armed, packets announced, no unexplained payload, reports in order, the mouse comes back |

Why the bounds are enough: in the `msc` runs a transfer of three chunks goes round both buffers and comes back to the
first; after that the pipeline repeats the same states with smaller counters. Sequences of commands are
unbounded (only tags and contents are finite), so every command follows every other one. The safety part
is proved for all sizes anyway (section 4). In the `pma` runs five packets fill both blocks and refill
each of them at least once, from either block first; packet numbers alternate between two, enough to
tell a packet from the same one of the transfer before. `scsi_all` bounds no sequence: every command
follows every other, so the ring of four wraps and overflows and every stale length meets every answer;
1024 stands for 2^32 and is above every sum of lengths but the wrapped ones. In `sd_all` four faults cover
a first and a second try of two calls; calls continue, overlap and jump, from both users. In `mouse` five
packets overrun the FIFO and arrive in every gap of the task; the events bound disturbances only,
so `MouseComesBack` says that the mouse recovers from any four of them in any order, and once they and
the packets are used up the system may stop (`CHECK_DEADLOCK FALSE`: a poll that finds nothing is no step).

Fairness, in the runs with liveness: weak fairness of the task (its priority is above every task but
the mouse task, which runs for microseconds per millisecond), of the wire (a host keeps polling its
endpoints), and of the reset, which only matters where resets are enabled. In the `pma` runs: weak
fairness of the interrupt handler, strong fairness of the two endpoint interrupts (a handler takes less
time than a packet, so an endpoint busy all the time does not starve the other), weak fairness of the
wire and of configuration, strong fairness of preparing a buffer, which the class does after every transfer.
In the `mouse` run: weak fairness of the task, which polls every millisecond at the highest priority, of
the host's polling, of the interrupt, and of the host's part of an enumeration or a resume once begun.
Arrivals, resets, suspends and halts are not fair.

### What the violations mean

* `msc_odd_tail`: for a WRITE of `2k+1 > 1` blocks the last OUT transfer is armed with 1024 bytes
  (`usbd_msc_scsi.c:140` passes the length of the chunk just taken) while 512 remain. The host is done,
  the device waits, no CSW follows. `OnlyOddTailsHang` shows that this is the only way to hang while
  faults are contained.
* `msc_write_fault`: refusing a block in a chunk that is not the last sends the CSW although the next
  chunk has been armed or is queued; the stale item then continues the WRITE.
* `msc_reset`: draining the queue does not reach a task that has taken its item already. In TLC's trace
  the task has dequeued the first chunk of a WRITE when the Bulk-Only reset comes (`MSC_BOT_Reset` drains
  an empty queue and arms EP OUT for a CBW), and then arms EP OUT for the second chunk.
* `pma_hal`: `PMA_DB_IRQHandler` runs once before `HAL_PCD_IRQHandler`, whose loop serves every flag
  that is raised meanwhile. The HAL reports the transfer complete without touching `tx_pushed`.

Three more disagreements no run is spent on; the first two are outside the policies of the passing
runs, which exclude them by name, the third is one step of `ScsiCommands`:

* `HaltPolicy = "any"`: a halt cleared while block 1 is next leaves `H` at 1, while the host restarts with
  DATA0. The packet that follows is acknowledged and dropped, against the rule at `usbd_pma_db.c:28`.
* `Abandons = TRUE`: `PMA_DB_Transmit` tests for a transfer under way (line 320) before it looks at the
  phase, and nobody ends the abandoned transfer; the resynchronisation written for this case (comment at
  line 336) is not reached in it, the new transfer is refused with `HAL_BUSY`.
* `Unsupported`: the notes (`项目架构.md`, #13) expect CSW FAILED for a command without a handler.
  `bot_state` is `IDLE` there and never `NO_DATA`, so `MSC_BOT_Abort` stalls EP IN and leaves EP OUT
  unarmed; clearing the halt reaches neither the class nor, for a double-buffered endpoint, the
  registers, so the host has to reset.

## 4. Proofs

`MscPipelineProofs` proves, for every number of blocks, chunk size, queue depth, set of commands and
block values that satisfy the assumptions of the module:

* `TypeCorrect`: `Spec => []TypeOK` under every fault policy, with the bounds of every buffer index in
  it. `TypeOK` is inductive: the types carry the relations that keep a transfer inside its
  buffer (`RxOK`, `TxOK`, `hsent < hcmd.n` in a data stage).
* `ShapeKept`: `ContainedFaults => (Spec => []TransferShape)`. `TransferShape` is the inductive
  invariant of the protocol. A state is `Resting`, `Answering`, `Storing` (a WRITE, with six cases for
  who holds which buffer) or `Fetching` (a READ, six cases), and in each the device's counters agree
  with what the host has sent or received: `hsent = hcmd.n - blkLen + ...`,
  `Len(hrecv) = hcmd.n - ...`. Neither single-token nor ownership is inductive: that the task re-arms
  once per item holds only because the counters tell it when no more data comes. After a bus reset the
  state is `Unwinding` until the device is configured: the task at rest, or storing what it has in its hands
  and its queue (`StoringAlone`), or on its way to send what it read (`FetchingAlone`).
* `OneTokenAlways`, `BuffersOwnedOnce`, `SendsFindEndpointFree`, `CommandsAreSeparate`: the safety
  properties, each from the shape and the types. The last one adds that the host never finds data where the
  status belongs, nor the status of another command (`HostNotConfused`).

`ContainedFaults` leaves out what breaks the properties (`msc_write_fault`, `msc_reset`) and nothing else:
refused reads anywhere, refused writes in a last chunk, resets of a stopped device and bus resets at any
moment are in, the last with the assumption that the task is at rest before the device is configured
(section 2). The proofs have one lemma per action and invariant; `TypeStep` and `TransferStep` put them
together.

`MscProgressProofs` proves `StepsRunOut`: `ContainedFaults => (Spec => Progress)`. `StepsLeft` counts what a
command can still take: for each block not yet stored or handed over the task's steps and the wire's
(`StepsPerBlock`), for the chunk in hand those from where the task is, one for each block still to move
and one for the status. Every step of the task, the interrupt and the wire lowers it, so a command
never takes more steps than `StepsLeft` at its CBW, whatever the card refuses, and after a bus reset the task
comes to rest. This is the half of `Answered` that needs no fairness; the other half, that something can move
as long as the command is not over, is `OnlyOddTailsHang`.

`MscDataProofs` adds the contents. The shape only counts blocks; `Contents` says for each shape which
blocks the buffers, the card and the host hold: a buffer being filled or sent `Holds` the next blocks of
the transfer, the card agrees with what the host had sent (`OnCard`), what is on its way to the card or the
host is whole chunks from the right offset (`Base`, `Copies`, `OnItsWay`). `AloneContents` is what remains of
it after a bus reset: the blocks the task still holds for the card are those the host sent for their
addresses, and what it arms on the way starts at a whole chunk. `RightBlocks` joins the two and is inductive. With it:

* `ResiduesHonest`, `HangsAreOddTails`, and `ArmedRight` (which needs `EvenTails`: every
  WRITE is one chunk at most or whole chunks, see `msc_odd_tail`);
* `PipelineRefinesBlockDevice`: `ContainedFaults => (Spec => ImplementsBlockDevice)`, each step mapped to
  a step of `BlockDevice` or a stutter. A bus reset is a stutter, the task's last stores are those of the
  WRITE that is still open, and the configuration after it ends the command.

`PmaDoubleBufferProofs` proves, for every packet size and all sets of lengths:

* `PhaseCorrect`: `Spec => []PhaseInv`, under every policy. `PhaseInv` is the inductive invariant. For
  EP3 (`InSide`) it says who holds a block at each point of the handler: outside it the hardware is at
  work exactly when `txPushed # 0`, and data is left to fill only when both blocks are in its hands.
  For EP2 (`OutSide`) a released block belongs to a prepared buffer, none is released after the last
  packet, and what was received, is being copied and still waits (`Taken`) never exceeds what the
  host has sent, so the buffer has room for the rest. `OffBus` is what is left when the bus is off.
* `TypeCorrect`: `Spec => []TypeOK`, under every policy; "at most two blocks in flight" and "no buffer
  overrun" are not inductive without `PhaseInv`, so the two are proved together.
* `RuleTwoHolds` and `BlocksStayApart`, under every policy: not even halts out of phase or the HAL's
  interference bring handler and peripheral into the same block.
* `NoAnomalyOccurs`, if no transfer is abandoned and the HAL takes no interrupt of this layer; it adds
  `NothingLeft` (an idle class means an idle endpoint).
* `InAlwaysMoves`, under the same conditions: while the class waits there is a packet to fetch, an
  interrupt to take or a handler to finish. `InGoing` adds that the endpoint is enabled and that a block is
  pushed or the handler is about to; `InHeld` turns a pushed block into a released one or a flag.
* `PidsAgree`, if no halt is cleared with block 1 next.

`PmaPipeProofs` proves the two refinements, for every packet size and all lengths:

* `InRefinesPipe`, under the hypotheses of the last two: the packets in the hardware's hands followed by
  those of the bytes not yet packed are always the rest of the transfer. Beyond the invariants above it
  needs only `FillsNext`: the block being filled is the one behind the block in the hardware's hands, also
  when that has been sent meanwhile.
* `OutRefinesPipe`, if no halt is cleared with block 1 next: the packet being copied, the one waiting
  for its interrupt and those the host still has are the rest of the transfer. `OutExact` strengthens
  `OutRoom` to equality: nothing the host has sent is missing, and the packet that ends the transfer for the
  handler is the host's last.

It also proves `OutAlwaysMoves`, under the condition of `OutRefinesPipe`: in the middle of a transfer of
the host there is a packet to send, an interrupt to take or a handler to finish. `OutGoing` says that a
block is released unless the handler is about to release one or the transfer is over, `EndKnown` that it is
over exactly after the host's last packet, full or short: packets are full up to the last (`Aligned`), the
lengths of transfer and buffer agree (`Agreed`, the host's side of it is `Fits`), so the last one is short
or ends the buffer (`LastSeen`). Its arithmetic of remainders is proved for every packet size.
Together with the refinements, by which every packet on the wire or copied takes one away from
what is left, `InMoves` and `OutMoves` are what `InTransferEnds` and `OutTransferEnds` rest on, but for
the fairness and a handler's three steps.

Both refinements rest on one lemma about `Packets` (`FirstPacked`: the first packet and then the packets of what is
left), whose arithmetic of divisions is proved for every packet size.

The hypotheses exclude the two cases named in section 3 and that of the run `pma_hal`.

`ScsiCommandsProofs` proves, for every size of ring, block, packet and card, every width of the counters
and every set of commands of the module's shape, all the invariants of the run `scsi_all`. The inductive
invariant `IInv` (`ScsiInvariant`) is the types, the ring as a queue, the range check and `Shape`, which
says for every value of `bot_state` what the host waits for, what the endpoints hold and what the residue
is (`Idle`, `Answering`, `Reading`, `Writing`, `Status`), and that a command neither refused nor odd is
where it should be (`Straight`). None of
`ReadyForCbw`, `ResidueAccounts` or `OnlyRefusalsHang` is inductive: each needs to know what the residue,
`bot_state` and the endpoints are in the steps before.

`SdSessionProofs` proves, for every card and all calls and any number of faults, all properties of the
run `sd_all`, the refinement included: `SessionInvariant` is `IInv`, which says for each step of a call
which session may be open, what `retried`, `fresh` and `faults` have recorded, and that what has been read
or stored so far is what `BlockDevice` says. `CardRefinesBlockDevice` maps each step to a step of
`BlockDevice` or a stutter.

`MouseReportProofs` proves, for every depth of the FIFO and any number of packets and events, the
invariants of the run `mouse` and `InOrder`. Its invariant orders the packets by place (`seen`, `slot`,
`pack`, `fifo`) and ties `hid` to `ep`, `ctr` and `pc`.

Only model-checked: liveness (`Answered`, `InTransferEnds`, `OutTransferEnds`, `MouseComesBack`), because
the prover has no fairness. Every invariant, action property and refinement of the passing runs is proved,
under the fault policies of the runs that check it.

## 5. Not modelled

* Vendored code. Of about 185000 lines of the repository some 170000 are CMSIS and the STM32 HAL
  (mostly headers and drivers of peripherals this firmware does not use), the FreeRTOS kernel and FatFs
  with its code-page tables. They are third-party components with verification stories of their own; where
  the firmware depends on them the models say what they do (a queue that refuses when full, `USB_EPClearStall`,
  `HAL_PCD_EP_DB_Transmit`), from the lines it uses. The project's own logic is `App/`, `USB_DEVICE/` and
  the USB classes, about 10000 lines with comments.
* The logger (`sd_log.c`). `app_main.c:80` does not start it in this version. Reading it against the models:
  the gate is a time window, so after 1.5 s of silence it shares the card with the flash drive (documented
  as #17 and #24); the flush of a full buffer does not look at the gate at all (`sd_log.c:104-111`, against
  the comment at line 100); the drop counter is read and then cleared, so increments between are lost
  (`sd_log.c:88-90`); records in the buffer are lost when the volume is mounted again.
* SPI and DMA transfers byte by byte, the fields of the CSD, delays; the SD card's CRC.
* Enumeration: descriptors, string requests, the data stages of control transfers.
* The HAL's OUT path for a double-buffered endpoint, which `OtherTraffic` would reach as it does IN.
* Measurement and printing (`sysmon.c`, `console.c`, statistics), the watchdog, the display and the demo.

## 6. Plan

1. *done* `BlockDevice`, `MscPipeline` with proofs.
2. *done* `PacketPipe`, `PmaDoubleBuffer` with proofs. Left: the HAL's OUT path.
3. *done* `ScsiCommands` with proofs.
4. *done* `SdSession` with proofs, the refinement of `BlockDevice` included.
5. *done* `MouseReport` with proofs. Left: the logger, once it is started again.
6. *done* `MscDataProofs`: `MscPipeline => BlockDevice` proved.
7. *done* `PmaPipeProofs`: `PmaDoubleBuffer => PacketPipe` proved.
8. *done* bus resets in `MscPipeline`, with proofs; `MscProgressProofs`.
9. *done* `InMoves`, `OutMoves`, with proofs.

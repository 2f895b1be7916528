# Verification of the STM32F103 IoT firmware and its libopencm3

The repository holds a small firmware for an STM32F103 (`project/stm32f103re`): a
temperature and humidity sensor that reports to an MQTT broker through an ESP8266
WiFi module, and the libopencm3 hardware library it is built on (`libopencm3`).
This directory holds TLA+ models of the parts with logic of their own, the TLC
configurations that check them on small instances, and TLAPS proofs of what
matters most for every size.

Paths are relative to `src/`; `B`, `M`, `E`, `U` stand for
`project/stm32f103re/driver/baiduiot/{baiduiot,mqtt_client,esp8266}.c` and
`.../driver/usart_irq_printf/usart_irq_printf.c`; `UC`, `FS`, `SY` for
`libopencm3/lib/usb/usb_control.c`, `libopencm3/lib/stm32/common/st_usbfs_core.c`
and `libopencm3/lib/cm3/sync.c`; `SH`, `I` and `MS`, `SR` for
`project/stm32f103re/driver/sht20/{sht20,iic}.c` and
`libopencm3/lib/usb/{usb_msc,usb_standard}.c`.

## 1. Inventory

| component | state | operations | what is hard | what makes it correct |
|---|---|---|---|---|
| link supervision (`B`) | `baiduiot.link`, the cached reading, `task_delay` | `iot_init`, `iot_task` (poll, relink, report) | results that are ignored, flags cleared after they were raised, a connection that breaks at any time | an open session is found again; a reading is sent or the link marked down; escalation when and only when the CONNECTs are spent |
| MQTT client (`M`) | `link.wait_sum`, per-kind `wait_num`, `wait_max_sum`, `gmqtt.link_status` | `mqtt_init`, `_connect`, `_publish`, `_ping`, `_ack` | unsigned counters without guards, replies lost, `malloc` failing | no counter wraps; the credit is bounded |
| ESP8266 UART (`E`) | a 256-byte buffer with an 8-bit index, shared with `usart2_isr` | `put_buff`, `senddata`, `recvdata`, `sendcmd`, `esp8266_init` | no lock between interrupt and main loop; lengths read twice; waits | a poll sees what came first; a command believes only what came after its own `clear_buf`, and ends |
| sensor (`driver/sht20/sht20.c`, `SH`) | `mode`, `measure_delay`, the readings | `sht20_init`, `sht20_task` | ignored I2C results, a 16-bit round counter, a reset of the processor in the middle of a transfer | a reading is of the quantity it is filed under; readings keep coming |
| bit-banged I2C (`driver/sht20/iic.c`, `I`) | SDA and SCL | `soft_iic1_init`, `_write`, `_read` | a protocol that is line levels in time; a missing STOP; an acknowledgement timeout that never waits | start, bits, acknowledgements and stop as the slave sees them; the bus is free after a transfer |
| LED, console, delays, main loop (`led_breath.c`, `printf.c`, `common.c`, `main.c`, `driver_face.c`) | a table index; timers | `*_init`, `*_task`, `delay_us` | little: a one-past-the-end read; everything runs in one loop | every task gets its turn |
| interrupt-driven console (`U`, a program of its own) | the ring, TXEIE | `_write` from SysTick, `usart1_isr` | two handlers and a peripheral that moves between any two of their steps | a bounded FIFO that loses nothing it took, sends all of it and then falls silent |
| mutex (`SY`) | one word, the core's exclusive monitor | `mutex_trylock`, `_lock`, `_unlock` | an interrupt between the load and the store | exclusion, no orphaned lock, spinning only on others |
| USB control transfers (`UC`) | `control_state` | the three callbacks of endpoint 0 | a bus that does not wait, zero-length packets, aborts and resets mid-transfer | data whole and in order, STALL for refusals only, completions for what completed, also when a reset comes before their poll, no hang |
| STM32 USB driver (`FS`, `st_usbfs_v1.c`) | `USB_EPnR`, packet memory, `force_nak`, `pm_top` | `ep_setup`, `ep_stall_set`, `ep_nak_set`, `ep_write_packet`, `ep_read_packet`, `poll` | read-modify-write of toggle bits, two completions pending at once | packets neither lost nor read twice; the next SETUP is heard |
| USB device core and standard requests (`usb.c`, `usb_standard.c`) | address, configuration, callback lists | `_usbd_reset`, `usbd_register_control_callback`, `_usbd_standard_request` with SET_ADDRESS, SET_CONFIGURATION, SET_FEATURE and CLEAR_FEATURE | callback lists cleared and filled again by a callback of the list that is being walked; an address that takes effect a stage later; resets between any two of these steps | host and device agree on address, configuration, endpoints and their toggles |
| USB mass storage (`usb_msc.c`, `MS`) | one transaction: CBW, data, CSW; the sense data; the disk | the two bulk callbacks, `scsi_command`, `msc_set_config` | phases that must not overlap, a status queued before the data it is about, a buffer shared by a command's blocks | one status per command, and only when it is true; blocks change by the commands that address them |
| other USB controllers, CAN, RTC, flash, I2C, RCC, Ethernet, other chip families | registers | accessors | a few short protocols (mailboxes, a counter read in halves) | - |

How they interact: `main` calls `driver_task` every 20 ms, which runs `sht20_task`,
`iot_task` and `led_breath_task` in this order. `sht20_task` leaves its readings in a
global that `iot_task` compares with its cache; `iot_task` calls the client, the client
calls `gmqtt.send` = `esp8266_senddata`, and replies come back through `usart2_isr`,
the shared buffer and `esp8266_recvdata`. In libopencm3, `st_usbfs_poll` turns
completion flags into calls of the callbacks of `usb_control.c`, which call handlers
(of the application or `usb_standard.c`) and drive the endpoint through `usbd_driver`.

`PROJECT.json` lists the components with their files, and under `hazards` everything
found here that a test would hardly reach, at its line.

## 2. The modules

| module | models | notes |
|---|---|---|
| `MqttClient` | `M` | operators on the client's state; no variables |
| `IotLink` | `B` over `MqttClient` | phases of `iot_task`, the interrupt, network and broker |
| `IotLinkProofs` | | proofs about both |
| `Esp8266` | `E` | byte-level races of buffer, poll and command |
| `FirstByte` | | what `IotLink` takes that buffer for |
| `Esp8266Proofs` | | proofs |
| `UartRing` | `U` | ring, two handlers, peripheral |
| `ByteFifo` | | what the ring promises |
| `UartRingProofs` | | proofs |
| `Mutex`, `MutexProofs` | `SY` | instruction by instruction |
| `UsbfsEp` | endpoint 0 of `FS` and of the peripheral | operators on an endpoint record |
| `UsbControl` | `UC`, the poll of `FS`, `_usbd_reset` | composed with `UsbfsEp` and a host |
| `UsbControlProofs` | | proofs |
| `SoftI2c` | `I` | the line operations of each procedure, and what a slave makes of the lines |
| `Sht20` | `SH` over `SoftI2c` | composed with a sensor |
| `Sht20Proofs` | | proofs |
| `UsbStandard` | SET_CONFIGURATION, the callback lists and the packet memory of `SR`, `usb.c` and `FS` | the part of `UsbMsc` that any class shares |
| `UsbMsc` | `MS` over `UsbStandard` and two endpoints of `UsbfsEp` | composed with a host that configures, halts and uses the disk |
| `BlockDevice` | | what a USB disk promises its host |
| `UsbMscProofs`, `UsbMscBlocksProofs` | | proofs about both; that `UsbMsc` is a `BlockDevice` |
| `MC*` | | values of the constants for TLC |

Definitions carry the names of the functions they model where there is one.
Operators named as "a faulty variant" are plausible bugs, put in the place of the
real definition to see that a property notices. They are used by no specification.

**IotLink.** `pc` is the phase `iot_task` is about to run. `Poll` is
`iot_recv` and `mqtt_ack`; `RelinkError`, `RelinkBreak` and `RelinkNothing` are the
three ways through `iot_relink`; `IotInit` is `iot_init`, whose seconds of AT commands
are one step, since it ignores all their results; `ReportPublish` and `ReportPing` are
the two reports. The buffer is abstracted to its first byte, the only one that
`mqtt_ack` looks at; that this is what the real buffer amounts to is what `Esp8266`
shows by implementing `FirstByte`: a poll returns the first byte since the buffer was
last emptied, or misses a byte that falls in while it looks, which `Poll` allows as
well. Replies arrive as a head and a tail so that a poll or a send can cut them. The
external part: a broker that answers, and closes the connection on anything before
CONNECT and on a second CONNECT; a module that reopens the connection on its own; a
network that breaks at will until `netOk`; a heap that fails at will until `heapOk`.

**Esp8266.** Every access of the main loop to the length and the buffer is a step of
its own, with the interrupt in between. `heard` is a history variable that tells
whether the answer of a command came, and whether a round was left then.

**UartRing.** SysTick and USART1 have the same (reset) priority, so neither handler
preempts the other; the peripheral moves between their steps. `text` is what is left
of the string that `ring_write` stores.

**Mutex.** A step is an instruction that touches the word, the monitor or the
status. Every switch of threads goes through an exception, and every exception closes
the monitor.

**UsbControl.** The state of the callbacks is a pair of endpoint and control state,
and each function of `UC` is an operator on it. A poll takes two steps: the first
reads and acknowledges (`PollSetup`, `PollOut`, `PollIn`, `PollReset`), the second
runs the callback (`ControlSetup`, `ControlOut`, `ControlIn`). A callback itself is
one step: a token in the middle of one is not modelled. Requests are records of what
the host asks and what the handler returns. `Window` lets the host's tokens come
between the two steps of a poll; `BackToBack` lets the host start a transfer before
the firmware has polled the end of the last one.
A bus reset may come between any two steps. The peripheral then keeps the completion
flags CTR_RX and CTR_TX (RM0008 23.5.2: so that a packet just before the reset is
still notified) and clears the rest of an endpoint's register, the SETUP mark
included; `_usbd_reset` leaves `control_state` alone. So the poll after
`_usbd_reset` may serve what was pending before it, in the old state. `host.well`
remembers over the reset that the host had ended its transfer well and the firmware had
yet to handle it, `host.lost` that the reset found an unread SETUP.

**SoftI2c and Sht20.** A procedure of `I` is the sequence of what it does to the lines:
`SDA_H`, `SCL_L`, ..., and the two things it reads, an acknowledgement (`ack?`) and a
data bit (`bit?`). A step takes one element of it (`Operate`, `Sample`, `Acknowledged`,
`NotAcknowledged`), and the sensor sees the edges that this makes (`Sees`): START and
STOP, bits sampled on the rise, its own bits put out on the fall. What follows a missing
acknowledgement depends on the procedure, as in the code: a write stops, an attempt at
reading is repeated (`Retry`), the last one is dropped as it stands. The delays between
the operations are left out: the sensor reacts at once. Its measurement takes a time of
its own (`Measured`); meanwhile it answers no address. `McuReset` comes between any two
operations, resets the processor and not the sensor, and `soft_iic1_init` then moves
SDA and SCL of a bus that may be in the middle of a byte.

**UsbStandard and UsbMsc.** `UsbStandard` has the reset, SET_CONFIGURATION as the
sequence of calls that a class's set-config callback makes (`Calls`: set up an endpoint,
register a callback), one step each, with a bus reset between any two of them, and the
packet memory: the top that `ep_setup` moves and the buffer that each half of an
endpoint has got. `UsbMsc` fills in `msc_set_config` for `Calls` and adds the class: `t`
is the transaction, and a callback is an operator on endpoints, transaction, disk and
sense data (`data_rx_cb`, `data_tx_cb`). `scsi_command` has the commands apart wherever
the code treats them differently: READ CAPACITY and INQUIRY for standard data (`info`)
send a reply and clear the sense data; MODE SENSE (`mode`) sends four bytes, of which it
sets three, and leaves the sense data alone (`MS`:417-422); INQUIRY for vital product
data (`vpd`) sends nothing, leaves the sense data alone and reports success
(`MS`:472-475); an unknown command sends nothing and reports failure. Reads and writes
take any address and count, as in the code (`MS`:272, 334): `BlockNo` wraps at the width
of the address, and what the application does with a block the disk does not have is to
write nothing and to leave the buffer as it is. After a bus reset a completion that was
pending is served here, too (`ClassCallback`, `Enables`): it may enable a half of an
endpoint that the reset had disabled. Every byte is tagged with the command, the block
and the place it belongs to, so that a byte out of place is another byte. The endpoints
have toggles, which the peripheral checks, and halts, which SET_FEATURE and
CLEAR_FEATURE set and clear between commands. `callbacks` is part of the state because a
callback registered twice would be called twice for a request.

`UsbMsc` implements `BlockDevice`: one command at a time; an answer only when all blocks
the command addresses hold what it writes, with the reply and the status of that
command; no block changes otherwise. A reply is a relation, `IsReply`: it has the right
length, and each byte is what it should be where the code determines it (`MayReply`);
the last byte of MODE SENSE, what is behind the 18 bytes of sense data and a block that
the disk does not have are open. `Unanswered` are `vpd` and `unknown` where the host
expects data: they have no `Answer`, only `GiveUp`. The mapping is direct but for
`Stored`: the code queues the status of a write when the last packet of its data is
still in the endpoint (`MS`:598-610 run before that packet's data are written to the
disk), so the host may have the status before the block is written. What makes it true
all the same is that the firmware polls the OUT endpoint, which has the lower number,
before it sees the status leave: such a packet counts as stored, and that it will be is
part of what the refinement checks.

## 3. The runs

| run | question | distinct states |
|---|---|---|
| `iot_link` | books, escalation and recovery under all failures but cut replies that look like heads | 400,240 |
| `iot_split` | recovery when cut replies do look like heads | 85,380 |
| `uart_ring` | the ring is a live FIFO and falls silent | 12,726 |
| `mutex` | exclusion, no orphan, no starvation by the monitor | 5,184 |
| `usb_control` | a prompt firmware: no wrong STALL, no deaf endpoint, no hang | 17,291 |
| `usb_window` | a slow firmware, and resets at any time: what a transfer that ends well guarantees | 1,849,275 |
| `usb_window_stall` | a slow firmware: STALL for a write it could do (violation) | |
| `usb_back_to_back` | a slower one: a read with a hole (violation) | |
| `esp8266` | the unlocked buffer and the command loop | 186,462 |
| `esp_answer` | an answer in time is found (violation) | |
| `sht20` | bit by bit, with refusals, give-ups and resets of the processor: readings are filed right, not lost, and keep coming | 360,807 |
| `usb_msc` | configuration, halts and the disk: packet memory, agreement of host and device, the block device | 74,044 |

### Bounds, and why they are enough

- `iot_link`: limits 3 and 3 as in the code; the widths (`ByteMod` 16, `WordMod` 32)
  only have to exceed what the counters reach, `WaitMax + ConnectMax + 2`, which is the
  assumption of the proofs, too, and holds by far for 2^8 and 2^32. Two readings are
  enough for "changed" and "unchanged". `MaxUnread` = 8 is as many replies as the credit
  allows (`CreditBound`: 4 + 4). It says that the module hands out what it has within
  the 20 s until the next body of `iot_task`, and no property depends on it being
  larger.
- `iot_split`: the accounting can run through its whole width here, so the widths are
  small (9, 16) and `MaxUnread` 2; the network is well from the start, so that what goes
  wrong is only the cutting.
- `uart_ring`: four slots and texts of 0, 1, 2 and 4 bytes: empty, fitting, filling and
  cut. The proofs cover every size.
- `mutex`: three threads, so that the one that loses a race is not the one that has the
  lock. The proofs cover every set.
- `usb_*`: packets of two bytes, control buffer of five; fifteen requests around the
  multiples of the packet: replies of 0, 2, 4, 5 bytes to requests for 2 to 5 (exact,
  short, short and full, empty), writes of 2, 3, 4, 5, 6 (one, one and a half, two, more
  packets, too long), handled, refused, with and without completion, and SET_ADDRESS.
  `usb_window`, where resets leave an old transfer's remains behind each new one, has
  nine of them: one or two of each kind. The proofs cover all requests.
- `esp8266`: a buffer of four bytes, at most three between two resets. That a burst
  stays below the buffer is an assumption (`Burst < Size`). For MQTT it follows from
  `CreditBound`: eight replies of at most four bytes against 256. During AT commands the
  module's own talk is outside the code's control, and 256 bytes without a reset do make
  the buffer look empty (hazard at `E`:23). Retries 1, 2, 7 against a width of 4: below
  and above the width.
- `sht20`: the commands and the address are the real ones, readings have three real
  bytes and begin with a 0 or a 1 (which tells whether the sensor holds SDA when it is
  interrupted). A measurement every 7 rounds with a counter of width 20, which 7 does
  not divide, as 300 does not divide 2^16: the wrap shortens one period. Three attempts
  at reading, a measurement of up to one round: attempts that are refused, given up and
  successful. Two resets, so that the second one meets what the first one left.
- `usb_msc`: two blocks of two packets each, a CBW of one packet and a CSW of half a
  one. Block numbers wrap at 3 (2^32 in the code), so that a read or write of three
  blocks from block 1 runs over the end of the disk and comes back to its start; writes
  of one block and of none; a FORMAT; replies of a packet and a half, with sense data of
  one packet; the two kinds of commands that let a host expect data which are not there,
  and an unknown one that does not. Every value of SET_CONFIGURATION that matters (the
  configuration, 0, one that does not exist). The packet memory is exactly as large as
  one configuration needs, so that a single buffer too many is noticed; one more
  callback than the list should ever hold.

### Fairness

`IotLink`: `WF(Task)`, the main loop of `main.c` never stops and no phase waits for
anything; `WF(ReceiveHead \/ ReceiveTail)`, what the module has goes out on the UART
and the interrupt is served; `WF(netOk /\ Reconnect)`, an assumption about the module,
once the network is there to stay. Nothing forces `NetHeals`, `HeapHeals`, `Measure`
or `Drop`.
`UartRing`: a handler that was entered runs to its end; `SF(IsrReceive)`, since
SysTick, served first, is due once a millisecond only; the transmitter shifts.
`Mutex`: the core executes the thread it is in. Nothing about the scheduler.
`UsbControl`: the firmware polls and the host repeats its token, strongly fair since
the tokens alternate with polls. `Esp8266`: the main loop goes on with a call it has
begun; nothing about the module.
`Sht20`: the main loop goes on, a measurement ends. `UsbMsc`: the firmware polls, the
host repeats its token; nothing forces it to configure, halt or reset anything.

### What the violations show

1. `usb_window_stall` (`FS`:228, `FS`:254). Reading the SETUP makes the endpoint
   accept data before `_usbd_control_setup` forces NAK. A data packet in between is
   stored with the state then set to VALID over it; the read finds VALID, returns
   nothing, and the write is stalled. `gadget-zero/test_gadget0.py:107` expects all
   bytes written. In the same circumstances `TransfersEnd` and `SetupHeard` fail too:
   a device that has stopped at such a packet ignores every SETUP, and a bus reset
   does not change that, since it keeps the packet's flag. Those two are checked without
   the window; "Where the properties stop" has more.
2. `usb_back_to_back` (`FS`:250). A SETUP is served before the completion of the last
   status stage if both are pending, and that completion then advances the new read.
   `test_gadget0.py:113` expects to read back what was written.
3. `esp_answer` (`E`:101). The length that was searched is read a millisecond after
   the search; an answer whose last bytes come in during it is never looked at.
   `driver/esp8266/readme.md` says what each command returns.

Met while reading, without a run: `E`:159 waits for `<` where the readme's step 5
says the module answers `>`, and `E`:153 for `OK` where step 3 says CONNECT (the
results are ignored, so both only cost their rounds). `iic.c`:59 gives up at the first
missing acknowledgement where the comment on line 60 speaks of a timeout.
`usbd.h`:136 says that the callbacks are cleared at every SET_CONFIGURATION;
`usb_standard.c`:293 clears them only if a set-config callback is registered.

### Where the properties stop

`sht20`. A reading is lost where the sensor answers the one address after which
`soft_iic1_read` gives up (`I`:173-177): it then waits for clocks that the next call
takes for something else. `GivenToReader` and `Recovers` name this case and no other
but a new measurement, which replaces a result that was not fetched.
After a reset of the processor a reading may be filed that nobody measured, since
neither the checksum nor the result of the write (`SH`:120, 124) is looked at;
`FiledRight` and `BusFree` therefore speak of the time before the first reset, and
`Recovers` of what follows.

`usb_control`, `usb_window`. What a bus reset leaves behind limits four properties:

- `AddressAgreed` has the exception `LateAddress`. If the reset comes when the host has
  ended a SET_ADDRESS and the firmware has not polled that, `_usbd_reset` sets address 0
  (`FS`:239) and the next poll runs `_usbd_control_in` in STATUS_IN, which sets the old
  address (`UC`:306-308). The host uses 0, and the device does not answer until the next
  reset. A host that keeps its 2 ms after SET_ADDRESS can still reset the bus in them.
- `CompletionIsTrue`: in the same place a completion callback runs after the reset, on
  behalf of a transfer that had ended well before it.
- `WriteDelivers` and `CompletionIsTrue` except `host.lost`. A reset takes the SETUP
  mark from an unread SETUP, which then looks like an OUT. After a second reset, between
  the steps of a poll, the endpoint's NAK lets `usb_control_recv_chunk` take it for the
  data of a write that was given up, or the end of a read.
- `SetupHeard` and `TransfersEnd` are checked with `Window = FALSE`, where no reset
  comes upon an unread packet; with `Window = TRUE` TLC finds both violated. An unread
  packet that the reset finds is polled with RX VALID, which `_usbd_reset` has set:
  `st_usbfs_ep_read_packet` returns 0 and keeps CTR_RX (`FS`:220-222), and
  `_usbd_control_out` in IDLE stalls without a read (`UC`:281-282). The peripheral
  discards every SETUP while CTR_RX is set, so endpoint 0 is deaf from then on.

`usb_msc`. A host may expect data from INQUIRY for vital product data or from an unknown
command; the class sends none and halts nothing, so that the status is taken for data
and the host waits until it resets the bus (`Stuck`). `CommandsAnswered` leaves these
commands out, and `BlockDevice` has them given up. Three more things the refinement says
only because `Addressed` and `MayReply` say what the code does:

- FORMAT leaves the last block as it is: `scsi_format_unit` stops below
  `ms->block_count` (`MS`:372), which `usb_msc_init` has set to the number of the last
  block (`MS`:821).
- A read or write beyond the disk is reported as passed, and a read returns whatever is
  in the buffer. Should the application reach memory that it does not own with such an
  address, that is not in the model.
- MODE SENSE, or INQUIRY for vital product data, after a refused command leaves the
  sense data for the next REQUEST SENSE.

Also the host reads exactly as much as a reply has: INQUIRY and MODE SENSE do not look at
the allocation length, and a host that asks for less than 36 or 4 bytes gets more
than it asked for.

The constants of `UsbMsc` have values under which the class does not keep
the promise of `BlockDevice`; no run records them, since the repository promises
nothing about them or the cause is plain:

- `BackToBack = TRUE`, a host that sends the next command before the firmware has polled
  the completion of the last status: the command block is taken for the rest of the old
  transaction, which may write the buffer to the block behind the ones it addressed
  (`MS`:641), and the host waits for ever.
- `Cuts = TRUE`, a bus reset, a configuration or a BULK_ONLY_RESET in the middle of a
  command: `t` is reset by the end of a transaction only (`MS`:719, 745-747), so the
  rest of the old command is taken for the next one. `PacketMemory` and `Ready` are
  proved for this case, too. Nothing else is said of it: what then fills the command
  block is data, whose bytes are not commands (the code does not look at the signature).
- `OutFirst = FALSE`, an IN endpoint with the lower number: the completion of a write's
  status can be polled before the last packet of its data.
- `CbwLen > EpSize`, the sizes 8 and 16 that `MS`:786-789 document: the code does not
  wait for the rest of a command block and sends a status after its first packet
  (`MS`:635-664).

Read in the same file and left out of the model: results of `read_block` and
`write_block` are ignored (`MS`:590-593, 622-625); packets to the host are cut to the
size of the OUT endpoint (`MS`:631, 694, 714); the residue in a status, which MODE SENSE
and INQUIRY set to the length of their reply (`MS`:422, 468) and all others to 0; the
data that a host may want to send with a command the class does not know, which would be
taken for the next command block; that READ(6) ignores the high bits of its address
(`MS`:268), that only it and the writes reset `current_block`, which is 0 there in the
setting of the proofs.

## 4. The proofs

All of them hold for every value of the constants that satisfies the modules' named
assumptions (widths larger than the limits, a buffer of more than one slot, a burst
below the buffer's size, a non-empty set of threads, set-config calls whose buffers
fit into the packet memory). Where a theorem needs a setting of a constant beyond them,
it says so in its statement.

**IotLink.** `TypeCorrect` is inductive by itself. `Escalation` (`InitOnlyWhenSpent`)
needs that ERROR is in the flags only when the CONNECTs are spent, and that they are
never more than the limit and one: `SpentInv`. `CacheHonest` (`ReadingSentOrLinkDown`)
is a statement about one step, proved from the types. `Credit` (`NoPhantomCredit`) and
`Limit` (`CreditBound`) rest on `CreditInv`: `wait_sum` is the sum of the three kinds
and within its bound; for PUBLISH and PINGREQ each, what was sent and not answered
covers the replies under way and the head in the buffer (`Paid`); from the boot on, the
limit in force is the configured one. The per-kind part is needed because a poll takes
one from `pub` or `ping` and from the sum, and each subtraction must be covered on its
own; the bound, because an increment must not wrap either. Both theorems assume
`SplitSafe`: the bytes behind a PUBACK's head, a length and a request identifier, do not
look like a PUBACK or PINGRESP head. Identifiers with a byte 0x40 or 0xD0 break it, and
then a cut reply is counted twice; the run `iot_split` is about what happens then.

**UartRing.** `RingInv` adds to the types that every slot in use holds a byte;
`Armed` is inductive by itself. `RingIsFifo` shows the refinement: a store is `Accept`,
a transmission `Emit`, a shift `Leave`, all other steps leave the abstract queue as it
is. The work is in the lemmas on the wrapping indices: what a store and a read do to
`Stored`.

**Mutex.** `MutexInv` adds to exclusion and `LockedIffHeld` that while the monitor is
open behind a thread that has read UNLOCKED, the word still is, and that an attempt
that has not reached its store counts as failed.

**Esp8266.** `BufferInv`: the index is the number of bytes since the last reset (the
burst is below the buffer's size), and what was copied is the byte that still comes
first, since nothing is stored on top of it until the index is reset. From it every
step of the buffer is a step of `FirstByte` or none. `AnswersAreNew` needs `Fresh`
as well: while a command searches and no answer has come, none is in the buffer.

**UsbControl.** The theorems assume `~BackToBack`, and the run `usb_back_to_back` shows
that without it they are false; `StallsAreRefusals` assumes `~Window` as well, for which
`usb_window_stall` is the reason. In the device a transfer has three phases: its SETUP
waits in the endpoint (`UnreadInv`), is about to be handled (`SetupInv`), or was
handled; then there is one invariant for each state of the callbacks (`IdleInv`,
`DataInInv`, `StatusOutInv`, `DataOutInv`, `StatusInInv`), which relates what the host
has sent or got to what the device has stored, has yet to send or holds in the endpoint.
`Window` is what makes this hard: a data packet that comes before the last one was read
takes its place. Hence `Continues`: what waits in the endpoint follows what is stored,
or else some packet is lost for good and the length stays behind what was sent, so that
a write with a hole is never long enough to be dispatched. Reads and refusals are read
off the states' invariants. Addresses and completions need `CutInv` as well, which says
what a bus reset leaves of a transfer: its request is still the host's last one, a
packet received in DATA_OUT is still part of that write, and a completion pending in
STATUS_OUT or STATUS_IN belongs to a transfer that the host had ended well
(`host.well`). `AddressInv` then has three cases: the addresses agree, the completion of
SET_ADDRESS is pending, or it was when the reset came (`LateAddress`). Where a reset
took the mark from an unread SETUP (`host.lost`), nothing is claimed but that no
completion of a sent packet is left.

**UsbStandard and UsbMsc.** `pm_top` does not bound the buffers in use: a bus reset in
the middle of the set-config callbacks puts it back below endpoints that are set up
after it. `MemoryInv` therefore says where the buffers are by themselves, and where
`pm_top` is only while the callbacks run (`TopInCalls`), the one time it is used. The
last conjunct of `LayoutAssumption`, that the layout only grows, follows from the one
before it by induction, which the prover cannot do. A callback that runs for a packet
from before a reset enables its half again, so the invariant speaks of all halves that
were ever set up (`Places`): each has its last place, or its set-up is still to come.
That a callback only runs for halves that were set up is `HalvesInv`. `MscConfigures`
shows that the class behaves as `UsbStandard` allows, so `MemorySafe` holds for it.
`ReadyInv` follows a SET_CONFIGURATION: received, in the callbacks with so many of the
calls made, settled, accepted by the host. What the callbacks of the bulk endpoints do
enters by one lemma on each operator only: they keep toggles and disable nothing. Both
theorems hold for every value of `Cuts`, `BackToBack`, `OutFirst` and `CbwLen`.

`BlocksRefined` shows that `UsbMsc` implements `BlockDevice`, for every size of disk,
block and packet and every set of commands, with any addresses and counts that their
fields can hold (`MscAssumption` limits both by `LbaSpan`, 2^32 in the code), in the
setting that `Orderly` names: no command is cut off or overtaken, the OUT endpoint is
polled first, a command block fits a packet. Section 3 says what happens outside of it;
each of the four is needed. `BlocksInv` follows a command. Without a command block the
class is `Resting`: its counters are zero, and the host is idle, about to send a command
or has just sent it. With one it is `Writing`, `Sending`, `Finishing` or `Mistaken`: in
the last, the host takes the status of a command without data for its data, after which
it is `Starved` until it gives up. Each of the first three relates what the host has
sent or got to `t.count`; `Off`, what has come into the current block, lets `Writing`
say which blocks are on the disk already (`OnDisk`: of those that the disk has) and
which bytes are in the buffer; `Loaded` says the same of the block that goes out, and
`Fits` of the bytes in the endpoint and with the host: every one is a byte that
`MayReply` allows in its place. `StatusOut` is the status from the moment it is put into
the endpoint, for a write before its data have come, until its completion is polled. The
abstract `blocks` are not `disk` but `Stored`, for a write whose last packet the host
has sent and the firmware has not polled: the host may take the status before the poll,
and an answer must find the blocks written. That `Stored` is what the callback will then
make of the disk is `BlockWritten`; `WrittenIs`, `SendResult` and `BlockResult` say what
the callbacks do to a transaction in its state, and each rests on the arithmetic of
offsets in a block whose length is a multiple of the packet's but otherwise unknown.
`MscTyped` follows from the same invariant.

**Sht20.** `Sht20Typed` (`TypeOK`), `Sht20BusFree` (`BusFree`) and `Sht20Given`
(`GivenToReader`) hold for all constants. `Sht20FiledRight` (`FiledRight`) has a
hypothesis, `InTime`: a period has at least `2 * MaxRounds + 5` rounds, and so has, but
for two, the short one before the counter wraps. With the code's 300 rounds and 16 bits
(the short period has 135 rounds) this allows a measurement of 66 rounds, more than a
second, where the sensor takes less than a tenth of one. The hypothesis is about what
the code relies on: TLC finds `FiledRight` violated with a period of 6, a width of 18 or
a measurement of 2 rounds, each alone in place of the run's 7, 20 and 1, for then a
result is left when the next measurement starts. Only the short period could do with one
round less.

The bus is proved procedure by procedure. For each operation of a START with an address,
a command, a STOP, the pins and the three bytes there is a formula that says what the
lines and the sensor's shift register are there: `Opened` if the sensor has seen the
START, `Missed` if it still acknowledges the address of a read that was given up and
takes the START for a clock of its data, `Commanding`, `Stopping`, `Booting`, `Byte` and
`Ending`. One lemma each shows that an operation leads from the formula of its place to
that of the next, and rests on lemmas about `Sees`, what the sensor makes of an edge,
and about the bits of a byte. `Control` ties `call` and `todo` to these formulas as long
as no reset has come; `PortOK`, which types the sensor, holds after one as well.
`GivenToReader` is a statement about one step and follows from `Missed`: a sensor that
sends is either clocked by its reader or in that one START, and one that does not send
only gives up a result for a new measurement.

`FiledRight` needs time. `Timely` bounds the age of what the sensor has by the rounds since
the measurement was started: one that is still running has `Age + dev.rounds <= Due`, a
result is fetched in the round after it is there or, if its address was answered too late
(`Missed`), in the one after that. So both results are fetched before `mode` changes, and
what a read brings is of the quantity `mode` stands for (`Wanted`).

### What is only model-checked

Liveness (`SilenceIsReset`, `ServiceRestored`, `GoesQuiet`, `SpinsOnlyOnOthers`,
`SetupHeard`, `TransfersEnd`, `CommandEnds`, `Recovers`, `CommandsAnswered`) and the fair
refinement `ImplementsFairFifo`: fairness and ENABLED are out of the prover's reach.
Of `Sht20` that leaves `Recovers`: what the sensor and the bus do after a reset of the
processor in the middle of a byte is explored by the run; the theorems say of it
only that everything keeps its type.

## 5. What is not modelled

In the firmware: the packet layout of MQTT (`M`:45-190) and the text of the report, on
which no control depends; the 16-bit wrap of the request identifier, which the client
never compares; the unused TXE half of `usart2_isr`; the LED, a table walk with one read
past its end per round (`led_breath.c`:90).

In the library: the requests of `SR` that only read, alternate settings, suspend, resume
and SOF; that an update of an endpoint register is a read and a write
(`st_usbfs_common.h`:214), with the peripheral changing bits in between; that odd sizes
of IN endpoints misalign the packet memory. The two halves of the RTC counter
(`rtc.c`:216), the CAN mailboxes and flash programming have no caller in the firmware.

Most of the 117,870 lines of the repository are register definitions and accessors,
nearly all for chips this firmware is not built for, and drivers for controllers
that its chip does not have: they have no states of their own, and a model of
them would restate them. The reasons per component are in `PROJECT.json`.

## 6. Plan

The order was: the link and the UART it depends on, console and mutex, control
transfers, the sensor over its bus, configuration and packet memory, mass storage, then
the proofs about control transfers, about mass storage and about the sensor. All of this
is done. What is left, the most consequential first:

1. The update of an endpoint register as a read and a write, in `UsbfsEp`.
2. Small protocols: CAN mailboxes, the RTC counter.

Modules are written to be proved about: parameters are constants with named
assumptions, invariants are conjunctions of named parts, recursion is avoided.

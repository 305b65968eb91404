# Verification of the SLIP and VLC network drivers

TLA+ models of the drivers in this repository, TLC configurations that check them on small
instances, and TLAPS proofs of their main safety properties for every value of the constants.

## 1. The system

The repository holds two families of Linux network drivers that turn packets of the network
stack into traffic on a visible-light (VLC) link and back.

| Part | Source | State it keeps | Operations | Talks to |
|---|---|---|---|---|
| SLIP transmit path | `src/slip/slip.c` | `xbuff`, `xhead`, `xleft`, `mtu`, `buffsize`, `sl->lock`, the queue's stopped flag, `TTY_DO_WRITE_WAKEUP`, `tx_work` | `sl_xmit`, `sl_encaps`, `slip_transmit`, `slip_write_wakeup`, `sl_tx_timeout`, `sl_open`, `sl_close`, `sl_change_mtu` | network stack, tty driver, work queue, watchdog |
| SLIP receive path | `src/slip/slip.c` | `rbuff`, `rcount`, `xbits`, `xdata`, `SLF_ERROR`, `SLF_ESCAPE`, `mode` | `slip_receive_buf`, `slip_unesc`, `slip_unesc6`, `sl_bump` | tty layer, IP |
| SLIP channels | `src/slip/slip.c` | `slip_devs[]`, `sl->tty`, `tty->disc_data`, `SLF_INUSE`, registration | `slip_open`, `slip_close`, `sl_alloc`, `sl_sync`, `sl_alloc_bufs`, `sl_free_netdev`, `slip_exit` | tty layer, RTNL |
| SLIP line checking | `src/slip/slip.c` | two timers, `keepalive`, `outfill`, `SLF_KEEPTEST`, `SLF_OUTWAIT`, `leased` | `sl_keepalive`, `sl_outfill`, `slip_ioctl`, `sl_ioctl` | timers, tty |
| VJ header compression | `src/slip/slhc.c` | circular list of transmit slots, receive slots, `SLF_TOSS`, `xmit_current`, `recv_current` | `slhc_compress`, `slhc_uncompress`, `slhc_remember`, `slhc_toss` | both SLIP paths |
| snull driver | `src/snull/snull.c` | packet pool, receive queue, `status`, `rx_int_enabled`, `skb` | `snull_open/release/config/tx/hw_tx/tx_timeout/poll`, two interrupt handlers | stack, its twin device |
| VLC driver | `src/vlc/vlc.c` | the same, one device | the same, plus FTDI set-up and module init and exit | stack, itself, the FTDI chip |
| sketches, tests, vendored code | `src/snull.c`, `src/scull.c`, `src/test`, `src/release_d2xx` | - | - | - |

The SLIP stack is what a deployment uses: `slattach -p slip` attaches the line discipline to
the serial device of the light link. `sl_xmit` encodes one packet into `xbuff` and offers it to
the tty driver; what the driver does not take is written by the work item `slip_transmit`, each
time the tty driver reports room. On the way in `slip_receive_buf` decodes bytes into `rbuff`
and hands a frame to IP at each END.

What is hard here: five contexts meet on `struct slip` (the stack, the work queue, the
watchdog, the administrator under the RTNL, the tty layer), some of them under `sl->lock`, some
not; the queue's "stopped" flag is the only thing that keeps `sl_xmit` from overwriting unsent
bytes and no lock covers it; wakeups must be asked for before the write that makes them
necessary; a hangup must stop everything before memory goes away. `PROJECT.json` lists each
hazard at its line.

### What makes each part correct

- Transmit: one frame at a time, whole and in order; never an unsent byte overwritten; every
  byte inside the buffer through MTU changes; a stopped queue reopens; a hangup ends.
- Receive: what was sent is what is delivered; noise costs only the frames it touches; no byte
  outside `rbuff` while the buffer is replaced.
- Channels: a slot is reused exactly when its device is gone; a failed open leaves nothing.
- Line checking: no timer after the hangup; a silent line is hung up, a live one is not.
- Compression: the slot list is whole and in order of use; while nothing is lost the receiver
  rebuilds every header; after a loss only the slots it touched are wrong, until a whole packet.
- snull/vlc: no packet lost inside the driver, pool buffers conserved, the queue stopped
  exactly while the pool is empty, each skb freed once.

## 2. Plan

| # | Module | Composes | Promise | State |
|---|---|---|---|---|
| 1 | `SlipTx` | buffer, queue, work item, watchdog, hangup | `FrameLine` | checked; all invariants and the step refinement proved |
| 2 | `SlipCodec`, `SlipRx` | encodings; decoder, `sl_bump`, MTU change, close, mode change | packets in = packets out, but for those interfered with | checked; all state invariants proved |
| 3 | `Snull` | pool, interrupts, watchdog, two devices or one | packets conserved, each delivered at most once | checked; all invariants proved, three of them for devices that are their own wire |
| 4 | `Slhc` | compressor, lossy line, decompressor, restarts | headers are rebuilt as sent; retransmissions end disagreement | checked; all state invariants proved |
| 5 | `SlipChannel` | channel table, open with its error paths, close, `sl_sync`, exit; one process for each terminal | slots and registered devices match | checked; all state invariants proved |
| 6 | `SlipSmart` | `SlipTx` with two timers, the ioctls, the receiver's flag | a silent line is hung up, a live one is not | checked; all safety properties proved |
| 7 | `SnullModule` | `Snull` with init, failing allocation and registration, cleanup | nothing used after it is freed, everything freed | checked; both state invariants proved |

`SlipSmart` and `SnullModule` are compositions: they extend the module of the data path, take its
actions as they are, and add the variables and actions of their own part. `SlipTx` implements
`FrameLine` by the refinement mapping in `ImplementsFrameLine`.

Every state invariant that a passing run checks is also proved; section 9 says how, and what stays
with the model checker.

## 3. SlipTx

State and actions follow the code one to one (the `map` of `PROJECT.json` has the lines):

| Code | Model |
|---|---|
| `sl->lock` | `lock`, naming its holder; steps that take and drop it at once need it free |
| `netif_stop_queue`, `netif_wake_queue` | `stopped` |
| `sl_xmit` and `sl_encaps` | `XmitFree`, `XmitOversize`, or `XmitEncode`, `XmitWrite`, `XmitFinish` (the lock is held throughout; the driver may run between) |
| `slip_transmit` | `WorkRun`, then `WorkReturn`, or `WorkEmpty` and `WorkWake` (lock dropped between), or `WorkWrite` and `WorkUpdate` |
| `slip_write_wakeup` | `TtyWakeup`, when the driver has drained (`TtyDrain`) and the bit is set: the unlocked read of `tty->disc_data`, whose outcome is in `waker`; then `ScheduleWork` |
| `sl_tx_timeout` | `Timeout`, `TimeoutOops` |
| `sl_open`, `sl_close` | `SlOpen`; `DevClose` (netif_running off) and `SlClose` |
| `sl_realloc_bufs` | `ChangeMtu` |
| `slip_close` | `Detach`, `FlushWork`, (device close), `Unregister` |

A packet is its length, the length after header compression and the number of bytes to escape.
A byte on the wire is a token naming its frame, its position and the frame's length, so that
order, repetition and truncation show. `ops->write`, the FIFO and the interrupt belong to the tty
driver, which is outside the repository: it takes what fits and calls `tty_wakeup` after it has
drained. The constant `WakeWhenEmpty` chooses between a driver that reports room after any block and
one that waits for its FIFO to run empty. The comment of `slip_close` says that this "call is
serialized against other ldisc functions" (`slip.c:871`). The constant `Serialised` says whether the
tty layer keeps that promise: without it a wakeup may hold `struct slip` while `slip_close` runs, or
read a null pointer, after which that handler is dead (`waker = "null"`).

Four histories name the races that bound what the properties can say. `overtaken`: `sl_xmit` has
begun a frame while `slip_transmit` was between its `spin_unlock` and its `sl_unlock`. `recount`:
`slip_transmit` has found the buffer empty with the queue awake. `late`: `slip_close` has begun while a
wakeup held `struct slip`. `cut`: the frames whose rest was given up on purpose. The properties hold
for every driver, watchdog, administrator and tty layer as long as the race they name has not
happened; section 10 says what happens when it has.

`StepsOfFrameLine` and `ImplementsFrameLine` are the two forms of the refinement: the first one, of the
steps, up to `overtaken` and for all drivers; the second one, with the fairness of `FrameLine`, for a
driver that wakes when empty. `NoWorkAfterFree` is what the comment of `slip_close` promises; it fails
only if the tty layer breaks its own (`Serialised = FALSE`), which is no fault of this code, so that
the run checks `OnlyLateWork`, and `SerialisedFreeSafe` proves the promise under the assumption.

A hangup is three steps, because the buffers go away only in `unregister_netdev`: `Detach` clears
`sl->tty` under the lock, `FlushWork` waits for the work item, `Unregister` closes the device and
frees the buffers.

## 4. SlipCodec and SlipRx

`SlipCodec` holds the encodings as operators over byte values: `Esc`, `Esc6` (the bit buffer of
`slip_esc6` is a 16-bit accumulator), and the decoders `Unesc`, `Unesc6` for one received byte.
The loops of `slip_esc` and `slip_esc6` over a packet, and that of `slip_receive_buf` over a line of
bytes, are the recursive functions `EscLoop`, `Esc6Loop` and `Reception`, whose value at `k` is what
the loop has made after `k` bytes. `SlipCodecCheck` grows every packet over a set of bytes and
compares the decoder with what was encoded; `CheckAssumption` says no more than that packets and
garbage are made of bytes. `FrameLength`, which is proved and not run, justifies that `SlipTx`
describes a packet by its length and its number of bytes to escape.

| Code | Model |
|---|---|
| `slip_receive_buf` | `Deliver` (one check of `netif_running` for a block), then one step for each byte: `TakeBad` for a byte the tty marks, else by what the decoder says `TakeNone`, `TakeData`, `TakeEnd` |
| `sl->rbuff[sl->rcount++] = s` | `Store`, a step after the check in `TakeData`: the receive path does not take `sl->lock` |
| `sl_bump` | `Bump` or `BumpDrop`, a step after `TakeEnd` has read the count |
| `sl_realloc_bufs` | `ResizeSwap`, `ResizeCopy`, `ResizeEnd`: `rbuff`, the copy and `buffsize` change one after the other, and only transmitters are locked out |
| `sl_close`, `sl_open` | `SlClose` (`rcount` reset), `SlOpen` (`SLF_ERROR` and `SLF_ESCAPE` reset) |
| `slip_ioctl`, `SIOCSIFENCAP` | `SetMode` |
| the peer, the serial line | `Send`, and `Noise` (a byte changed, marked, lost or made up); external |

A byte on the line remembers which packet it belongs to; `touched` collects the packets that noise
or administration has interfered with, so that the main property can say what the others are owed.
`rcount` and the byte in `Store` are those of the check, the pointer is that of the check or that
of the store, as a compiler may choose. New memory is filled with -1. `outside` is raised by every
store of `slip_unesc`, read of `sl_bump` and copy of `sl_realloc_bufs` that is not inside an allocation
in use: `rbuff` is exchanged before `buffsize` is set, so that the unlocked check may pass for an index
beyond the new, smaller buffer, and the old one is freed at the end of the exchange. What such a
store does to other memory is not followed. `overlap` is raised when a byte is received in the
middle of an exchange; `StaysInside` says that nothing else leads outside. `Troubles` says which kinds of
interference an instance has and `MaxTroubles` how often. The error statistics and the keepalive bit
are left out; the CSLIP branch of `sl_bump` is in `Slhc`.

## 5. Snull

One module for both memory-backed drivers: `Twin` is the other device in `snull.c` and the device
itself in `vlc.c`. Each device has one processor at a time in its transmit function (the kernel
holds the transmit lock for `ndo_start_xmit` and for the watchdog), recorded in `ctx`; the
interrupt handlers are function calls and run on that processor, for the twin or for the device.

| Code | Model |
|---|---|
| `snull_tx`, `snull_hw_tx` | `Tx`, `GetTxBuffer`, `Enqueue`, `ReadDest`, `WriteDest`, interrupt of the twin, `ReadOwn`, `WriteOwn`, interrupt of the device |
| `priv->status \|= ...` | a read and a write: it is not under `priv->lock` and not atomic |
| `snull_regular_interrupt`, `snull_napi_interrupt` | `RegularInterrupt`, `NapiInterrupt`: one step each, under `priv->lock` |
| `snull_release_buffer` | `ReleaseBuffer` under the lock; after it `Recheck`, which looks at the queue and at `pkt->next`, and in a later step `WakeQueue` |
| `snull_tx_timeout` | `TxTimeout`, the interrupt, `TimeoutWake` |
| `snull_open`, `snull_release` | `Open`, `Release`; the kernel lets no transmission overlap them |

The pool and the receive queue are sequences with the head of the C list first; `alone` is the set
of packets whose `next` is NULL, which `Recheck` reads after the packet may have moved on. `live`
holds the skbs the driver owes to the kernel; `InOrder` says of a device that is its own wire that
this is at most the one in `priv->skb`, besides the order of delivery. `len < 34` in `snull_hw_tx`
cannot happen, because `snull_tx` pads to 60 bytes. `snull_poll` is not modelled: `netif_napi_add`
leaves an instance marked as scheduled until `napi_enable`, which no file calls, so `napi_schedule`
does nothing.

## 6. Slhc

Both ends of a line in CSLIP mode. A header is a record of what `slhc.c` looks at: the connection,
`fixed` for all fields that must not change (version, header lengths, tos, DF, ttl, options), the
fields that are sent as differences, and the amount of data `len`. 16-bit and 32-bit fields count
modulo `Short` and `Long`. `SlhcAssumption` gives the streams the type of headers and keeps the
mark of an empty slot (`"none"`, in place of the addresses `kzalloc` zeroes) apart from the connections;
it excludes no header: amounts of data that do not fit a signed short and urgent flags that disagree
with the pointer are among those sent.

| Code | Model |
|---|---|
| search and relinking of `slhc_compress` | `Order`, `Matches`, `Stop`, `Found`, `Before`, `Relink`, `Touch` over the circular list `next`, `xmit_oldest` |
| the change mask and the deltas | `Changes`, `Delta`, `Mask`, `Uncompressible` with `Repeats` (case 0) and `Ambiguous` (the special masks) |
| the three kinds of frame, with or without a slot number | `Plain`, `Full`, `Compressed`; `Send`, `Retransmit`, `SendPlain` |
| `slhc_remember`, `slhc_uncompress`, `slhc_toss` | `ReceiveFull`, `BadCheck`; `ReceiveCompressed` with `Rebuilt` (`Advance` for the special masks, `Add` for the others), `RejectCompressed`; `Toss` |
| `sl_bump` | the kinds of frame; `IgnoreCompressed` and `adaptive` for SL_MODE_ADAPTIVE; `HandUp` |
| line and administration | `Lose` (also a frame dropped by `slip_unesc` or for `count + 80 > buffsize`), `Garble` (the slot number), `RestartSender`, `RestartReceiver` (`sl_free_bufs`, `sl_alloc_bufs`) |

Two fields of a frame are history: `for`, the slot the sender means, and `sent`, the whole header. So
is `lru`, the slots in the order of their last use, with which `LruOrder` compares the list. `hurt`
collects the receive slots a fault has touched since their last uncompressed frame, so that
`Faithful` can say what the others are owed. `slip.c` never calls `slhc_toss` for a damaged
frame, so a loss leaves the receiver with its current slot; `Faithful` exempts the frames this
misleads, and `RecoversNotUrgent` says that the stream gets well again. Two things go wrong without
any fault. A special case leaves the urgent flag of the stored header as it is, and SPECIAL_I passes
the amount of data through a signed short (`AsSigned`). `Misleads` recognises both, `misled`
collects the slots in which they have happened since the last uncompressed frame, and
`Faithful` is about the others.
`RecoversNotUrgent` leaves out urgent
packets: URG alone counts as a change in `slhc_compress`, so that a retransmitted urgent packet is
compressed every time.

## 7. SlipChannel, SlipSmart and SnullModule

`SlipChannel` is the table `slip_devs` and one process for each terminal. The tty layer serialises
open and close of one terminal, and nothing serialises different terminals but the RTNL.

| Code | Model |
|---|---|
| `slip_open` | `OpenLock` (the RTNL), the loop of `sl_sync` (`SyncRead`, `SyncUse`, `SyncUseFreed`), the search of `sl_alloc` (`ScanNext`), `AllocFails` or `Alloc`, then `Register` or an error path: `SetupFails`, `SlhcFails`, `RegisterFailsLate` |
| `slip_close` | `Detach`; `unregister_netdev` under the RTNL is `Unregister`; the destructor `sl_free_netdev` is `FreeNetdev` and the freeing of the memory `Free`, both after the RTNL has been dropped |
| administrator | `DevOpen`, `DevClose`, `Lease` |
| `slip_exit` | `Exit`, when no terminal is attached |

A device is used once: its number stands for one allocation, so that a pointer to freed memory is
recognised. `Failures` says what may fail in `slip_open`. Two actions are faults of the code after
which nothing is promised: `SlhcFails` (`slhc_init` returns an error pointer and `slhc_free` follows
it) crashes the machine, and `SyncUseFreed` (`sl_sync` looks at a device whose destructor did not
wait for the RTNL) may.

`SlipSmart` adds line checking (`CONFIG_SLIP_SMART`) to `SlipTx`.

| Code | Model |
|---|---|
| `sl_keepalive`, `sl_outfill` | `Expire` takes the timer off the queue; the callback waits for `sl->lock` and is `CallbackLeaves`; or `CallbackWaits`, then `Rearm`; or `Keepalive` (`test_bit`), then `TtyHangup`; or `Outfill`, then `Rearm` |
| `SIOCSKEEPALIVE`, `SIOCSOUTFILL` | `SetPeriod` (`mod_timer`), then `SetPeriodFlag` (`set_bit`); `ClearPeriod` (`del_timer`), `IoctlNoTty` |
| `SLF_KEEPTEST`, `SLF_OUTWAIT` | `flag`, cleared by `ReceiveEnd` (no lock is taken), `EncapsEnds` and `OpenClearsFlags` |
| the END of `sl_outfill` | `PutEnd`: a place in the driver's FIFO, and in `ends` the place on the line where it went |
| `slip_close` | `SmartDetach`, `FlushWork`, `DelTimerSync` for each timer, `SmartUnregister` |
| `tty_hangup` | `dying`: it only schedules the hangup |

Between two steps of a callback or an ioctl the lock is held (`lock = "smart"`, and `step` says what is
left to do), which keeps out the transmit half but not `slip_unesc`. Time is left out: an armed timer
may expire at any moment. `heard`, `overlooked`, `silent` and `ends` are history. A callback that waits
for the lock while an ioctl arms its timer again can hang up a line earlier than the new period;
`heard` therefore counts from the last arming. A frame that ends between `mod_timer` and `set_bit`, or
between `test_bit` and `tty_hangup`, is overlooked. The message of `sl_keepalive` knows no such
frame; `HangupJustified` names the two gaps.

`SnullModule` adds `insmod` and `rmmod` to `Snull`.

| Code | Model |
|---|---|
| `snull_init_module`, `vlc_init_module` | `AllocDevice` (with the pool as far as it could be allocated) or `AllocFails` for each device, then `Register` or `RegisterFails` for each |
| `snull_cleanup`, `snull_teardown_pool` | `Rmmod`; for each device `CleanupNull`, or `Unregister`, `TeardownPool`, `FreeNetdev` |
| the kernel | an interface can be opened once it is registered; `unregister_netdev` closes it when no transmission runs |

`ModuleAssumption` says that a driver lists each of its devices once and the twins of all of them.
`misused` collects the devices that are touched after they were freed. `vlc.c` does not test
`vlc_dev` in its cleanup and `snull.c` does (`ChecksNull`).

## 8. The runs

| Run | Instance | Shows |
|---|---|---|
| `slip_tx_steady` | three packets, 3 frames, a FIFO of 2 bytes, one MTU change, one hangup, a driver that wakes when empty, a tty layer that serialises | the queue reopens, a hangup ends, refinement of `FrameLine` with its fairness |
| `slip_tx_busy` | any driver, 2 frames, a watchdog expiry, a reopened device, an MTU that shrinks, a hangup that wakeups may overlap, printable SLIP | buffer bounds, order, whole frames, counts, steps of `FrameLine`, nothing after the free but late wakeups |
| `slip_smart` | one frame, any driver, one ioctl, one hangup | no timer after the free, checking goes on, no END inside a frame, a live line is hung up only for an overlooked frame, a silent one is hung up, closed and freed |
| `slip_channel` | three terminals, two slots, three devices, everything in `slip_open` may fail | slots and links are consistent, a channel that has lost its terminal leaves its slot |
| `slip_channel_leak` | one terminal, `sl_alloc_bufs` may fail | violation, see section 10 |
| `slip_codec` | every packet of up to 4 bytes out of 8 special ones, both encodings, 6 kinds of garbage | round trip, flushing |
| `slip_rx` | both encodings, packets of 2 to 5 bytes, buffer of 3 or 5 with one spare byte, one trouble anywhere: noise, an MTU change, a close, a mode change | only the frames that are touched are lost, nothing outside the live buffer |
| `slip_rx_resize` | one MTU change | violation, see section 10 |
| `slhc` | 4 connections on 3 slots, 11 headers that take every branch, one fault: a loss, a wrong slot number, a restart of an end | slot list, headers rebuilt, recovery |
| `vlc_steady` | one device, lockup every second packet, watchdog, a failed allocation, 5 packets, pool of 2 | order, each skb freed once, nothing stranded, the queue reopens |
| `snull_race` | two devices, 3 packets each, pools of 2, both interrupt modes, a watchdog expiry, a reopened device | conservation, no duplicates, flow control |
| `snull_module` | either driver, 2 packets for each device, pools of 0 to 2, failing allocations and registrations, a watchdog expiry, `rmmod` at any moment | no use after free, all packets freed, `rmmod` ends |

*Bounds.* The MTUs are 1 to 3 bytes and `MinMtu` plays the 576 of `sl_realloc_bufs`; what matters
is the relation between packet, buffer and what the FIFO takes: a frame of 3 to 6 bytes against a
FIFO of 2 needs several writes, so every step meets a frame that is begun, half sent and done.
Two or three frames show what one leaves behind for the next; the mutants need no more than two.
A pool of 2 is empty, part full and full, and 3 packets go round it once. Every counter is a bound
in a guard of the model and in the list of CONSTANTS. `slip_tx_busy` and `snull_race`
allow a stop: a channel hung up for good, and a queue nobody wakes.
`snull_race` uses the symmetry of the two devices.
In `slhc` one frame is on the line at a time: the line keeps its order, and a step of either end
depends on its own table and on one frame, so that more frames only delay what the receiver
does. Three slots are the fewest with a first, a middle and a last slot in the list; the
fourth connection takes one over. `Short` 3 and `Long` 9 let the sequence numbers wrap and a
difference be too large. The run allows a stop, when all is sent and has arrived.
In `slip_channel` the third terminal finds both slots taken or competes for the one that is being
emptied, and every slot may be used by more than one device. In `slip_smart` one ioctl
switches either timer on at any point of a callback or of the hangup; what a second ioctl changes is
left to the theorems. In `slip_rx` one spare byte plays the four of `slip.c`: the buffers then differ
enough (3 + 1 < 5) for an index that is good in the large one to be outside the small one. In
`snull_module` two packets let `rmmod` find one on its way and one locked up, and two openings let
both devices of a driver be up.

*Fairness.* `SlipTx`: the work queue runs queued work, `sl_xmit` returns, the line drains and the
driver's callback comes, a close once begun goes on (the caller is in the kernel and cannot
leave). Nothing is assumed of the stack, the watchdog or the administrator. `SlipSmart` adds that an armed
timer expires, that its callback gets the spin lock (strongly fair: the other callback takes the same lock
again and again, and kernel spin locks are queued), that `del_timer_sync` returns, and that the
tty layer carries out the hangup `tty_hangup` has scheduled. `SlipChannel`: open and close go on,
and the RTNL is a fair mutex, so that `Unregister`, which other terminals disable again and again,
is strongly fair. `SnullModule`: `insmod` and `rmmod` and the code inside the driver go on;
`Unregister` is strongly fair, since `dev_close` stops the queue before it waits for a
transmission. `Snull`: code inside the
driver runs on, and the kernel's watchdog fires for a queue that stays stopped, for which
`snull_init` sets `watchdog_timeo`. `Slhc`: frames arrive, and TCP sends what has not been
acknowledged again. That is strong fairness, because the line that is free between two frames
is offered to every connection in turn by the queue in front of `sl_xmit`.

*Mutants.* Each property of a passing run has a mutation of the code it is about, next to
the definition it changes, under which TLC finds the property violated.

## 9. The proofs

`SlipTx_proofs` proves for all constants that satisfy the assumptions of `SlipTx`
(`PacketAssumption`, `SizeAssumption`, `BoundAssumption`):

- `Invariance`: `Inv` is inductive. `XbuffFits` alone is not: that `xhead + xleft` stays inside the
  frame after `WorkUpdate` needs `actual <= xleft`, that it may be exceeded while `sl_xmit` is at
  work needs to know who holds the lock (`LockInv`), and that no step runs on freed buffers needs
  to know how far `slip_close` has come (`CloseInv`). There is one lemma for each process and one
  step for each action.
- `TypeCorrect`, `XbuffSafe`: type correctness and `XbuffFits`, from `Inv`. `EncodedFits` is the arithmetic
  of the allocation: twice the MTU and four bytes hold the worst case of either encoding.
- `FreeSafe`: `OnlyLateWork` for any tty layer. `CloseInv` says that from `Detach` on a wakeup holds `struct
  slip` only if it did so when `slip_close` began. `SerialisedFreeSafe`: with a tty layer that serialises,
  there is no such wakeup and `NoWorkAfterFree` holds.
- `OverrunFree`: `OverrunOnlyByRace` for every driver, watchdog and administrator. `AwakeInv` says that
  until `sl_xmit` slips in, an awake queue, or a `slip_transmit` about to wake it, has an empty buffer:
  each of the places that start the queue (`sl_encaps` refusing a packet, `sl_open`, `sl_tx_timeout`,
  `slip_transmit`) has just made or found `xleft` zero, and only `sl_xmit` fills it again.
- `LineInOrder`: `WireInOrder`, not even that condition needed. What is still to be sent (`ToSend`, the
  refinement mapping) is a stretch of `xbuff`; `OrderInv` says that it has consecutive bytes of one frame
  and that its first byte follows the last one on the line or begins a later frame. `LineSteps` is
  the lemma behind this and the refinement: every step sends a prefix of `ToSend`, gives the rest up,
  starts a frame, possibly over the rest of another, or leaves both as they are.
- `StepsImplementFrameLine`: the initial states are those of `FrameLine` and every step is a step of it
  or a stutter, until `overtaken`. With the fairness of `FrameLine`, which only TLC checks, this is
  `ImplementsFrameLine`.
- `FramesWhole`, `PacketsCounted`: `WholeUnlessCut` and `Counted`. A line that has stopped inside a frame
  is owed the rest (`LastInv`); one packet at most is neither counted nor waiting, from its
  encoding to the run of `slip_transmit` that finds the buffer empty (`CountInv`).

`SlipSmart_proofs` proves the safety properties of `SlipSmart`:

- `TimersDieFirst`, `CheckingPersists`: `TimerInv` says how far `slip_close` has come with the timers: one on
  which `del_timer_sync` has returned is neither queued nor running, and nothing arms it again
  because `sl->tty` is cleared before. That needs `life` and `tty` of `SlipTx` to move together.
- `HangupOnlyUnheard` (`HangupJustified`): `FlagInv` relates `SLF_KEEPTEST`, which `slip_unesc` clears without
  the lock, to `heard`: if the bit is set, or was when it was tested, no frame has ended since
  the timer was armed, but for those overlooked in the two gaps.
- `OutfillApart` (`OutfillBetweenFrames`): an END written while the queue is awake finds nothing left of the
  last frame (`AwakeInv`, shown to survive the steps of the timers), and what follows it on the line
  is the first byte of a later one (`Between`, kept by every step of the line by `LineKeepsBetween`).

`SlipChannel_proofs` proves all state invariants of `SlipChannel` for any numbers of terminals, slots
and devices: `ChannelTypes`, `SlotsHeld`, `LinksAgree`, `UpBuffered` and `UnloadsClean`, the last two
and the type invariant stated only there. `ChannelInv` is their inductive strengthening: `LockInv`
says where the holder of the RTNL is, `OwnerInv` which process a device belongs to at each stage of
its life, `TableInv` which devices a slot may hold. `SlotsHeld` is the interesting one: the destructor
empties its slot without the RTNL, and nobody else can have taken it because it is not empty before.

`SlipCodec_proofs` proves `RoundTripHolds`, `FlushesHolds` and `FrameLengthHolds` for packets of every
length and content and for any garbage before a frame. Loops are the recursive functions of
`SlipCodec`. `Recursion` shows that such a function exists and may be unfolded one step at a time, and
`Along` is the induction over the steps, from the library's theorem that the naturals are well
founded: the first step that breaks a fact is looked at. What is proved along the loops:

- SLIP: after each byte of the packet the decoder is out of its escape and its buffer holds the bytes
  so far (`StuffedHeard`, `EscHeard`).
- Printable SLIP: `Coupled` relates the 16-bit accumulator of `slip_esc6`, whose high bits overflow, to
  the receiver's `xdata` and `xbits`, which lose theirs too: the receiver has all bytes but the last, of
  which it has the high bits, and the sender still holds the low ones. `Mended` is the bit
  arithmetic that puts such a byte together, `LeftOver` the filling of the last character, which
  the receiver must not take for a byte.
- A frame's length is its bytes plus those to escape, or four characters for three bytes, rounded up.

`SlipRx_proofs` proves the two invariants of `SlipRx` for any packets, both encodings, any noise and any
administration, and what holds when there is neither:

- `BufferStaysInside` (`StaysInside`): unless a byte is received in the middle of an exchange of the
  buffers, every access is inside the buffer in use and `rcount` stays within `buffsize`. `InsideInv` is
  the inductive invariant: outside an exchange the buffer in use has room for `buffsize` and the
  spare bytes, so that the index that passed the check of `slip_unesc` is inside; in the middle of
  one the receiver is idle and the count is not above the size of the old buffer. The types are the
  lemma `RxTypeCorrect`.
- `DamageContained` (`UntouchedDelivered`): a frame that nobody interferes with is handed up as it was
  sent, in order and once, whatever happened to the frames around it. `RxInv` is the inductive
  invariant. `FrameInv` follows one such frame: its bytes from place `k + 1` on stand undamaged on the
  line (`Placed`), and by `Progress` the receiver either has not heard of it (`k = 0`), or has exactly
  what an undisturbed receiver of `SlipCodec`, one that starts with the frame, has after `k` bytes
  (`Hearing`), or is about to hand it up or has done so. Nothing is asked of the receiver's state
  before the leading END: `FirstByteGoes` is the step that makes it forget what came before.
  `InnerByteGoes` needs `AlikeStep`, that the two decoders go on alike, and `LastByteGoes` the round
  trip of `SlipCodec_proofs`. An administrator cannot take such a frame by surprise: `BeforeOrAfter`
  counts its bytes on the line and finds that it has not begun or is over. `OrderInv`, that the
  line, the frame last heard and what was handed up follow each other in the order of sending, gives
  the order.
- `CalmDelivers`: without noise and administration, and with packets that fit the buffer, all that is
  handed up is what was sent (`DeliveredIsSent`). The run `slip_rx_resize` refutes this for a buffer
  that is exchanged; the theorem shows that nothing but a disturbance or too large a packet can.

`Snull_proofs` proves `PacketsConserved`, the invariant `Conserved` for any number of devices, any
pools and any interleaving of their processors. `Conserved` counts; the inductive `SnullInv` says the
same without counting: no list holds a packet twice (`ListInv`), and each packet is pooled, queued
or held by one processor (`PlaceInv`), which needs to know what a processor holds at each place
(`CtxInv`). `PushFacts`, `TailFacts` and `PoolFacts` are the lemmas on lists, `GetMoves`,
`EnqueueMoves`, `InterruptMoves` and `ReleaseMoves` the four steps that move a packet, and
`NothingMoves` covers the others.

The other invariants of `Snull` are built on `SnullInv`:

- `NoneTwice` (`DeliveredOnce`), in both handler modes and whatever happens to `status`: a packet
  carries the number its device last gave out, the packets in hand and on a queue carry different
  numbers, and none that has been handed up (`NumberInv`, `CarryInv`).
- `SnullTypeCorrect` (`TypeOK`): a list without repetition of one device's packets is no longer
  than its pool (`ListBound`).
- `FlowControlled` (`FlowControl`), for two devices or one, in either mode. The danger is the processor
  that has returned a packet and has still to look at `pkt->next`, or has looked and not yet woken the
  queue: the packet may be taken again, and then the wake comes for an empty pool. `WakesWet` says why it
  does not: the returning processor is the only one that clears the status word of its device, so that
  every packet taken meanwhile comes back or leaves another in the pool. `Explained` says that a queue is
  stopped beside a pool with a packet only while such a processor will wake it.
- `OwnWireInOrder`, `OwnWireFreesOnce`, `OwnWireStrandsNone` (`InOrder`, `FreedOnce`, `NoneStranded`) for
  devices that are their own wire, as in `vlc.c`, under `Steady`: the regular handler, and no device
  closed and opened again. `WireInv` lists the phases of a transmission that one processor carries
  all the way: resting, sending, arriving, returning, finishing, restarting. Lockups and watchdog expiries
  are included. The hypotheses are those of the code's promise: with two devices `status` is a race
  (section 10), `snull_napi_interrupt` leaves packets on the queue because `snull_poll` never runs,
  and a device that locked up and is opened again forgets the skb it owed.

`SnullModule_proofs` proves `OwnWireNotMisused` and `OwnWireAllFreed`, the invariants `NoUseAfterFree` and
`AllPacketsFreed` for any numbers of devices and any failure of `insmod`. `LoopInv` says where the loops
over the devices stand, `OutsideInv` that nobody is inside an unregistered device, `StayInv` that
a processor stays with its device and the twin of it. `AllPacketsFreed` is the one that
could go wrong quietly: `snull_teardown_pool` frees only what is in the pool. `MemoryInv` shows that for
a device that is its own wire every packet is there when no processor is inside; for
`use_napi` this is not so: the packets its handler leaves on the receive queue are never freed.

`Slhc_proofs` proves all state invariants of `Slhc` for any number of slots, any streams of headers and any
faults: `SlhcTypeCorrect`, `SearchInOrderOfUse`, `NeverTwoSlots`, `EndsInStep` and `RebuiltFaithfully`.
`RebuiltFaithfully` holds for headers with any urgent flags, pointers and amounts of data; `misled`
follows the slots in which a special case went wrong. `SlhcInv` has five parts. `Ring` says that
`next` is a ring in the order of `lru`; moving a slot to its front is `TouchKeepsRing`, with one
case for each place in the list. `Chain` looks at the frames on the line: each one, applied to the
header that its slot holds when it arrives, gives the header that was sent, or misleads. That is
`Faithful` read ahead, and it needs `UncompressCompress`, the lemma that `slhc_uncompress` undoes
`slhc_compress` for every pair of headers, special masks and wrapped differences included. `Synced`
holds while there was no fault: both ends agree on the current slot, though most frames do not name
it.

The proofs rest on the named assumptions of the modules and on nothing else.

Model-checked only: all liveness, which is beyond the prover (`QueueReopens`, `HangupCompletes`,
`RecoversNotUrgent`, `UnloadCompletes`, `SilenceEndsChannel`, `SlotComesBack` and the fairness in
`ImplementsFrameLine`), and the two runs that show a disagreement. Where a property is proved its
run is a small instance of the theorem.

## 10. Where code and promise part

Two runs show a disagreement with what a comment of the source says:

- `slip_rx_resize`: `sl_realloc_bufs` is atomic for the transmitter only; a byte received between the
  exchange of `rbuff` and the copy is replaced by uninitialised memory.
- `slip_channel_leak`: when `sl_alloc_bufs` fails, `slip_open` leaves the new device in its slot of
  `slip_devs`; the slot is lost, and `slip_exit` will unregister a device that was never registered.

Other behaviours of the code bound what the passing runs and the theorems can promise. They are
in the models, and the properties name the condition under which they do not occur:

| Behaviour | Source | Excluded by |
|---|---|---|
| `slip_transmit` drops `sl->lock` and then wakes the queue. With a driver that reports room after every block it runs twice for one frame: `sl_xmit` begins the next frame before the second wake, and the one after that may overwrite unsent bytes, although the history of `slip.c` says "avoid tx overruns" (`slip.c:12`). TLC finds this when `NoOverrun` stands in for `OverrunOnlyByRace` in `slip_tx_busy`. | `slip.c:439` | `~overtaken` |
| A line on which a frame has just ended is hung up: `SLF_KEEPTEST` is tested before the hangup and set after `mod_timer`, while `slip_unesc` clears it without the lock. TLC finds this when `HangupJustified` of `slip_smart` loses its `overlooked`. | `slip.c:1443` | `~overlooked` |
| The special cases of `slhc_uncompress` leave the urgent flag of the stored header, which `slhc_compress` takes care of only when the urgent pointer changes (`slhc.c:363-373`). TLC finds this when `Faithful` of `slhc` is stated without `Misleads` and `misled`. | `slhc.c:543` | `Misleads` in `Faithful` |
| `slip_transmit` runs again on an empty buffer and counts the packet once more. | `slip.c:436` | `~recount` in `Counted` |
| A wakeup that overlaps `slip_close` queues the work item of a freed channel, or follows a null `disc_data`. | `slip.c:455` | `late`, `Serialised` |
| A byte received in the middle of an exchange of the buffers is stored outside the new one, or in the old one after it was freed. | `slip.c:980` | `~overlap` in `StaysInside` |
| SPECIAL_I passes the amount of data through a signed short. | `slhc.c:546` | `Misleads` in `Faithful` |
| `sl_tx_timeout` uses `sl->tty` without the check the other callbacks make. | `slip.c:480` | `TimeoutOops` ends the run |
| `sl_keepalive` waits for the lock while an ioctl sets a new period, and hangs up at once. | `slip.c:1435` | `HangupJustified` counts from the last arming |
| `sl_sync` looks at a device that another terminal's `slip_close` has freed. | `slip.c:724` | `SyncUseFreed` |
| The `\|=` on `priv->status` is a race between the processors of two devices: an skb is freed twice, or a packet stranded on the receive queue. | `snull.c:491` | `FreedOnce`, `NoneStranded` are for one device |
| The watchdog or `snull_open` wakes a queue with an empty pool and the next transmission follows a null pointer; with `use_napi` the pool never fills again. | `vlc.c:148`, `vlc.c:646` | `Undisturbed` |
| `sn1` transmits to `sn0` after `snull_cleanup` has freed `sn0`. | `snull.c:691` | `NoUseAfterFree` is for devices that are their own wire |
| The cleanup of `vlc.c` hands a null `vlc_dev` to `unregister_netdev`. | `vlc.c:786` | `CleanupNull` with `ChecksNull` |

## 11. Not modelled

- `src/release_d2xx` with its copies of `libusb` and `ftd2xx.h`, and `src/vlc/ftd2xx.h`: a third-party
  library, by far the largest part of the source tree by lines. The drivers call a handful of
  its functions; the FTDI calls in `snull_open` of `vlc.c` open the chip, configure it and close it
  again, so they leave no state. The models cover the drivers, and their share of the whole tree is
  small for this reason.
- `src/snull.c` and `src/scull.c`: incomplete sketches outside the build. `src/test` and the scripts:
  user-space programs without state of their own.
- `slhc.c`: truncated frames, `slhc_free` and the statistics, and the header bits it never looks at (ECE
  and CWR, which arrive as they were in the last uncompressed header). A failing `slhc_init` is in `SlipChannel`.
- `slip.c`: the error statistics; a tty driver whose `write` returns an error; the wait of one second in
  `slip_exit`, which meets no attached terminal because each one holds a reference to the module.
- `snull.c`, `vlc.c`: `snull_poll`, which never runs (section 5); `snull_config`, `snull_change_mtu` and the
  header operations, which change fields nothing else reads.

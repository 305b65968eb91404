------------------------------- MODULE Snull -------------------------------
(***************************************************************************)
(* The memory-backed drivers snull/snull.c (two devices, each the other's  *)
(* wire) and vlc/vlc.c (one device that is its own wire).  A transmission  *)
(* takes a buffer of the sender's pool, puts it on the receive queue of    *)
(* the other device and calls the interrupt handler of that device and     *)
(* then its own, all in the context of the sender.  The two devices may    *)
(* transmit on two processors at once: priv->lock protects the lists, and  *)
(* nothing protects the |= on priv->status.                                *)
(***************************************************************************)
EXTENDS Integers, Sequences, FiniteSets

CONSTANTS
  Devs,        \* the devices
  Twin,        \* the device that receives what a device transmits
  NapiModes,   \* values of the module parameter use_napi
  PoolSize,    \* module parameter pool_size
  Lockup,      \* module parameter lockup
  MaxSent, MaxDrops, MaxTimeouts, MaxOpens   \* bounds: packets of each device, failed
               \* allocations in snull_rx, watchdog expiries, times a device is reopened

ASSUME SnullAssumption ==
  /\ Twin \in [Devs -> Devs] /\ \A d \in Devs : Twin[Twin[d]] = d
  /\ NapiModes \subseteq BOOLEAN
  /\ PoolSize \in Nat \ {0} /\ Lockup \in Nat
  /\ {MaxSent, MaxDrops, MaxTimeouts, MaxOpens} \subseteq Nat

VARIABLES
  use_napi,                \* module parameter, read when the module is loaded
  up, stopped,             \* netif_running and netif_queue_stopped, for each device
  ppool, rx_queue,         \* the two lists of packets, first element first
  alone,                   \* the packets whose `next' field is NULL
  content,                 \* what a packet carries: the skb it was copied from
  status, rx_int_enabled,  \* priv->status as a set of "RX" and "TX"
  skb, tx_packets,         \* priv->skb and priv->stats.tx_packets
  live,                    \* the skbs the driver was given and has not freed
  ctx,                     \* for each device, the processor that holds its transmit lock
  got,                     \* history: what a device has handed to netif_rx
  faults,                  \* history: what must not happen to an skb or a pointer
  sent, drops, timeouts, opens   \* counted against the bounds

lists == <<ppool, rx_queue, alone, content>>
chip  == <<status, rx_int_enabled>>
skbs  == <<skb, tx_packets, live>>
link  == <<up, stopped>>
bounds == <<sent, drops, timeouts, opens>>
vars  == <<use_napi, link, lists, chip, skbs, ctx, got, faults, bounds>>

NULL == <<>>

\* A packet belongs to the pool of its device (pkt->dev).
Buffers == Devs \X (1 .. PoolSize)
Owner(b) == b[1]

\* A processor inside the driver: where it is, the device whose interrupt handler it is in,
\* the status word it has read, the packet in its hands, where it continues afterwards.
Idle == [pc |-> "idle", on |-> NULL, word |-> {}, pkt |-> NULL, back |-> "idle"]

\* snull_setup_pool pushes the packets one after the other.
PoolOf(d, n) == [i \in 1 .. n |-> <<d, n + 1 - i>>]

\* Nothing has been sent and nobody is inside the driver.
Quiet ==
  /\ use_napi \in NapiModes
  /\ stopped = [d \in Devs |-> FALSE]
  /\ rx_queue = [d \in Devs |-> << >>]
  /\ content = [b \in Buffers |-> NULL]
  /\ status = [d \in Devs |-> {}] /\ rx_int_enabled = [d \in Devs |-> TRUE]
  /\ skb = [d \in Devs |-> 0] /\ tx_packets = [d \in Devs |-> 0]
  /\ live = {}
  /\ ctx = [d \in Devs |-> Idle]
  /\ got = [d \in Devs |-> << >>] /\ faults = {}
  /\ sent = [d \in Devs |-> 0] /\ drops = 0 /\ timeouts = 0 /\ opens = 0

Init ==
  /\ Quiet
  /\ up = [d \in Devs |-> TRUE]
  /\ ppool = [d \in Devs |-> PoolOf(d, PoolSize)]
  /\ alone = Devs \X {1}

At(d, pc)   == ctx[d].pc = pc
Goto(d, pc) == ctx' = [ctx EXCEPT ![d].pc = pc]
Return(d)   == ctx' = [ctx EXCEPT ![d] = [Idle EXCEPT !.pc = ctx[d].back]]

\* Mutation of Push: what was on the list is not linked to the new packet.
PushOverwrites(b, list) == <<b>>

\* A packet becomes the head of a list: pkt->next = head; head = pkt.
Push(b, list) == <<b>> \o list
Link(b, list) == alone' = IF list = << >> THEN alone \cup {b} ELSE alone \ {b}

-----------------------------------------------------------------------------
(* snull_tx and snull_hw_tx for device d.                                  *)

\* The kernel calls snull_tx with the transmit lock held and the queue running.
Tx(d) ==
  /\ At(d, "idle") /\ up[d] /\ ~stopped[d]
  /\ sent[d] < MaxSent /\ sent' = [sent EXCEPT ![d] = @ + 1]
  /\ skb' = [skb EXCEPT ![d] = sent'[d]]
  /\ live' = live \cup {<<d, sent'[d]>>}
  /\ Goto(d, "get")
  /\ UNCHANGED <<use_napi, link, lists, chip, tx_packets, got, faults, drops, timeouts, opens>>

\* Mutation of StopIfEmpty: the queue stops one packet too early.
StopIfEmptyEarly(d, pool) == stopped' = [stopped EXCEPT ![d] = @ \/ Len(pool) <= 1]

\* The queue is stopped if nothing is left for the next packet.
StopIfEmpty(d, pool) == stopped' = [stopped EXCEPT ![d] = @ \/ pool = << >>]

\* snull_get_tx_buffer and the copy of the data: an empty pool is a null pointer.
GetTxBuffer(d) ==
  /\ At(d, "get")
  /\ IF ppool[d] = << >>
       THEN /\ faults' = faults \cup {"null pointer"}
            /\ Goto(d, "dead")
            /\ UNCHANGED <<ppool, content, stopped>>
       ELSE /\ ctx' = [ctx EXCEPT ![d].pc = "enqueue", ![d].pkt = Head(ppool[d])]
            /\ ppool' = [ppool EXCEPT ![d] = Tail(@)]
            /\ StopIfEmpty(d, Tail(ppool[d]))
            /\ content' = [content EXCEPT ![Head(ppool[d])] = <<d, sent[d]>>]
            /\ faults' = IF <<d, sent[d]>> \in live THEN faults
                         ELSE faults \cup {"use after free"}
  /\ UNCHANGED <<use_napi, up, rx_queue, alone, chip, skbs, got, bounds>>

\* snull_enqueue_buf: at the head of the list.
Enqueue(d) ==
  /\ At(d, "enqueue")
  /\ rx_queue' = [rx_queue EXCEPT ![Twin[d]] = Push(ctx[d].pkt, @)]
  /\ Link(ctx[d].pkt, rx_queue[Twin[d]])
  /\ ctx' = [ctx EXCEPT ![d].pc = "read dest", ![d].pkt = NULL]
  /\ UNCHANGED <<use_napi, link, ppool, content, chip, skbs, got, faults, bounds>>

\* if (priv->rx_int_enabled) priv->status |= SNULL_RX_INTR, which reads ...
ReadDest(d) ==
  /\ At(d, "read dest")
  /\ IF rx_int_enabled[Twin[d]]
       THEN ctx' = [ctx EXCEPT ![d].pc = "write dest", ![d].word = status[Twin[d]]]
       ELSE Goto(d, "read own")
  /\ UNCHANGED <<use_napi, link, lists, chip, skbs, got, faults, bounds>>

\* Mutation of WriteDest: the interrupt comes without its reason.
WriteDestForgets(d) ==
  /\ At(d, "write dest")
  /\ ctx' = [ctx EXCEPT ![d] = [@ EXCEPT !.pc = "interrupt", !.on = Twin[d],
                                         !.word = {}, !.back = "read own"]]
  /\ UNCHANGED <<use_napi, link, lists, chip, skbs, got, faults, bounds>>

\* ... and then writes, followed by the interrupt of the twin.
WriteDest(d) ==
  /\ At(d, "write dest")
  /\ status' = [status EXCEPT ![Twin[d]] = ctx[d].word \cup {"RX"}]
  /\ ctx' = [ctx EXCEPT ![d] = [@ EXCEPT !.pc = "interrupt", !.on = Twin[d],
                                         !.word = {}, !.back = "read own"]]
  /\ UNCHANGED <<use_napi, link, lists, rx_int_enabled, skbs, got, faults, bounds>>

\* priv->status |= SNULL_TX_INTR reads ...
ReadOwn(d) ==
  /\ At(d, "read own")
  /\ ctx' = [ctx EXCEPT ![d].pc = "write own", ![d].word = status[d]]
  /\ UNCHANGED <<use_napi, link, lists, chip, skbs, got, faults, bounds>>

\* ... and writes; then every Lockup-th transmit interrupt is dropped and the queue stopped
\* instead.
WriteOwn(d) ==
  /\ At(d, "write own")
  /\ status' = [status EXCEPT ![d] = ctx[d].word \cup {"TX"}]
  /\ IF Lockup # 0 /\ (tx_packets[d] + 1) % Lockup = 0
       THEN ctx' = [ctx EXCEPT ![d] = Idle] /\ stopped' = [stopped EXCEPT ![d] = TRUE]
       ELSE /\ ctx' = [ctx EXCEPT ![d] = [Idle EXCEPT !.pc = "interrupt", !.on = d]]
            /\ UNCHANGED stopped
  /\ UNCHANGED <<use_napi, up, lists, rx_int_enabled, skbs, got, faults, bounds>>

-----------------------------------------------------------------------------
(* The interrupt handlers, on the processor of d for device ctx[d].on.      *)

\* dev_kfree_skb(priv->skb), which ignores a null pointer.
FreeSkb(e) ==
  /\ tx_packets' = [tx_packets EXCEPT ![e] = @ + 1]
  /\ live' = live \ {<<e, skb[e]>>}
  /\ faults' = IF skb[e] = 0 \/ <<e, skb[e]>> \in live THEN faults
               ELSE faults \cup {"double free"}

\* Mutation of TxDone: the skb is counted and not freed.
TxDoneLeaks(e) ==
  /\ IF "TX" \in status[e] THEN tx_packets' = [tx_packets EXCEPT ![e] = @ + 1]
                           ELSE UNCHANGED tx_packets
  /\ UNCHANGED <<live, faults>>

\* A transmission is over.
TxDone(e) ==
  IF "TX" \in status[e] THEN FreeSkb(e) ELSE UNCHANGED <<tx_packets, live, faults>>

\* snull_rx hands the packet up or, without memory for an skb, drops it.
Rx(e, b) ==
  \/ got' = [got EXCEPT ![e] = Append(@, content[b])] /\ UNCHANGED drops
  \/ drops < MaxDrops /\ drops' = drops + 1 /\ UNCHANGED got

\* Mutation of Cleared: the status word is read and not cleared.
ClearedNot(e) == status

\* The status word is cleared when it has been read.
Cleared(e) == [status EXCEPT ![e] = {}]

\* Mutation of Unlinked: the packet handled stays on the receive queue.
UnlinkedNot(e) == rx_queue

\* The first packet leaves the receive queue.
Unlinked(e) == [rx_queue EXCEPT ![e] = Tail(@)]

\* snull_regular_interrupt: clear the status word, take one packet, free the skb.
RegularInterrupt(d) ==
  LET e == ctx[d].on IN
  /\ ~use_napi /\ At(d, "interrupt")
  /\ status' = Cleared(e)
  /\ TxDone(e)
  /\ IF "RX" \in status[e] /\ rx_queue[e] # << >>
       THEN /\ rx_queue' = Unlinked(e)
            /\ Rx(e, Head(rx_queue[e]))
            /\ ctx' = [ctx EXCEPT ![d].pc = "release", ![d].pkt = Head(rx_queue[e])]
       ELSE Return(d) /\ UNCHANGED <<rx_queue, got, drops>>
  /\ UNCHANGED <<use_napi, link, ppool, alone, content, rx_int_enabled, skb, sent, timeouts, opens>>

\* snull_napi_interrupt.  napi_schedule does nothing: no code calls napi_enable, and until
\* then an instance counts as scheduled, so snull_poll never runs.
NapiInterrupt(d) ==
  LET e == ctx[d].on IN
  /\ use_napi /\ At(d, "interrupt")
  /\ status' = Cleared(e)
  /\ rx_int_enabled' = [rx_int_enabled EXCEPT ![e] = @ /\ "RX" \notin status[e]]
  /\ TxDone(e)
  /\ Return(d)
  /\ UNCHANGED <<use_napi, link, lists, skb, got, bounds>>

\* Mutation of Home: the pool of the device that received the packet.
HomeReceiver(d) == ctx[d].on

\* The packet is released to pkt->dev.
Home(d) == Owner(ctx[d].pkt)

\* snull_release_buffer: the packet goes back to its pool ...
ReleaseBuffer(d) ==
  LET b == ctx[d].pkt IN
  /\ At(d, "release")
  /\ ppool' = [ppool EXCEPT ![Home(d)] = Push(b, @)]
  /\ Link(b, ppool[Home(d)])
  /\ Goto(d, "recheck")
  /\ UNCHANGED <<use_napi, link, rx_queue, content, chip, skbs, got, faults, bounds>>

\* ... and, after the unlock, looks whether the queue is stopped and pkt->next is NULL ...
Recheck(d) ==
  LET b == ctx[d].pkt IN
  /\ At(d, "recheck")
  /\ IF stopped[Home(d)] /\ b \in alone THEN Goto(d, "wake") ELSE Return(d)
  /\ UNCHANGED <<use_napi, link, lists, chip, skbs, got, faults, bounds>>

\* ... and only then wakes the queue.
WakeQueue(d) ==
  /\ At(d, "wake")
  /\ stopped' = [stopped EXCEPT ![Home(d)] = FALSE]
  /\ Return(d)
  /\ UNCHANGED <<use_napi, up, lists, chip, skbs, got, faults, bounds>>

-----------------------------------------------------------------------------
(* The watchdog and the administrator.                                     *)

\* snull_tx_timeout, with the transmit lock held and the queue stopped: a transmit
\* interrupt takes the place of whatever is pending ...
TxTimeout(d) ==
  /\ At(d, "idle") /\ up[d] /\ stopped[d]
  /\ timeouts < MaxTimeouts /\ timeouts' = timeouts + 1
  /\ status' = [status EXCEPT ![d] = {"TX"}]
  /\ ctx' = [ctx EXCEPT ![d] = [@ EXCEPT !.pc = "interrupt", !.on = d, !.back = "restart"]]
  /\ UNCHANGED <<use_napi, link, lists, rx_int_enabled, skbs, got, faults, sent, drops, opens>>

\* Mutation of TimeoutWake: the queue is not woken.
TimeoutWakeNot(d) ==
  At(d, "restart") /\ Return(d) /\ UNCHANGED <<use_napi, link, lists, chip, skbs, got, faults, bounds>>

\* ... and the queue is woken, whatever the pool holds.
TimeoutWake(d) ==
  /\ At(d, "restart")
  /\ stopped' = [stopped EXCEPT ![d] = FALSE]
  /\ ctx' = [ctx EXCEPT ![d] = Idle]
  /\ UNCHANGED <<use_napi, up, lists, chip, skbs, got, faults, bounds>>

\* snull_release; the kernel waits for a transmission and stops the watchdog first.
Release(d) ==
  /\ At(d, "idle") /\ up[d] /\ opens < MaxOpens
  /\ up' = [up EXCEPT ![d] = FALSE] /\ stopped' = [stopped EXCEPT ![d] = TRUE]
  /\ UNCHANGED <<use_napi, lists, chip, skbs, ctx, got, faults, bounds>>

\* snull_open: netif_start_queue.
Open(d) ==
  /\ ~up[d]
  /\ up' = [up EXCEPT ![d] = TRUE] /\ stopped' = [stopped EXCEPT ![d] = FALSE]
  /\ opens' = opens + 1
  /\ UNCHANGED <<use_napi, lists, chip, skbs, ctx, got, faults, sent, drops, timeouts>>

-----------------------------------------------------------------------------
Transmit(d)  == \/ Tx(d) \/ GetTxBuffer(d) \/ Enqueue(d) \/ ReadDest(d) \/ WriteDest(d)
                \/ ReadOwn(d) \/ WriteOwn(d)
Interrupt(d) == RegularInterrupt(d) \/ NapiInterrupt(d) \/ ReleaseBuffer(d) \/ Recheck(d) \/ WakeQueue(d)
Timeout(d)   == TxTimeout(d) \/ TimeoutWake(d)
Admin(d)     == Release(d) \/ Open(d)

\* Everything allowed has been sent and every queue runs.
Rest == /\ \A d \in Devs : At(d, "idle") /\ sent[d] = MaxSent /\ ~stopped[d]
        /\ UNCHANGED vars

\* What happens after a kernel oops is not modelled.
Next == \/ Rest
        \/ /\ "null pointer" \notin faults
           /\ \E d \in Devs : Transmit(d) \/ Interrupt(d) \/ Timeout(d) \/ Admin(d)

Spec == Init /\ [][Next]_vars

\* Code inside the driver runs on, and the kernel runs the watchdog of a stopped queue.
InDriver(d) == ~At(d, "idle") /\ (Transmit(d) \/ Interrupt(d) \/ TimeoutWake(d))
Fairness == \A d \in Devs : WF_vars(InDriver(d)) /\ WF_vars(TxTimeout(d))

FairSpec == Spec /\ Fairness

-----------------------------------------------------------------------------
(* Properties.                                                             *)

\* Every variable keeps its type.
TypeOK ==
  /\ up \in [Devs -> BOOLEAN] /\ stopped \in [Devs -> BOOLEAN]
  /\ ppool \in [Devs -> Seq(Buffers)] /\ rx_queue \in [Devs -> Seq(Buffers)]
  /\ \A d \in Devs : Len(ppool[d]) <= PoolSize /\ Len(rx_queue[d]) <= PoolSize
  /\ alone \subseteq Buffers
  /\ content \in [Buffers -> (Devs \X (1 .. MaxSent)) \cup {NULL}]
  /\ status \in [Devs -> SUBSET {"RX", "TX"}] /\ rx_int_enabled \in [Devs -> BOOLEAN]
  /\ skb \in [Devs -> 0 .. MaxSent] /\ tx_packets \in [Devs -> Nat]
  /\ live \subseteq Devs \X (1 .. MaxSent)
  /\ \A d \in Devs : /\ ctx[d].pkt \in Buffers \cup {NULL} /\ ctx[d].on \in Devs \cup {NULL}
                     /\ ctx[d].word \subseteq {"RX", "TX"}
  /\ got \in [Devs -> Seq(Devs \X (1 .. MaxSent))]
  /\ faults \subseteq {"null pointer", "use after free", "double free"}

\* How often a packet is on a list.
Count(b, list) == Cardinality({i \in DOMAIN list : list[i] = b})

InHand(b) == {d \in Devs : ctx[d].pkt = b /\ ctx[d].pc \in {"enqueue", "release"}}

\* A packet is in exactly one place: in the pool of its own device, on the receive queue
\* of the other one, or in the hands of one processor between two critical sections.
Conserved ==
  \A b \in Buffers :
    /\ Count(b, ppool[Owner(b)]) + Count(b, rx_queue[Twin[Owner(b)]])
         + Cardinality(InHand(b)) = 1
    /\ \A d \in Devs : /\ Owner(b) # d => Count(b, ppool[d]) = 0
                       /\ Owner(b) # Twin[d] => Count(b, rx_queue[d]) = 0

\* Whatever is lost, no packet is handed up twice or by the device that sent it, and none
\* is overwritten while it waits.
DeliveredOnce ==
  \A d \in Devs : \A i \in DOMAIN got[d] :
    /\ got[d][i] \in {Twin[d]} \X (1 .. sent[Twin[d]])
    /\ \A j \in DOMAIN got[d] : got[d][i] = got[d][j] => i = j

\* snull_get_tx_buffer takes the pool for non-empty.
PoolNeverEmpty == "null pointer" \notin faults

\* The watchdog and snull_open start a queue without looking at its pool.
Undisturbed == timeouts = 0 /\ opens = 0 /\ \A d \in Devs : up[d]

\* Without them flow control works: a queue is stopped only while its pool is empty, until
\* the processor that has just released the first packet has looked and woken it, or by a
\* simulated lockup; and it is stopped before snull_get_tx_buffer could meet an empty pool.
FlowControl ==
  Undisturbed =>
    /\ PoolNeverEmpty
    /\ \A d \in Devs : ppool[d] = << >> => stopped[d]
    /\ \A d \in Devs : stopped[d] =>
         \/ ppool[d] = << >>
         \/ \E p \in Devs : /\ At(p, "wake") \/ (At(p, "recheck") /\ ctx[p].pkt \in alone)
                            /\ Owner(ctx[p].pkt) = d
         \/ Lockup # 0

\* An skb is freed once, and not while it is being transmitted.
FreedOnce == faults \cap {"double free", "use after free"} = {}

\* The driver promises that it cannot fail: when no processor is inside it, no packet is
\* left waiting on a receive queue.
NoneStranded ==
  (\A d \in Devs : At(d, "idle")) => \A d \in Devs : rx_queue[d] = << >>

\* A device that is its own wire hands its packets up in the order it sent them, and owes
\* the kernel at most the skb it is transmitting.
InOrder ==
  \A d \in Devs : Twin[d] = d =>
    /\ \A i, j \in DOMAIN got[d] : i < j => got[d][i][2] < got[d][j][2]
    /\ \A s \in live : s[1] = d => s = <<d, skb[d]>>

\* A stopped queue of a running device runs again.
QueueReopens == \A d \in Devs : stopped[d] ~> (~stopped[d] \/ ~up[d])

=============================================================================

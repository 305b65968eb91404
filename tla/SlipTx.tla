------------------------------- MODULE SlipTx -------------------------------
(***************************************************************************)
(* The transmit half of one SLIP channel (slip/slip.c): the network stack  *)
(* calls sl_xmit, the tty driver calls slip_write_wakeup, the work queue   *)
(* runs slip_transmit, the watchdog runs sl_tx_timeout, an administrator   *)
(* takes the device down and up or changes its MTU, and the tty layer      *)
(* hangs the line up.  All of them meet on struct slip, under sl->lock,    *)
(* and on the state of the device's transmit queue, which no lock covers.  *)
(*                                                                         *)
(* Data: a packet is its length, the length slhc_compress leaves of it and *)
(* the number of bytes that slip_esc doubles.  A byte of an encoded frame  *)
(* is a token: the number of its frame, its position, the frame's length.  *)
(***************************************************************************)
EXTENDS Integers, Sequences

CONSTANTS
  Packets,        \* records [len, out, esc]: skb->len, bytes to encode, bytes to double
  Slip6,          \* TRUE when sl->mode has SL_MODE_SLIP6
  Mtus,           \* MTUs the administrator may ask for
  InitMtu,        \* SL_MTU, the MTU slip_open gives the channel
  MinMtu,         \* 576 in the code: buffers are never sized for a smaller MTU
  Slack,          \* 4 in the code: bytes allocated beyond sl->buffsize
  Room,           \* capacity of the tty driver's output FIFO
  WakeWhenEmpty,  \* TRUE for a driver that calls tty_wakeup only once its FIFO is empty
  Serialised,     \* TRUE when the tty layer lets no wakeup overlap slip_close
  MaxFrames,      \* bound: packets the stack hands to sl_xmit
  MaxTimeouts,    \* bound: expiries of the transmit watchdog
  MaxOpens,       \* bound: calls of sl_open
  MaxMtuChanges,  \* bound: calls of sl_change_mtu
  MaxHangups      \* bound: 1 when the line may be hung up, 0 when it stays

ASSUME PacketAssumption ==
  /\ Packets \subseteq [len : Nat, out : Nat, esc : Nat]
  /\ \A p \in Packets : p.out <= p.len /\ p.esc <= p.out   \* slhc_compress never lengthens

ASSUME SizeAssumption ==
  /\ Slip6 \in BOOLEAN
  /\ Mtus \subseteq Nat
  /\ InitMtu \in Nat /\ MinMtu \in Nat
  /\ Slack = 4
  /\ Room \in Nat \ {0} /\ WakeWhenEmpty \in BOOLEAN /\ Serialised \in BOOLEAN

ASSUME BoundAssumption ==
  /\ MaxFrames \in Nat /\ MaxTimeouts \in Nat /\ MaxOpens \in Nat
  /\ MaxMtuChanges \in Nat /\ MaxHangups \in Nat

VARIABLES
  tty,        \* sl->tty # NULL
  life,       \* progress of slip_close: "open", "detached", "flushed", "gone"
  link,       \* netdevice: "up" (netif_running), "stopping" (until ndo_stop), "down"
  stopped,    \* netif_queue_stopped(dev): the "sending" flag of sl_lock/sl_unlock
  wakeup,     \* TTY_DO_WRITE_WAKEUP in tty->flags
  lock,       \* holder of sl->lock: "free", "xmit", "work", "smart" (a timer or an ioctl
              \* of SlipSmart), or "oops" (died holding it)
  xmit,       \* progress of sl_xmit: "idle", "write" (calls ops->write), "done"
  work,       \* progress of slip_transmit: "idle", "enter", "update", "wake"
  pending,    \* tx_work is queued
  actual,     \* the local `actual' of whoever holds the lock
  mtu,        \* sl->mtu
  buffsize,   \* sl->buffsize
  xbuff,      \* the bytes valid in sl->xbuff
  xhead,      \* sl->xhead - sl->xbuff
  xleft,      \* sl->xleft
  fifo,       \* bytes in the tty driver's FIFO
  irq,        \* the driver has drained bytes and will call tty_wakeup
  waker,      \* slip_write_wakeup: "idle", "sl" (has read disc_data), "null" (read NULL)
  wire,       \* history: the bytes ops->write has taken, in order
  frames,     \* history: packets handed to sl_xmit
  cut,        \* history: frames whose unsent bytes were given up on purpose
  txPackets,  \* dev->stats.tx_packets
  txDropped,  \* dev->stats.tx_dropped
  overtaken,  \* history: sl_xmit has begun a frame while slip_transmit was on its way from
              \* spin_unlock to sl_unlock
  recount,    \* history: slip_transmit has found the buffer empty with the queue awake
  late,       \* history: slip_close has begun while a wakeup held struct slip
  timeouts, opens, mtuChanges, hangups   \* counted against the bounds

admin   == <<tty, life, link>>
buffer  == <<mtu, buffsize, xbuff, xhead, xleft>>
driver  == <<fifo, irq, waker, wire>>
stats   == <<frames, cut, txPackets, txDropped>>
races   == <<overtaken, recount, late>>
bounds  == <<timeouts, opens, mtuChanges, hangups>>
vars    == <<admin, stopped, wakeup, lock, xmit, work, pending, actual,
             buffer, driver, stats, races, bounds>>

Lesser(a, b) == IF a <= b THEN a ELSE b

\* len = mtu * 2, and at least 576 * 2.
BufLen(m) == IF m < MinMtu THEN 2 * MinMtu ELSE 2 * m

\* Bytes slip_esc writes for a packet: two ENDs and one more byte for each END or ESC.
EscLen(p) == p.out + p.esc + 2

\* Bytes slip_esc6 writes: two markers and one character for each six bits.
Esc6Len(p) == 2 + (8 * p.out + 5) \div 6

Encoded(p) == IF Slip6 THEN Esc6Len(p) ELSE EscLen(p)

Token == [frame : Nat, pos : Nat, of : Nat]

Frame(k, n) == [i \in 1 .. n |-> [frame |-> k, pos |-> i, of |-> n]]

Unsent == SubSeq(xbuff, xhead + 1, xhead + xleft)

Init ==
  /\ tty = TRUE /\ life = "open" /\ link = "down"
  /\ stopped = FALSE /\ wakeup = FALSE
  /\ lock = "free" /\ xmit = "idle" /\ work = "idle" /\ pending = FALSE
  /\ actual = 0
  /\ mtu = InitMtu /\ buffsize = BufLen(InitMtu)
  /\ xbuff = << >> /\ xhead = 0 /\ xleft = 0
  /\ fifo = 0 /\ irq = FALSE /\ waker = "idle" /\ wire = << >>
  /\ frames = 0 /\ cut = {} /\ txPackets = 0 /\ txDropped = 0
  /\ overtaken = FALSE /\ recount = FALSE /\ late = FALSE
  /\ timeouts = 0 /\ opens = 0 /\ mtuChanges = 0 /\ hangups = 0

-----------------------------------------------------------------------------
(* The network stack: ndo_start_xmit.                                      *)

\* The stack calls sl_xmit under the queue's own lock while the queue is awake; between
\* netif_running going off and ndo_stop it may still do so.
Offered ==
  /\ xmit = "idle" /\ lock = "free" /\ ~stopped
  /\ link \in {"up", "stopping"}
  /\ frames < MaxFrames
  /\ frames' = frames + 1

\* The interface is down or the line is gone: the packet is freed.
XmitFree ==
  /\ Offered
  /\ link # "up" \/ ~tty
  /\ UNCHANGED <<admin, stopped, wakeup, lock, xmit, work, pending, actual, buffer,
                 driver, cut, txPackets, txDropped, bounds, races>>

\* sl_encaps refuses a packet longer than sl->mtu and reopens the queue.
XmitOversize(p) ==
  /\ Offered
  /\ link = "up" /\ tty
  /\ p.len > mtu
  /\ txDropped' = txDropped + 1
  /\ stopped' = FALSE
  /\ UNCHANGED <<admin, wakeup, lock, xmit, work, pending, actual, buffer, driver, cut,
                 txPackets, bounds, races>>

\* sl_lock, the encoding into xbuff, and set_bit(TTY_DO_WRITE_WAKEUP) before the write.
XmitEncode(p) ==
  /\ Offered
  /\ link = "up" /\ tty
  /\ p.len <= mtu
  /\ lock' = "xmit" /\ xmit' = "write"
  /\ stopped' = TRUE
  /\ xbuff' = Frame(frames', Encoded(p))
  /\ wakeup' = TRUE
  /\ overtaken' = (overtaken \/ work = "wake")
  /\ UNCHANGED <<admin, work, pending, actual, mtu, buffsize, xhead, xleft, driver, cut,
                 txPackets, txDropped, bounds, recount, late>>

\* tty->ops->write(bytes): the driver takes what fits in its FIFO.
TtyWrite(bytes) ==
  LET n == Lesser(Len(bytes), Room - fifo)
  IN  /\ actual' = n
      /\ fifo' = fifo + n
      /\ wire' = wire \o SubSeq(bytes, 1, n)
      /\ UNCHANGED <<irq, waker>>

XmitWrite ==
  /\ xmit = "write"
  /\ xmit' = "done"
  /\ TtyWrite(xbuff)
  /\ UNCHANGED <<admin, stopped, wakeup, lock, work, pending, buffer, stats, bounds,
                 races>>

\* Mutation of XmitFinish: the operands of the subtraction swapped.
XmitFinishSwapped ==
  /\ xmit = "done"
  /\ xmit' = "idle" /\ lock' = "free"
  /\ xleft' = actual - Len(xbuff)
  /\ xhead' = actual
  /\ UNCHANGED <<admin, stopped, wakeup, work, pending, actual, mtu, buffsize, xbuff,
                 driver, stats, bounds, races>>

XmitFinish ==
  /\ xmit = "done"
  /\ xmit' = "idle" /\ lock' = "free"
  /\ xleft' = Len(xbuff) - actual
  /\ xhead' = actual
  /\ UNCHANGED <<admin, stopped, wakeup, work, pending, actual, mtu, buffsize, xbuff,
                 driver, stats, bounds, races>>

-----------------------------------------------------------------------------
(* The work item: slip_transmit.                                           *)

WorkRun ==
  /\ pending /\ work = "idle"
  /\ pending' = FALSE /\ work' = "enter"
  /\ UNCHANGED <<admin, stopped, wakeup, lock, xmit, actual, buffer, driver, stats,
                 bounds, races>>

\* Mutation of WorkReturn: tries again later instead of giving up.
WorkReturnRequeues ==
  /\ work = "enter" /\ lock = "free"
  /\ ~tty \/ link # "up"
  /\ work' = "idle" /\ pending' = TRUE
  /\ UNCHANGED <<admin, stopped, wakeup, lock, xmit, actual, buffer, driver, stats,
                 bounds, races>>

\* Not connected any more, or the interface is down.
WorkReturn ==
  /\ work = "enter" /\ lock = "free"
  /\ ~tty \/ link # "up"
  /\ work' = "idle"
  /\ UNCHANGED <<admin, stopped, wakeup, lock, xmit, pending, actual, buffer, driver,
                 stats, bounds, races>>

\* Mutation of WorkEmpty: takes a buffer with one byte left for an empty one.
WorkEmptyEarly ==
  /\ work = "enter" /\ lock = "free"
  /\ tty /\ link = "up" /\ xleft <= 1
  /\ txPackets' = txPackets + 1
  /\ wakeup' = FALSE
  /\ recount' = (recount \/ ~stopped)
  /\ work' = "wake"
  /\ UNCHANGED <<admin, stopped, lock, xmit, pending, actual, buffer, driver, frames,
                 cut, txDropped, bounds, overtaken, late>>

\* The buffer is empty.  The lock is dropped BEFORE sl_unlock, which is WorkWake.
WorkEmpty ==
  /\ work = "enter" /\ lock = "free"
  /\ tty /\ link = "up" /\ xleft <= 0
  /\ txPackets' = txPackets + 1
  /\ wakeup' = FALSE
  /\ recount' = (recount \/ ~stopped)
  /\ work' = "wake"
  /\ UNCHANGED <<admin, stopped, lock, xmit, pending, actual, buffer, driver, frames,
                 cut, txDropped, bounds, overtaken, late>>

WorkWake ==
  /\ work = "wake"
  /\ work' = "idle" /\ stopped' = FALSE
  /\ UNCHANGED <<admin, wakeup, lock, xmit, pending, actual, buffer, driver, stats,
                 bounds, races>>

\* Mutation of WorkWrite: counts the packet at every write.
WorkWriteCounting ==
  /\ work = "enter" /\ lock = "free"
  /\ tty /\ link = "up" /\ xleft > 0
  /\ lock' = "work" /\ work' = "update"
  /\ TtyWrite(Unsent)
  /\ txPackets' = txPackets + 1
  /\ UNCHANGED <<admin, stopped, wakeup, xmit, pending, buffer, frames, cut, txDropped,
                 bounds, races>>

\* Mutation of WorkWrite: stops asking for wakeups although bytes may be left.
WorkWriteClearsBit ==
  /\ work = "enter" /\ lock = "free"
  /\ tty /\ link = "up" /\ xleft > 0
  /\ lock' = "work" /\ work' = "update"
  /\ TtyWrite(Unsent)
  /\ wakeup' = FALSE
  /\ UNCHANGED <<admin, stopped, xmit, pending, buffer, stats, bounds, races>>

WorkWrite ==
  /\ work = "enter" /\ lock = "free"
  /\ tty /\ link = "up" /\ xleft > 0
  /\ lock' = "work" /\ work' = "update"
  /\ TtyWrite(Unsent)
  /\ UNCHANGED <<admin, stopped, wakeup, xmit, pending, buffer, stats, bounds, races>>

\* Mutation of WorkUpdate: xhead does not move with xleft.
WorkUpdateKeepsHead ==
  /\ work = "update"
  /\ work' = "idle" /\ lock' = "free"
  /\ xleft' = xleft - actual
  /\ UNCHANGED <<admin, stopped, wakeup, xmit, pending, actual, mtu, buffsize, xbuff,
                 xhead, driver, stats, bounds, races>>

WorkUpdate ==
  /\ work = "update"
  /\ work' = "idle" /\ lock' = "free"
  /\ xleft' = xleft - actual
  /\ xhead' = xhead + actual
  /\ UNCHANGED <<admin, stopped, wakeup, xmit, pending, actual, mtu, buffsize, xbuff,
                 driver, stats, bounds, races>>

-----------------------------------------------------------------------------
(* The tty driver.                                                         *)

\* Bytes leave on the line.  Usual drivers report room each time a block has gone.
TtyDrain(k) ==
  /\ k <= fifo
  /\ fifo' = fifo - k
  /\ irq' = (irq \/ ~WakeWhenEmpty \/ fifo' = 0)
  /\ UNCHANGED <<admin, stopped, wakeup, lock, xmit, work, pending, actual, buffer,
                 waker, wire, stats, bounds, races>>

\* tty_wakeup calls slip_write_wakeup while TTY_DO_WRITE_WAKEUP is set, which reads
\* tty->disc_data without a lock.  A tty layer that serialises the line discipline makes
\* no such call from slip_close on; another one may, and the handler then dies on NULL.
TtyWakeup ==
  /\ irq /\ waker = "idle"
  /\ irq' = FALSE
  /\ waker' = IF ~wakeup \/ (life # "open" /\ Serialised) THEN "idle"
              ELSE IF life = "open" THEN "sl" ELSE "null"
  /\ UNCHANGED <<admin, stopped, wakeup, lock, xmit, work, pending, actual, buffer, fifo,
                 wire, stats, bounds, races>>

\* schedule_work(&sl->tx_work), whatever has become of sl meanwhile.
ScheduleWork ==
  /\ waker = "sl"
  /\ waker' = "idle"
  /\ pending' = TRUE
  /\ UNCHANGED <<admin, stopped, wakeup, lock, xmit, work, actual, buffer, fifo, irq,
                 wire, stats, bounds, races>>

-----------------------------------------------------------------------------
(* The watchdog: sl_tx_timeout.  It runs under the queue's lock, so never   *)
(* together with sl_xmit, and only for a running device whose queue stopped.*)

WatchdogFires ==
  /\ timeouts < MaxTimeouts
  /\ xmit = "idle" /\ lock = "free"
  /\ link = "up" /\ stopped
  /\ timeouts' = timeouts + 1

\* Bytes given up: the frame they belong to will end early on the wire.
GiveUp == cut' = IF xleft > 0 THEN cut \cup {xbuff[xhead + 1].frame} ELSE cut

Timeout ==
  /\ WatchdogFires
  /\ tty
  /\ GiveUp
  /\ xleft' = 0
  /\ wakeup' = FALSE
  /\ stopped' = FALSE
  /\ UNCHANGED <<admin, lock, xmit, work, pending, actual, mtu, buffsize, xbuff, xhead,
                 driver, frames, txPackets, txDropped, opens, mtuChanges, hangups,
                 races>>

\* tty_chars_in_buffer(sl->tty) with sl->tty NULL: the handler dies holding sl->lock.
TimeoutOops ==
  /\ WatchdogFires
  /\ ~tty
  /\ lock' = "oops"
  /\ UNCHANGED <<admin, stopped, wakeup, xmit, work, pending, actual, buffer, driver,
                 stats, opens, mtuChanges, hangups, races>>

-----------------------------------------------------------------------------
(* The administrator, serialised by the RTNL.                              *)

\* dev_close: netif_running goes off first, ndo_stop (sl_close) follows.
DevClose ==
  /\ link = "up"
  /\ link' = "stopping"
  /\ UNCHANGED <<tty, life, stopped, wakeup, lock, xmit, work, pending, actual, buffer,
                 driver, stats, bounds, races>>

SlClose ==
  /\ link = "stopping"
  /\ xmit = "idle" /\ lock = "free"
  /\ link' = "down"
  /\ wakeup' = IF tty THEN FALSE ELSE wakeup
  /\ stopped' = TRUE
  /\ GiveUp
  /\ xleft' = 0
  /\ UNCHANGED <<tty, life, lock, xmit, work, pending, actual, mtu, buffsize, xbuff,
                 xhead, driver, frames, txPackets, txDropped, bounds, races>>

\* -ENODEV without a tty, otherwise the queue is started.
SlOpen ==
  /\ link = "down" /\ life # "gone"
  /\ opens < MaxOpens
  /\ opens' = opens + 1
  /\ IF tty
       THEN link' = "up" /\ stopped' = FALSE
       ELSE UNCHANGED <<link, stopped>>
  /\ UNCHANGED <<tty, life, wakeup, lock, xmit, work, pending, actual, buffer, driver,
                 stats, timeouts, mtuChanges, hangups, races>>

\* Mutation of ChangeMtu: xhead still counts from the start of the old buffer.
ChangeMtuKeepsHead(m) ==
  /\ mtuChanges < MaxMtuChanges
  /\ link # "stopping" /\ life # "gone"
  /\ lock = "free" /\ tty
  /\ mtuChanges' = mtuChanges + 1
  /\ mtu' = m /\ buffsize' = BufLen(m)
  /\ xbuff' = Unsent
  /\ UNCHANGED <<admin, stopped, wakeup, lock, xmit, work, pending, actual, driver,
                 stats, xhead, xleft, timeouts, opens, hangups, races>>

\* Mutation of ChangeMtu: starts with an empty buffer, as sl_alloc_bufs does.
ChangeMtuForgets(m) ==
  /\ mtuChanges < MaxMtuChanges
  /\ link # "stopping" /\ life # "gone"
  /\ lock = "free" /\ tty
  /\ mtuChanges' = mtuChanges + 1
  /\ mtu' = m /\ buffsize' = BufLen(m)
  /\ xhead' = 0 /\ xleft' = 0 /\ xbuff' = << >>
  /\ UNCHANGED <<admin, stopped, wakeup, lock, xmit, work, pending, actual, driver,
                 stats, timeouts, opens, hangups, races>>

\* sl_realloc_bufs once its allocations have succeeded; a failed one changes nothing.
ChangeMtu(m) ==
  /\ mtuChanges < MaxMtuChanges
  /\ link # "stopping" /\ life # "gone"
  /\ lock = "free" /\ tty
  /\ mtuChanges' = mtuChanges + 1
  /\ mtu' = m /\ buffsize' = BufLen(m)
  /\ xhead' = 0
  /\ IF xleft <= BufLen(m)
       THEN xbuff' = Unsent /\ UNCHANGED <<xleft, cut, txDropped>>
       ELSE xbuff' = << >> /\ xleft' = 0 /\ GiveUp /\ txDropped' = txDropped + 1
  /\ UNCHANGED <<admin, stopped, wakeup, lock, xmit, work, pending, actual, driver,
                 frames, txPackets, timeouts, opens, hangups, races>>

-----------------------------------------------------------------------------
(* The tty layer hangs up: slip_close, in its three blocking steps.        *)

Detach ==
  /\ life = "open" /\ lock = "free"
  /\ hangups < MaxHangups
  /\ Serialised => waker = "idle"
  /\ hangups' = hangups + 1
  /\ tty' = FALSE /\ life' = "detached"
  /\ late' = (late \/ waker = "sl")
  /\ UNCHANGED <<link, stopped, wakeup, lock, xmit, work, pending, actual, buffer,
                 driver, stats, timeouts, opens, mtuChanges, overtaken, recount>>

\* Mutation of FlushWork: the queued item is not waited for.
FlushWorkSkipped ==
  /\ life = "detached"
  /\ life' = "flushed"
  /\ UNCHANGED <<tty, link, stopped, wakeup, lock, xmit, work, pending, actual, buffer,
                 driver, stats, bounds, races>>

\* flush_work(&sl->tx_work)
FlushWork ==
  /\ life = "detached"
  /\ ~pending /\ work = "idle"
  /\ life' = "flushed"
  /\ UNCHANGED <<tty, link, stopped, wakeup, lock, xmit, work, pending, actual, buffer,
                 driver, stats, bounds, races>>

\* unregister_netdev closes the device first (DevClose, SlClose); sl_uninit frees xbuff.
Unregister ==
  /\ life = "flushed" /\ link = "down"
  /\ life' = "gone"
  /\ xbuff' = << >>
  /\ UNCHANGED <<tty, link, stopped, wakeup, lock, xmit, work, pending, actual, mtu,
                 buffsize, xhead, xleft, driver, stats, bounds, races>>

-----------------------------------------------------------------------------
\* Nobody has anything left to do: the only states in which the system may rest.
Quiescent ==
  /\ frames = MaxFrames \/ link = "down"
  /\ xleft = 0 /\ fifo = 0 /\ ~irq /\ waker # "sl" /\ ~pending
  /\ xmit = "idle" /\ work = "idle" /\ lock = "free"
  /\ life \in {"open", "gone"}
  /\ link = "up" => ~stopped

Rest == Quiescent /\ UNCHANGED vars

Xmit  == XmitFree \/ (\E p \in Packets : XmitOversize(p) \/ XmitEncode(p))
           \/ XmitWrite \/ XmitFinish
Work  == WorkRun \/ WorkReturn \/ WorkEmpty \/ WorkWake \/ WorkWrite \/ WorkUpdate
Drain == \E k \in 1 .. Room : TtyDrain(k)
Admin == DevClose \/ SlClose \/ SlOpen \/ (\E m \in Mtus : ChangeMtu(m))
Hangup == Detach \/ FlushWork \/ Unregister

Wakeup == TtyWakeup \/ ScheduleWork

Next == Xmit \/ Work \/ Drain \/ Wakeup \/ Timeout \/ TimeoutOops
          \/ Admin \/ Hangup \/ Rest

Spec == Init /\ [][Next]_vars

\* The work queue runs its item, sl_xmit returns, the line drains and its interrupts
\* arrive, and a close once begun goes on (unregister_netdev downs a running device).
Fairness ==
  /\ WF_vars(Work) /\ WF_vars(XmitWrite \/ XmitFinish)
  /\ WF_vars(Drain) /\ WF_vars(Wakeup)
  /\ WF_vars(SlClose) /\ WF_vars(FlushWork) /\ WF_vars(Unregister)
  /\ WF_vars(life = "flushed" /\ DevClose)

FairSpec == Spec /\ Fairness

-----------------------------------------------------------------------------
(* Properties.                                                             *)

\* Every variable keeps its type.
TypeOK ==
  /\ tty \in BOOLEAN /\ stopped \in BOOLEAN /\ wakeup \in BOOLEAN
  /\ life \in {"open", "detached", "flushed", "gone"}
  /\ link \in {"up", "stopping", "down"}
  /\ lock \in {"free", "xmit", "work", "smart", "oops"}
  /\ xmit \in {"idle", "write", "done"}
  /\ work \in {"idle", "enter", "update", "wake"}
  /\ pending \in BOOLEAN /\ irq \in BOOLEAN /\ waker \in {"idle", "sl", "null"}
  /\ overtaken \in BOOLEAN /\ recount \in BOOLEAN /\ late \in BOOLEAN
  /\ actual \in Nat
  /\ mtu \in Nat /\ buffsize \in Nat
  /\ xbuff \in Seq(Token) /\ xhead \in Nat /\ xleft \in Nat
  /\ fifo \in 0 .. Room
  /\ wire \in Seq(Token)
  /\ frames \in 0 .. MaxFrames /\ cut \subseteq Nat
  /\ txPackets \in Nat /\ txDropped \in Nat
  /\ timeouts \in 0 .. MaxTimeouts /\ opens \in 0 .. MaxOpens
  /\ mtuChanges \in 0 .. MaxMtuChanges /\ hangups \in 0 .. MaxHangups

\* What has been encoded fits the allocation of xbuff, and the unsent bytes lie inside
\* what has been encoded, whatever MTU changes, timeouts and closes come between.
XbuffFits ==
  /\ Len(xbuff) <= buffsize + Slack
  /\ lock # "xmit" /\ life # "gone" => xhead + xleft <= Len(xbuff)

\* The history of slip.c, "avoid tx overruns": when sl_xmit may be called, no byte of an
\* earlier frame is still waiting in the buffer it will overwrite.
NoOverrun == ~stopped /\ xmit = "idle" => xleft = 0

\* For every driver, watchdog and administrator: unsent bytes come to be overwritten only
\* after sl_xmit has slipped in between the spin_unlock and the sl_unlock of slip_transmit.
OverrunOnlyByRace == NoOverrun \/ overtaken

\* The comment of slip_close, "flushing out any pending queues": once unregister_netdev has
\* freed the channel no work item is queued or running, nobody holds its lock, and no
\* wakeup is about to queue its work item.
NoWorkAfterFree ==
  life = "gone" => ~pending /\ work = "idle" /\ lock = "free" /\ waker # "sl"

\* For every tty layer: what is left of the work after the free was put there by a wakeup
\* that had read tty->disc_data before slip_close cleared it.
OnlyLateWork == NoWorkAfterFree \/ late

\* The bytes on the line are the frames in order, each one contiguous from its first
\* byte: xhead, xleft and the copy made by sl_realloc_bufs never lose their place.
WireInOrder ==
  \A i \in 1 .. Len(wire) - 1 :
    LET a == wire[i]
        b == wire[i + 1]
    IN  \/ b.frame = a.frame /\ b.pos = a.pos + 1
        \/ b.frame > a.frame /\ b.pos = 1

\* As long as sl_xmit has not slipped in before an sl_unlock, a frame ends early on the line
\* only when its rest was given up on purpose, by the watchdog, by sl_close or by an MTU too
\* small for it.
WholeUnlessCut ==
  ~overtaken =>
    \A i \in 1 .. Len(wire) - 1 :
      wire[i].frame # wire[i + 1].frame =>
        wire[i].pos = wire[i].of \/ wire[i].frame \in cut

\* A packet is counted twice as transmitted only when slip_transmit runs on an empty buffer
\* while the queue is awake already; and while the watchdog has not expired, the device has
\* not been reopened and sl_xmit has not slipped in, every packet taken from the stack has
\* been counted as transmitted or dropped by the time the queue is awake.
Counted ==
  /\ ~recount => txPackets <= frames
  /\ /\ link = "up" /\ tty /\ ~stopped /\ xmit = "idle"
     /\ timeouts = 0 /\ opens <= 1 /\ ~overtaken
     => txPackets + txDropped >= frames

\* A stopped queue reopens, unless the device goes down or the line goes away.
QueueReopens ==
  stopped /\ link = "up" /\ tty ~> ~stopped \/ link # "up" \/ ~tty

\* A hangup ends: the work is flushed, the device closed and unregistered.
HangupCompletes == life = "detached" ~> life = "gone"

\* The bytes of the current frame that the driver has not taken, also while xleft and
\* xhead lag behind a write that has just returned.
ToSend ==
  IF xmit = "write" THEN xbuff
  ELSE IF xmit = "done" THEN SubSeq(xbuff, actual + 1, Len(xbuff))
  ELSE IF work = "update" THEN SubSeq(xbuff, xhead + actual + 1, xhead + xleft)
  ELSE Unsent

Promise == INSTANCE FrameLine WITH
  Sizes <- {Encoded(p) : p \in Packets},
  line <- wire, rest <- ToSend, offered <- frames, cut <- cut

\* Every step of the transmit half is one that FrameLine allows, or leaves the line alone,
\* until sl_xmit slips in before an sl_unlock, for every driver, watchdog and administrator.
StepsOfFrameLine == Promise!Init /\ [][Promise!Next \/ overtaken']_(Promise!vars)

\* The transmit half implements FrameLine: sl_xmit, slip_transmit and the tty driver
\* together send each frame whole and in order or give it up.
ImplementsFrameLine == Promise!Spec

=============================================================================

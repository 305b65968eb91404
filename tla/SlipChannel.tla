----------------------------- MODULE SlipChannel -----------------------------
(***************************************************************************)
(* The table of SLIP channels (slip_devs in slip/slip.c) and the life of a *)
(* channel: the tty layer attaches the line discipline (slip_open), which  *)
(* collects hung up channels (sl_sync), takes the first free slot          *)
(* (sl_alloc), allocates buffers and registers a network device; a hangup  *)
(* (slip_close) unregisters the device, and its destructor empties the     *)
(* slot.  slip_open runs under the RTNL; slip_close takes the RTNL only    *)
(* inside unregister_netdev, and the destructor and the freeing of the     *)
(* device come after it has been dropped.                                  *)
(*                                                                         *)
(* Each tty is one process, since the tty layer serialises the open and    *)
(* the close of its line discipline.  The bytes of a channel are in SlipTx *)
(* and SlipRx.                                                             *)
(***************************************************************************)
EXTENDS Integers, FiniteSets

CONSTANTS
  Ttys,        \* the terminals the line discipline is attached to
  MaxDev,      \* slip_maxdev, the number of slots
  MaxDevices,  \* bound: network devices allocated
  Failures,    \* what may fail: "netdev", "bufs", "slhc", "early", "late"
  None         \* no device, no tty, nobody

ASSUME ChannelAssumption ==
  /\ MaxDev \in Nat \ {0} /\ MaxDevices \in Nat
  /\ Failures \subseteq {"netdev", "bufs", "slhc", "early", "late"}
  /\ None \notin Ttys \cup Nat

Slots   == 0 .. MaxDev - 1
Devices == 1 .. MaxDevices

VARIABLES
  slots,     \* slip_devs[i]
  state,     \* netdevice: "unused", "alloc", "registered", "unregistered", "freed", "lost"
  base,      \* dev->base_addr
  line,      \* sl->tty
  disc,      \* tty->disc_data
  up,        \* IFF_UP in dev->flags
  bufs,      \* sl->rbuff, sl->xbuff, sl->cbuff and sl->slcomp are there
  leased,    \* sl->leased
  rtnl,      \* who holds the RTNL
  pc,        \* where slip_open or slip_close of the tty has come to
  i,         \* their local i
  dev,       \* their local dev, or sl
  crashed,   \* the kernel has died
  unloaded   \* slip_exit has run

device == <<state, base, line, up, bufs, leased>>
locals == <<pc, i, dev>>
vars   == <<slots, device, disc, rtnl, locals, crashed, unloaded>>

Init ==
  /\ slots = [s \in Slots |-> None]
  /\ state = [d \in Devices |-> "unused"] /\ base = [d \in Devices |-> 0]
  /\ line = [d \in Devices |-> None] /\ up = [d \in Devices |-> FALSE]
  /\ bufs = [d \in Devices |-> FALSE] /\ leased = [d \in Devices |-> FALSE]
  /\ disc = [t \in Ttys |-> None]
  /\ rtnl = None
  /\ pc = [t \in Ttys |-> "idle"] /\ i = [t \in Ttys |-> 0]
  /\ dev = [t \in Ttys |-> None]
  /\ crashed = FALSE /\ unloaded = FALSE

Goto(t, label) == pc' = [pc EXCEPT ![t] = label]

-----------------------------------------------------------------------------
(* slip_open, under the RTNL from OpenLock on.                             *)

OpenLock(t) ==
  /\ pc[t] = "idle" /\ rtnl = None /\ ~unloaded
  /\ \E d \in Devices : state[d] = "unused"
  /\ rtnl' = t /\ Goto(t, "sync") /\ i' = [i EXCEPT ![t] = 0]
  /\ UNCHANGED <<slots, device, disc, dev, crashed, unloaded>>

\* sl_sync reads a slot; at the first empty one, or after the last, it is done.
SyncRead(t) ==
  /\ pc[t] = "sync"
  /\ IF i[t] < MaxDev /\ slots[i[t]] # None
       THEN Goto(t, "use") /\ dev' = [dev EXCEPT ![t] = slots[i[t]]] /\ UNCHANGED i
       ELSE Goto(t, "scan") /\ i' = [i EXCEPT ![t] = 0] /\ UNCHANGED dev
  /\ UNCHANGED <<slots, device, disc, rtnl, crashed, unloaded>>

\* sl_sync looks at the device it has read, and closes it when it is hung up.
SyncUse(t) ==
  /\ pc[t] = "use" /\ state[dev[t]] # "freed"
  /\ up' = [up EXCEPT ![dev[t]] = @ /\ (line[dev[t]] # None \/ leased[dev[t]])]
  /\ Goto(t, "sync") /\ i' = [i EXCEPT ![t] = @ + 1]
  /\ UNCHANGED <<slots, state, base, line, bufs, leased, disc, rtnl, dev, crashed,
                 unloaded>>

\* The device has been freed meanwhile: whatever its memory holds by now may make
\* sl_sync go on or call dev_close on nothing.
SyncUseFreed(t) ==
  /\ pc[t] = "use" /\ state[dev[t]] = "freed"
  /\ \/ Goto(t, "sync") /\ i' = [i EXCEPT ![t] = @ + 1] /\ UNCHANGED crashed
     \/ crashed' = TRUE /\ UNCHANGED <<pc, i>>
  /\ UNCHANGED <<slots, device, disc, rtnl, dev, unloaded>>

\* sl_alloc looks for an empty slot.
ScanNext(t) ==
  /\ pc[t] = "scan" /\ i[t] < MaxDev /\ slots[i[t]] # None
  /\ i' = [i EXCEPT ![t] = @ + 1]
  /\ UNCHANGED <<slots, device, disc, rtnl, pc, dev, crashed, unloaded>>

\* All slots in use, or alloc_netdev has failed: -ENFILE.
AllocFails(t) ==
  /\ pc[t] = "scan"
  /\ i[t] < MaxDev => slots[i[t]] = None /\ "netdev" \in Failures
  /\ rtnl' = None /\ Goto(t, "idle")
  /\ UNCHANGED <<slots, device, disc, i, dev, crashed, unloaded>>

Fresh == CHOOSE d \in Devices : state[d] = "unused"

\* sl->tty = tty; tty->disc_data = sl.
Tie(t, d) == line' = [line EXCEPT ![d] = t] /\ disc' = [disc EXCEPT ![t] = d]

\* Mutation of Alloc: always the first slot.
AllocFirstSlot(t) ==
  /\ pc[t] = "scan" /\ i[t] < MaxDev /\ slots[i[t]] = None
  /\ dev' = [dev EXCEPT ![t] = Fresh]
  /\ state' = [state EXCEPT ![Fresh] = "alloc"]
  /\ base' = [base EXCEPT ![Fresh] = 0]
  /\ slots' = [slots EXCEPT ![0] = Fresh]
  /\ Tie(t, Fresh)
  /\ Goto(t, "setup")
  /\ UNCHANGED <<up, bufs, leased, rtnl, i, crashed, unloaded>>

\* The new device goes into the slot, and slip_open ties it to the tty.
Alloc(t) ==
  /\ pc[t] = "scan" /\ i[t] < MaxDev /\ slots[i[t]] = None
  /\ dev' = [dev EXCEPT ![t] = Fresh]
  /\ state' = [state EXCEPT ![Fresh] = "alloc"]
  /\ base' = [base EXCEPT ![Fresh] = i[t]]
  /\ slots' = [slots EXCEPT ![i[t]] = Fresh]
  /\ Tie(t, Fresh)
  /\ Goto(t, "setup")
  /\ UNCHANGED <<up, bufs, leased, rtnl, i, crashed, unloaded>>

\* sl_alloc_bufs and register_netdevice succeed.
Register(t) ==
  /\ pc[t] = "setup"
  /\ bufs' = [bufs EXCEPT ![dev[t]] = TRUE]
  /\ state' = [state EXCEPT ![dev[t]] = "registered"]
  /\ rtnl' = None /\ Goto(t, "attached")
  /\ UNCHANGED <<slots, base, line, up, leased, disc, i, dev, crashed, unloaded>>

\* err_free_chan: the tty and the channel are parted.
Part(t) ==
  /\ line' = [line EXCEPT ![dev[t]] = None]
  /\ disc' = [disc EXCEPT ![t] = None]
  /\ rtnl' = None /\ Goto(t, "idle")

\* sl_alloc_bufs fails, or register_netdevice fails before it has called the driver (a
\* name that is taken): the buffers are freed, but the device keeps its slot.
SetupFails(t) ==
  /\ pc[t] = "setup" /\ Failures \cap {"bufs", "early"} # {}
  /\ Part(t)
  /\ UNCHANGED <<slots, state, base, up, bufs, leased, i, dev, crashed, unloaded>>

\* slhc_init fails: its error pointer is handed to slhc_free, which follows it.
SlhcFails(t) ==
  /\ pc[t] = "setup" /\ "slhc" \in Failures
  /\ crashed' = TRUE
  /\ UNCHANGED <<slots, device, disc, rtnl, locals, unloaded>>

\* register_netdevice fails after sl_init: it calls sl_uninit and the destructor itself.
\* Nobody frees the device.
RegisterFailsLate(t) ==
  /\ pc[t] = "setup" /\ "late" \in Failures
  /\ slots' = [slots EXCEPT ![base[dev[t]]] = None]
  /\ state' = [state EXCEPT ![dev[t]] = "lost"]
  /\ Part(t)
  /\ UNCHANGED <<base, up, bufs, leased, i, dev, crashed, unloaded>>

-----------------------------------------------------------------------------
(* slip_close.                                                             *)

\* Mutation of Detach: only one side of the link is cut.
DetachHalf(t) ==
  /\ pc[t] = "attached"
  /\ line' = [line EXCEPT ![disc[t]] = None]
  /\ dev' = [dev EXCEPT ![t] = disc[t]]
  /\ Goto(t, "unregister")
  /\ UNCHANGED <<slots, state, base, up, bufs, leased, disc, rtnl, i, crashed, unloaded>>

Detach(t) ==
  /\ pc[t] = "attached"
  /\ line' = [line EXCEPT ![disc[t]] = None]
  /\ disc' = [disc EXCEPT ![t] = None]
  /\ dev' = [dev EXCEPT ![t] = disc[t]]
  /\ Goto(t, "unregister")
  /\ UNCHANGED <<slots, state, base, up, bufs, leased, rtnl, i, crashed, unloaded>>

\* unregister_netdev under the RTNL: dev_close, then sl_uninit frees the buffers.
Unregister(t) ==
  /\ pc[t] = "unregister" /\ rtnl = None
  /\ up' = [up EXCEPT ![dev[t]] = FALSE]
  /\ bufs' = [bufs EXCEPT ![dev[t]] = FALSE]
  /\ state' = [state EXCEPT ![dev[t]] = "unregistered"]
  /\ Goto(t, "destroy")
  /\ UNCHANGED <<slots, base, line, leased, disc, rtnl, i, dev, crashed, unloaded>>

\* Mutation of FreeNetdev: the destructor forgets the table.
FreeNetdevKeepsSlot(t) ==
  /\ pc[t] = "destroy"
  /\ Goto(t, "free")
  /\ UNCHANGED <<slots, device, disc, rtnl, i, dev, crashed, unloaded>>

\* sl_free_netdev, the destructor: outside the RTNL.
FreeNetdev(t) ==
  /\ pc[t] = "destroy"
  /\ slots' = [slots EXCEPT ![base[dev[t]]] = None]
  /\ Goto(t, "free")
  /\ UNCHANGED <<device, disc, rtnl, i, dev, crashed, unloaded>>

\* needs_free_netdev: the kernel frees the memory, and slip_close returns.
Free(t) ==
  /\ pc[t] = "free"
  /\ state' = [state EXCEPT ![dev[t]] = "freed"]
  /\ Goto(t, "idle")
  /\ UNCHANGED <<slots, base, line, up, bufs, leased, disc, rtnl, i, dev, crashed,
                 unloaded>>

-----------------------------------------------------------------------------
(* The administrator, under the RTNL, and the end of the module.           *)

\* dev_open: sl_open answers -ENODEV without a tty.
DevOpen(d) ==
  /\ rtnl = None /\ state[d] = "registered"
  /\ ~up[d] /\ line[d] # None
  /\ up' = [up EXCEPT ![d] = TRUE]
  /\ UNCHANGED <<slots, state, base, line, bufs, leased, disc, rtnl, locals, crashed,
                 unloaded>>

DevClose(d) ==
  /\ rtnl = None /\ state[d] = "registered"
  /\ up[d]
  /\ up' = [up EXCEPT ![d] = FALSE]
  /\ UNCHANGED <<slots, state, base, line, bufs, leased, disc, rtnl, locals, crashed,
                 unloaded>>

\* SIOCSLEASE: a leased channel is left alone by sl_sync.
Lease(d) ==
  /\ rtnl = None /\ state[d] = "registered"
  /\ line[d] # None
  /\ leased' = [leased EXCEPT ![d] = ~@]
  /\ UNCHANGED <<slots, state, base, line, up, bufs, disc, rtnl, locals, crashed,
                 unloaded>>

\* slip_exit.  Each attached tty holds a reference to the module (sl_ldisc.owner), so it
\* only meets devices that a failed slip_open has left in the table.
Exit ==
  /\ \A t \in Ttys : pc[t] = "idle"
  /\ ~unloaded
  /\ unloaded' = TRUE
  /\ slots' = [s \in Slots |-> None]
  /\ UNCHANGED <<device, disc, rtnl, locals, crashed>>

-----------------------------------------------------------------------------
Open(t) ==
  \/ SyncRead(t) \/ SyncUse(t) \/ SyncUseFreed(t) \/ ScanNext(t) \/ AllocFails(t)
  \/ Alloc(t) \/ Register(t) \/ SetupFails(t) \/ SlhcFails(t) \/ RegisterFailsLate(t)

Close(t) == Unregister(t) \/ FreeNetdev(t) \/ Free(t)

\* The machine is dead, or there is nothing left to attach.
Rest ==
  /\ crashed \/ unloaded \/ \A d \in Devices : state[d] # "unused"
  /\ UNCHANGED vars

Next ==
  \/ /\ ~crashed
     /\ \/ \E t \in Ttys : OpenLock(t) \/ Open(t) \/ Detach(t) \/ Close(t)
        \/ \E d \in Devices : DevOpen(d) \/ DevClose(d) \/ Lease(d)
        \/ Exit
  \/ Rest

\* slip_open and slip_close once begun go on; the RTNL is a fair mutex.
Fairness ==
  \A t \in Ttys :
    /\ WF_vars(~crashed /\ Open(t))
    /\ SF_vars(~crashed /\ Unregister(t))
    /\ WF_vars(~crashed /\ (FreeNetdev(t) \/ Free(t)))

Spec == Init /\ [][Next]_vars

FairSpec == Spec /\ Fairness

-----------------------------------------------------------------------------
(* Properties.                                                             *)

\* Every variable keeps its type.
TypeOK ==
  /\ slots \in [Slots -> Devices \cup {None}]
  /\ state \in [Devices -> {"unused", "alloc", "registered", "unregistered", "freed",
                            "lost"}]
  /\ base \in [Devices -> Slots]
  /\ line \in [Devices -> Ttys \cup {None}]
  /\ disc \in [Ttys -> Devices \cup {None}]
  /\ up \in [Devices -> BOOLEAN] /\ bufs \in [Devices -> BOOLEAN]
  /\ leased \in [Devices -> BOOLEAN]
  /\ rtnl \in Ttys \cup {None}
  /\ pc \in [Ttys -> {"idle", "sync", "use", "scan", "setup", "attached", "unregister",
                      "destroy", "free"}]
  /\ i \in [Ttys -> 0 .. MaxDev] /\ dev \in [Ttys -> Devices \cup {None}]
  /\ crashed \in BOOLEAN /\ unloaded \in BOOLEAN

\* A registered channel is in the table, in the slot of its own number, and stays there
\* until its destructor runs: no other channel takes that slot before, and no destructor,
\* since they run outside the RTNL, empties a slot that is already somebody else's.
SlotHeld ==
  /\ \A d \in Devices : state[d] = "registered" => slots[base[d]] = d
  /\ \A t \in Ttys : pc[t] = "destroy" => slots[base[dev[t]]] = dev[t]

\* sl->tty and tty->disc_data point at each other or nowhere, at every moment, and not
\* into freed memory.
LinkBothWays ==
  /\ \A t \in Ttys : disc[t] # None => line[disc[t]] = t /\ state[disc[t]] # "freed"
  /\ \A d \in Devices : line[d] # None => disc[line[d]] = d

\* An interface that is up is registered and has its buffers, whoever closes it first,
\* the administrator, sl_sync or unregister_netdev.
UpHasBuffers == \A d \in Devices : up[d] => state[d] = "registered" /\ bufs[d]

\* When the module is gone no registered device is left that would call into it.
UnloadClean == unloaded => \A d \in Devices : state[d] # "registered"

\* "Memory leak if you run out of memory setting up a slip driver fixed": a slip_open
\* that has failed leaves no device behind in the table.
FailedOpenLeavesNothing ==
  rtnl = None => \A s \in Slots : slots[s] # None => state[slots[s]] # "alloc"

\* A hangup gives the slot back: a registered channel that has lost its tty leaves the table
\* in the end, however slip_open and other hangups compete for the RTNL, unless slhc_init
\* has failed and the machine is dead.
SlotComesBack ==
  \A d \in Devices :
    state[d] = "registered" /\ line[d] = None ~> (\A s \in Slots : slots[s] # d) \/ crashed

=============================================================================

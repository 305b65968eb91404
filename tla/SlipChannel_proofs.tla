------------------------- MODULE SlipChannel_proofs -------------------------
(***************************************************************************)
(* Theorems about the table of channels for every number of slots, devices *)
(* and terminals.                                                          *)
(***************************************************************************)
EXTENDS SlipChannel, TLAPS

Opening == {"sync", "use", "scan", "setup"}
Closing == {"unregister", "destroy", "free"}

\* Whoever is in slip_open holds the RTNL, and there is a device left to allocate until
\* it has taken one.
LockInv ==
  /\ \A t \in Ttys : pc[t] \in Opening <=> rtnl = t
  /\ \A t \in Ttys : pc[t] \in {"sync", "use", "scan"} =>
       \E d \in Devices : state[d] = "unused"
  /\ \A t \in Ttys : pc[t] = "use" => dev[t] \in Devices /\ i[t] < MaxDev
  /\ unloaded => \A t \in Ttys : pc[t] = "idle"

\* The terminal a device belongs to, in each stage of slip_open and slip_close.
OwnerInv ==
  /\ \A t \in Ttys : disc[t] # None <=> pc[t] \in {"setup", "attached"}
  /\ \A t \in Ttys : pc[t] = "setup" => dev[t] = disc[t] /\ state[dev[t]] = "alloc"
  /\ \A t \in Ttys : pc[t] = "attached" => state[disc[t]] = "registered"
  /\ \A t \in Ttys : disc[t] # None => line[disc[t]] = t
  /\ \A d \in Devices : line[d] # None => disc[line[d]] = d
  /\ \A t \in Ttys : pc[t] \in Closing => dev[t] \in Devices /\ line[dev[t]] = None
  /\ \A t \in Ttys : pc[t] = "unregister" => state[dev[t]] = "registered"
  /\ \A t \in Ttys : pc[t] \in {"destroy", "free"} => state[dev[t]] = "unregistered"
  /\ \A t, u \in Ttys :
       pc[t] \in Closing /\ pc[u] \in Closing /\ t # u => dev[t] # dev[u]
  /\ \A d \in Devices : state[d] = "registered" =>
       \E t \in Ttys : \/ pc[t] = "attached" /\ disc[t] = d
                       \/ pc[t] = "unregister" /\ dev[t] = d

\* What is in the table, and who relies on it.
TableInv ==
  /\ \A s \in Slots : slots[s] # None => state[slots[s]] # "unused"
  /\ \A d \in Devices : state[d] = "registered" => slots[base[d]] = d
  /\ \A t \in Ttys : pc[t] = "setup" => slots[base[dev[t]]] = dev[t]
  /\ \A t \in Ttys : pc[t] \in {"unregister", "destroy"} => slots[base[dev[t]]] = dev[t]

\* An interface that is up is registered, and a registered one has its buffers.
UpInv ==
  /\ \A d \in Devices : up[d] => state[d] = "registered"
  /\ \A d \in Devices : state[d] = "registered" => bufs[d]

ChannelInv == TypeOK /\ LockInv /\ OwnerInv /\ TableInv /\ UpInv

\* Nothing is attached when the module has been loaded.
LEMMA InitInv == Init => ChannelInv
<1> SUFFICES ASSUME Init PROVE ChannelInv
  OBVIOUS
<1> USE ChannelAssumption DEF Init
<1>1. 0 \in Slots /\ 0 \in 0 .. MaxDev
  BY DEF Slots
<1>2. TypeOK
  BY <1>1 DEF TypeOK
<1>3. LockInv
  BY DEF LockInv, Opening
<1>4. OwnerInv
  BY DEF OwnerInv, Closing
<1>5. TableInv /\ UpInv
  BY DEF TableInv, UpInv
<1> QED
  BY <1>2, <1>3, <1>4, <1>5 DEF ChannelInv

\* While a device is unused sl_alloc gets one of those.
LEMMA FreshUnused ==
  ASSUME \E d \in Devices : state[d] = "unused"
  PROVE  Fresh \in Devices /\ state[Fresh] = "unused"
BY DEF Fresh

\* Every step keeps it: sl_alloc takes an empty slot under the RTNL, and only the terminal
\* that closes a channel empties it.
LEMMA NextInv == ChannelInv /\ [Next]_vars => ChannelInv'
<1> SUFFICES ASSUME ChannelInv, [Next]_vars PROVE ChannelInv'
  OBVIOUS
<1>0. None \notin Ttys /\ None \notin Devices /\ MaxDev \in Nat \ {0}
  BY ChannelAssumption DEF Devices
<1> TypeOK /\ LockInv /\ OwnerInv /\ TableInv /\ UpInv
  BY DEF ChannelInv
<1> USE DEF Opening, Closing, Goto, device, locals
<1>1. ASSUME NEW t \in Ttys, OpenLock(t) PROVE ChannelInv'
  <2>1. TypeOK'
    BY <1>0, <1>1 DEF OpenLock, TypeOK
  <2>2. LockInv'
    BY <1>0, <1>1 DEF OpenLock, TypeOK, LockInv
  <2>3. OwnerInv'
    BY <1>1 DEF OpenLock, OwnerInv
  <2>4. TableInv' /\ UpInv'
    BY <1>1 DEF OpenLock, TableInv, UpInv
  <2> QED
    BY <2>1, <2>2, <2>3, <2>4 DEF ChannelInv
<1>2. ASSUME NEW t \in Ttys, SyncRead(t) PROVE ChannelInv'
  <2>1. i[t] < MaxDev => i[t] \in Slots /\ slots[i[t]] \in Devices \cup {None}
    BY <1>0 DEF TypeOK, Slots
  <2>2. 0 \in 0 .. MaxDev
    BY <1>0
  <2>3. TypeOK'
    BY <2>1, <2>2, <1>2 DEF SyncRead, TypeOK
  <2>4. LockInv'
    BY <2>1, <1>2 DEF SyncRead, TypeOK, LockInv
  <2>5. OwnerInv'
    BY <1>2 DEF SyncRead, TypeOK, OwnerInv
  <2>6. TableInv' /\ UpInv'
    BY <1>2 DEF SyncRead, TypeOK, TableInv, UpInv
  <2> QED
    BY <2>3, <2>4, <2>5, <2>6 DEF ChannelInv
<1>3. ASSUME NEW t \in Ttys, SyncUse(t) PROVE ChannelInv'
  <2>1. i[t] + 1 \in 0 .. MaxDev
    BY <1>0, <1>3 DEF SyncUse, TypeOK, LockInv
  <2>2. TypeOK'
    BY <2>1, <1>3 DEF SyncUse, TypeOK
  <2>3. LockInv'
    BY <1>3 DEF SyncUse, TypeOK, LockInv
  <2>4. OwnerInv'
    BY <1>3 DEF SyncUse, OwnerInv
  <2>5. TableInv' /\ UpInv'
    BY <1>3 DEF SyncUse, TypeOK, TableInv, UpInv
  <2> QED
    BY <2>2, <2>3, <2>4, <2>5 DEF ChannelInv
<1>4. ASSUME NEW t \in Ttys, SyncUseFreed(t) PROVE ChannelInv'
  <2>1. i[t] + 1 \in 0 .. MaxDev
    BY <1>0, <1>4 DEF SyncUseFreed, TypeOK, LockInv
  <2>2. TypeOK'
    BY <2>1, <1>0, <1>4 DEF SyncUseFreed, TypeOK
  <2>3. LockInv'
    BY <1>4 DEF SyncUseFreed, TypeOK, LockInv
  <2>4. OwnerInv'
    BY <1>4 DEF SyncUseFreed, TypeOK, OwnerInv
  <2>5. TableInv' /\ UpInv'
    BY <1>4 DEF SyncUseFreed, TypeOK, TableInv, UpInv
  <2> QED
    BY <2>2, <2>3, <2>4, <2>5 DEF ChannelInv
<1>5. ASSUME NEW t \in Ttys, ScanNext(t) PROVE ChannelInv'
  <2>1. TypeOK'
    BY <1>0, <1>5 DEF ScanNext, TypeOK, Slots
  <2>2. LockInv'
    BY <1>5 DEF ScanNext, LockInv
  <2>3. OwnerInv'
    BY <1>5 DEF ScanNext, OwnerInv
  <2>4. TableInv' /\ UpInv'
    BY <1>5 DEF ScanNext, TableInv, UpInv
  <2> QED
    BY <2>1, <2>2, <2>3, <2>4 DEF ChannelInv
<1>6. ASSUME NEW t \in Ttys, AllocFails(t) PROVE ChannelInv'
  <2>1. TypeOK'
    BY <1>6 DEF AllocFails, TypeOK
  <2>2. LockInv'
    BY <1>0, <1>6 DEF AllocFails, TypeOK, LockInv
  <2>3. OwnerInv'
    BY <1>6 DEF AllocFails, OwnerInv
  <2>4. TableInv' /\ UpInv'
    BY <1>6 DEF AllocFails, TableInv, UpInv
  <2> QED
    BY <2>1, <2>2, <2>3, <2>4 DEF ChannelInv
<1>7. ASSUME NEW t \in Ttys, Alloc(t) PROVE ChannelInv'
  <2>1. i[t] \in Slots /\ slots[i[t]] = None /\ rtnl = t
    BY <1>0, <1>7 DEF Alloc, Tie, LockInv, TypeOK, Slots
  <2>2. \E d \in Devices : state[d] = "unused"
    BY <1>7 DEF Alloc, Tie, LockInv
  <2>3. Fresh \in Devices /\ state[Fresh] = "unused"
    BY <2>2, FreshUnused
  <2>4. TypeOK'
    BY <2>3, <2>1, <1>7 DEF Alloc, Tie, TypeOK
  <2>5. LockInv'
    BY <1>7 DEF Alloc, Tie, TypeOK, LockInv
  <2>6. OwnerInv'
    BY <2>3, <1>0, <1>7 DEF Alloc, Tie, TypeOK, OwnerInv
  <2>7. TableInv' /\ UpInv'
    BY <2>3, <2>1, <1>0, <1>7 DEF Alloc, Tie, TypeOK, OwnerInv, TableInv, UpInv
  <2> QED
    BY <2>4, <2>5, <2>6, <2>7 DEF ChannelInv
<1>8. ASSUME NEW t \in Ttys, Register(t) PROVE ChannelInv'
  <2>1. TypeOK'
    BY <1>8 DEF Register, TypeOK
  <2>2. LockInv'
    BY <1>0, <1>8 DEF Register, TypeOK, LockInv
  <2>3. OwnerInv'
    BY <1>8 DEF Register, TypeOK, OwnerInv
  <2>4. TableInv' /\ UpInv'
    BY <1>8 DEF Register, TypeOK, TableInv, UpInv
  <2> QED
    BY <2>1, <2>2, <2>3, <2>4 DEF ChannelInv
<1>9. ASSUME NEW t \in Ttys, SetupFails(t) PROVE ChannelInv'
  <2>1. TypeOK'
    BY <1>9 DEF SetupFails, Part, TypeOK
  <2>2. LockInv'
    BY <1>0, <1>9 DEF SetupFails, Part, TypeOK, LockInv
  <2>3. OwnerInv'
    BY <1>9 DEF SetupFails, Part, TypeOK, OwnerInv
  <2>4. TableInv' /\ UpInv'
    BY <1>9 DEF SetupFails, Part, TableInv, UpInv
  <2> QED
    BY <2>1, <2>2, <2>3, <2>4 DEF ChannelInv
<1>10. ASSUME NEW t \in Ttys, SlhcFails(t) PROVE ChannelInv'
  <2>1. TypeOK'
    BY <1>10 DEF SlhcFails, TypeOK
  <2>2. LockInv'
    BY <1>10 DEF SlhcFails, LockInv
  <2>3. OwnerInv'
    BY <1>10 DEF SlhcFails, OwnerInv
  <2>4. TableInv' /\ UpInv'
    BY <1>10 DEF SlhcFails, TableInv, UpInv
  <2> QED
    BY <2>1, <2>2, <2>3, <2>4 DEF ChannelInv
<1>11. ASSUME NEW t \in Ttys, RegisterFailsLate(t) PROVE ChannelInv'
  <2>1. TypeOK'
    BY <1>11 DEF RegisterFailsLate, Part, TypeOK
  <2>2. LockInv'
    BY <1>0, <1>11 DEF RegisterFailsLate, Part, TypeOK, LockInv
  <2>3. OwnerInv'
    BY <1>11 DEF RegisterFailsLate, Part, TypeOK, OwnerInv
  <2>4. TableInv' /\ UpInv'
    BY <1>11 DEF RegisterFailsLate, Part, TypeOK, OwnerInv, TableInv, UpInv
  <2> QED
    BY <2>1, <2>2, <2>3, <2>4 DEF ChannelInv
<1>12. ASSUME NEW t \in Ttys, Detach(t) PROVE ChannelInv'
  <2>1. TypeOK'
    BY <1>12 DEF Detach, TypeOK
  <2>2. LockInv'
    BY <1>12 DEF Detach, LockInv
  <2>3. OwnerInv'
    BY <1>0, <1>12 DEF Detach, TypeOK, OwnerInv
  <2>4. TableInv' /\ UpInv'
    BY <1>12 DEF Detach, TypeOK, OwnerInv, TableInv, UpInv
  <2> QED
    BY <2>1, <2>2, <2>3, <2>4 DEF ChannelInv
<1>13. ASSUME NEW t \in Ttys, Unregister(t) PROVE ChannelInv'
  <2>1. TypeOK'
    BY <1>13 DEF Unregister, TypeOK
  <2>2. LockInv'
    BY <1>0, <1>13 DEF Unregister, LockInv
  <2>3. OwnerInv'
    BY <1>0, <1>13 DEF Unregister, TypeOK, OwnerInv
  <2>4. TableInv' /\ UpInv'
    BY <1>13 DEF Unregister, TypeOK, TableInv, UpInv
  <2> QED
    BY <2>1, <2>2, <2>3, <2>4 DEF ChannelInv
<1>14. ASSUME NEW t \in Ttys, FreeNetdev(t) PROVE ChannelInv'
  <2>1. TypeOK'
    BY <1>14 DEF FreeNetdev, TypeOK
  <2>2. LockInv'
    BY <1>14 DEF FreeNetdev, LockInv
  <2>3. OwnerInv'
    BY <1>14 DEF FreeNetdev, OwnerInv
  <2>4. TableInv' /\ UpInv'
    BY <1>14 DEF FreeNetdev, TypeOK, OwnerInv, TableInv, UpInv
  <2> QED
    BY <2>1, <2>2, <2>3, <2>4 DEF ChannelInv
<1>15. ASSUME NEW t \in Ttys, Free(t) PROVE ChannelInv'
  <2>1. TypeOK'
    BY <1>15 DEF Free, TypeOK
  <2>2. LockInv'
    BY <1>15 DEF Free, LockInv, OwnerInv
  <2>3. OwnerInv'
    BY <1>15 DEF Free, TypeOK, OwnerInv
  <2>4. TableInv' /\ UpInv'
    BY <1>15 DEF Free, OwnerInv, TableInv, UpInv
  <2> QED
    BY <2>1, <2>2, <2>3, <2>4 DEF ChannelInv
<1>16. ASSUME NEW d \in Devices, DevOpen(d) PROVE ChannelInv'
  <2>1. TypeOK'
    BY <1>16 DEF DevOpen, TypeOK
  <2>2. LockInv'
    BY <1>16 DEF DevOpen, LockInv
  <2>3. OwnerInv'
    BY <1>16 DEF DevOpen, OwnerInv
  <2>4. TableInv' /\ UpInv'
    BY <1>16 DEF DevOpen, TableInv, UpInv
  <2> QED
    BY <2>1, <2>2, <2>3, <2>4 DEF ChannelInv
<1>17. ASSUME NEW d \in Devices, DevClose(d) PROVE ChannelInv'
  <2>1. TypeOK'
    BY <1>17 DEF DevClose, TypeOK
  <2>2. LockInv'
    BY <1>17 DEF DevClose, LockInv
  <2>3. OwnerInv'
    BY <1>17 DEF DevClose, OwnerInv
  <2>4. TableInv' /\ UpInv'
    BY <1>17 DEF DevClose, TableInv, UpInv
  <2> QED
    BY <2>1, <2>2, <2>3, <2>4 DEF ChannelInv
<1>18. ASSUME NEW d \in Devices, Lease(d) PROVE ChannelInv'
  <2>1. TypeOK'
    BY <1>18 DEF Lease, TypeOK
  <2>2. LockInv'
    BY <1>18 DEF Lease, LockInv
  <2>3. OwnerInv'
    BY <1>18 DEF Lease, OwnerInv
  <2>4. TableInv' /\ UpInv'
    BY <1>18 DEF Lease, TableInv, UpInv
  <2> QED
    BY <2>1, <2>2, <2>3, <2>4 DEF ChannelInv
<1>19. CASE Exit
  <2>1. TypeOK'
    BY <1>19 DEF Exit, TypeOK
  <2>2. LockInv'
    BY <1>19 DEF Exit, LockInv
  <2>3. OwnerInv'
    BY <1>19 DEF Exit, OwnerInv
  <2>4. TableInv' /\ UpInv'
    BY <1>19 DEF Exit, OwnerInv, TableInv, UpInv
  <2> QED
    BY <2>1, <2>2, <2>3, <2>4 DEF ChannelInv
<1>20. CASE UNCHANGED vars
  BY <1>20 DEF vars, ChannelInv, TypeOK, LockInv, OwnerInv, TableInv, UpInv
<1> QED
  BY <1>1, <1>2, <1>3, <1>4, <1>5, <1>6, <1>7, <1>8, <1>9, <1>10, <1>11, <1>12, <1>13,
     <1>14, <1>15, <1>16, <1>17, <1>18, <1>19, <1>20 DEF Next, Open, Close, Rest

\* The inductive invariant holds for ever.
LEMMA Invariance == Spec => []ChannelInv
BY InitInv, NextInv, PTL DEF Spec

\* Every variable keeps its type: no search runs past the table.
THEOREM ChannelTypes == Spec => []TypeOK
<1>1. ChannelInv => TypeOK
  BY DEF ChannelInv
<1> QED
  BY <1>1, Invariance, PTL

\* A registered channel keeps its slot to itself until its destructor empties it.
THEOREM SlotsHeld == Spec => []SlotHeld
<1>1. ChannelInv => SlotHeld
  BY DEF ChannelInv, TableInv, SlotHeld
<1> QED
  BY <1>1, Invariance, PTL

\* The links between a terminal and its channel are cut together.
THEOREM LinksAgree == Spec => []LinkBothWays
<1>1. ChannelInv => LinkBothWays
  BY DEF ChannelInv, OwnerInv, LinkBothWays
<1> QED
  BY <1>1, Invariance, PTL

\* No interface is up without its buffers.
THEOREM UpBuffered == Spec => []UpHasBuffers
<1>1. ChannelInv => UpHasBuffers
  BY DEF ChannelInv, UpInv, UpHasBuffers
<1> QED
  BY <1>1, Invariance, PTL

\* slip_exit leaves no registered device, because every one of them has a terminal that
\* is attached or on its way out.
THEOREM UnloadsClean == Spec => []UnloadClean
<1>1. ChannelInv => UnloadClean
  BY DEF ChannelInv, LockInv, OwnerInv, UnloadClean
<1> QED
  BY <1>1, Invariance, PTL

=============================================================================

----------------------------- MODULE SnullModule -----------------------------
(***************************************************************************)
(* Loading and unloading of the memory-backed drivers (the module part of  *)
(* snull/snull.c and vlc/vlc.c) around the data path of Snull.  insmod     *)
(* allocates the devices, each with its pool of packets, then registers    *)
(* them one by one; when nothing could be registered it cleans up at once, *)
(* otherwise rmmod does so later, without asking whether an interface is   *)
(* up: it unregisters each device, frees the packets of its pool and frees *)
(* the device, before it turns to the next one.                            *)
(***************************************************************************)
EXTENDS Snull, SequencesExt

CONSTANTS
  Drivers,    \* for each driver its devices, in the order of the array snull_devs
  ChecksNull  \* the devices whose pointer snull_cleanup tests (snull.c but not vlc.c)

ASSUME ModuleAssumption ==
  /\ Drivers \subseteq Seq(Devs)
  /\ \A o \in Drivers : /\ o # << >> /\ IsInjective(o)
                        /\ \A d \in Range(o) : Twin[d] \in Range(o)
  /\ ChecksNull \subseteq Devs

VARIABLES
  order,      \* the devices of the driver that is loaded
  life,       \* of a device: "none", "allocated", "registered", "gone", "freed"
  stage,      \* of the module: "alloc", "register", "loaded", "cleanup", "unloaded"
  i,          \* the local i of snull_init_module and snull_cleanup
  ret,        \* the result of snull_init_module is an error
  torn,       \* the pool of device i is freed: only free_netdev is left for it
  kmalloced,  \* history: packets allocated
  kfreed,     \* history: packets freed
  misused     \* history: devices touched after they were freed

loader  == <<order, stage, i, ret, torn>>
memory  == <<kmalloced, kfreed>>
modVars == <<vars, life, loader, memory, misused>>

\* Snull without a module loaded.
ModInit ==
  /\ Quiet
  /\ up = [d \in Devs |-> FALSE]
  /\ ppool = [d \in Devs |-> << >>] /\ alone = {}
  /\ life = [d \in Devs |-> "none"]
  /\ order \in Drivers
  /\ stage = "alloc" /\ i = 1 /\ ret = TRUE /\ torn = FALSE
  /\ kmalloced = {} /\ kfreed = {} /\ misused = {}

Turn == order[i]
LastTurn == i = Len(order)

\* The variables of Snull that loading and unloading leave alone.
Path == <<use_napi, rx_queue, content, chip, skbs, ctx, got, bounds>>

-----------------------------------------------------------------------------
(* snull_init_module.                                                      *)

\* alloc_netdev calls snull_init; snull_setup_pool stops at the first packet it cannot
\* allocate and reports nothing.
AllocDevice(n) ==
  /\ stage = "alloc"
  /\ life' = [life EXCEPT ![Turn] = "allocated"]
  /\ ppool' = [ppool EXCEPT ![Turn] = PoolOf(Turn, n)]
  /\ kmalloced' = kmalloced \cup {<<Turn, p>> : p \in 1 .. n}
  /\ alone' = alone \cup ({<<Turn, 1>>} \cap kmalloced')
  /\ UNCHANGED <<Path, link, faults, order, ret, torn, kfreed, misused>>

AllocFails ==
  /\ stage = "alloc"
  /\ UNCHANGED <<vars, life, order, ret, torn, memory, misused>>

\* Both devices are asked for before either pointer is looked at.
AfterAlloc ==
  IF LastTurn
    THEN /\ stage' = IF \E d \in Range(order) : life'[d] = "none" THEN "cleanup"
                                                                 ELSE "register"
         /\ i' = 1
    ELSE i' = i + 1 /\ UNCHANGED stage

AfterRegister ==
  IF LastTurn
    THEN stage' = (IF ret' THEN "cleanup" ELSE "loaded") /\ i' = 1
    ELSE i' = i + 1 /\ UNCHANGED stage

\* register_netdev: from now on the interface can be opened.
Register ==
  /\ stage = "register"
  /\ life' = [life EXCEPT ![Turn] = "registered"]
  /\ ret' = FALSE
  /\ UNCHANGED <<vars, order, torn, memory, misused>>

\* The error is printed; it counts only when no device could be registered.
RegisterFails ==
  /\ stage = "register"
  /\ UNCHANGED <<vars, life, order, ret, torn, memory, misused>>

-----------------------------------------------------------------------------
(* snull_cleanup.                                                          *)

Rmmod ==
  /\ stage = "loaded"
  /\ stage' = "cleanup"
  /\ UNCHANGED <<vars, life, order, i, ret, torn, memory, misused>>

\* Mutation of CleanupNull: the loop does not go on past a missing device.
CleanupNullStays ==
  /\ stage = "cleanup" /\ life[Turn] = "none"
  /\ faults' = IF Turn \in ChecksNull THEN faults ELSE faults \cup {"null pointer"}
  /\ UNCHANGED <<Path, link, ppool, alone, life, loader, memory, misused>>

\* A device that was never allocated: unregister_netdev(NULL) unless it is tested for.
CleanupNull ==
  /\ stage = "cleanup" /\ life[Turn] = "none"
  /\ faults' = IF Turn \in ChecksNull THEN faults ELSE faults \cup {"null pointer"}
  /\ IF LastTurn THEN stage' = "unloaded" /\ UNCHANGED i ELSE i' = i + 1 /\ UNCHANGED stage
  /\ UNCHANGED <<Path, link, ppool, alone, life, order, ret, torn, memory, misused>>

\* Mutation of Unregister: does not wait for a transmission.
UnregisterNow ==
  /\ stage = "cleanup" /\ life[Turn] \in {"allocated", "registered"}
  /\ life' = [life EXCEPT ![Turn] = "gone"]
  /\ up' = [up EXCEPT ![Turn] = FALSE]
  /\ stopped' = [stopped EXCEPT ![Turn] = @ \/ up[Turn]]
  /\ UNCHANGED <<Path, ppool, alone, faults, loader, memory, misused>>

\* unregister_netdev closes the interface (snull_release) once its transmission is over; of
\* a device that was never registered it only complains.
Unregister ==
  /\ stage = "cleanup" /\ life[Turn] \in {"allocated", "registered"}
  /\ At(Turn, "idle")
  /\ life' = [life EXCEPT ![Turn] = "gone"]
  /\ up' = [up EXCEPT ![Turn] = FALSE]
  /\ stopped' = [stopped EXCEPT ![Turn] = @ \/ up[Turn]]
  /\ UNCHANGED <<Path, ppool, alone, faults, loader, memory, misused>>

\* Mutation of TeardownPool: the last packet of the list is taken for its end.
TeardownPoolShort ==
  /\ stage = "cleanup" /\ life[Turn] = "gone" /\ ~torn
  /\ torn' = TRUE
  /\ kfreed' = kfreed \cup {ppool[Turn][p] : p \in 1 .. Len(ppool[Turn]) - 1}
  /\ ppool' = [ppool EXCEPT ![Turn] = << >>]
  /\ UNCHANGED <<Path, link, alone, faults, life, order, stage, i, ret, kmalloced,
                 misused>>

\* snull_teardown_pool: only what is in the pool.  "FIXME - in-flight packets ?"
TeardownPool ==
  /\ stage = "cleanup" /\ life[Turn] = "gone" /\ ~torn
  /\ torn' = TRUE
  /\ kfreed' = kfreed \cup {ppool[Turn][p] : p \in DOMAIN ppool[Turn]}
  /\ ppool' = [ppool EXCEPT ![Turn] = << >>]
  /\ UNCHANGED <<Path, link, alone, faults, life, order, stage, i, ret, kmalloced,
                 misused>>

\* free_netdev.  The pointer in snull_devs stays.
FreeNetdev ==
  /\ torn
  /\ life' = [life EXCEPT ![Turn] = "freed"]
  /\ torn' = FALSE
  /\ IF LastTurn THEN stage' = "unloaded" /\ UNCHANGED i ELSE i' = i + 1 /\ UNCHANGED stage
  /\ UNCHANGED <<vars, order, ret, memory, misused>>

-----------------------------------------------------------------------------
(* The data path, and the administrator of a registered device.            *)

\* The devices whose memory the next step of d's processor uses.
Uses(d) ==
  CASE ctx[d].pc \in {"enqueue", "read dest", "write dest"} -> {d, Twin[d]}
    [] ctx[d].pc = "interrupt"                              -> {ctx[d].on}
    [] ctx[d].pc \in {"release", "recheck", "wake"}         -> {Home(d)}
    [] OTHER                                                -> {d}

DataPath(d) ==
  /\ Transmit(d) \/ Interrupt(d) \/ Timeout(d)
  /\ misused' = misused \cup {e \in Uses(d) : life[e] = "freed"}
  /\ UNCHANGED <<life, loader, memory>>

\* An interface is opened while its device is registered.
AdminOf(d) ==
  /\ life[d] = "registered"
  /\ opens < MaxOpens
  /\ Admin(d)
  /\ UNCHANGED <<life, loader, memory, misused>>

Load ==
  \/ AllocFails /\ AfterAlloc
  \/ \E n \in 0 .. PoolSize : AllocDevice(n) /\ AfterAlloc
  \/ Register /\ AfterRegister
  \/ RegisterFails /\ AfterRegister

Unload == CleanupNull \/ Unregister \/ TeardownPool \/ FreeNetdev

\* What happens after a kernel oops or a use of freed memory is not modelled.
Dead == "null pointer" \in faults \/ misused # {}

\* The module is gone, or the machine is.
AtRest == stage = "unloaded" \/ Dead

ModNext ==
  \/ AtRest /\ UNCHANGED modVars
  \/ /\ ~Dead
     /\ Load \/ Rmmod \/ Unload \/ \E d \in Devs : DataPath(d) \/ AdminOf(d)

ModSpec == ModInit /\ [][ModNext]_modVars

\* insmod and rmmod go on, and so does a processor inside the driver; unregister_netdev
\* gets its turn between two packets, because dev_close first stops the queue.
ModFairness ==
  /\ WF_modVars(~Dead /\ Load)
  /\ SF_modVars(~Dead /\ Unregister)
  /\ WF_modVars(~Dead /\ (CleanupNull \/ TeardownPool \/ FreeNetdev))
  /\ \A d \in Devs :
       WF_modVars(~Dead /\ ~At(d, "idle") /\ DataPath(d))

ModFairSpec == ModSpec /\ ModFairness

-----------------------------------------------------------------------------
(* Properties.                                                             *)

\* A device that is its own wire is never touched after cleanup has freed it:
\* unregister_netdev has waited for its transmission, and nobody else knows it.
NoUseAfterFree == \A d \in misused : Twin[d] # d

\* When its module is gone every packet it ever had has been freed, whatever was being
\* sent or locked up when rmmod came, and whatever failed in insmod.
AllPacketsFreed ==
  stage = "unloaded" =>
    \A b \in kmalloced : Twin[Owner(b)] = Owner(b) => b \in kfreed

\* rmmod ends, even while packets are being sent.
UnloadCompletes == stage = "cleanup" ~> stage = "unloaded" \/ Dead

=============================================================================

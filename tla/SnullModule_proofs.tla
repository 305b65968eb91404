-------------------------- MODULE SnullModule_proofs --------------------------
(***************************************************************************)
(* Proofs about unloading the memory-backed drivers (SnullModule): what    *)
(* rmmod frees is not in use, and it frees everything, for devices that    *)
(* are their own wire, whatever is being sent and whatever failed before.  *)
(***************************************************************************)
EXTENDS SnullModule, Snull_proofs

(***************************************************************************)
(* The inductive invariant.                                                *)
(***************************************************************************)

Stages == {"alloc", "register", "loaded", "cleanup", "unloaded"}
Lives  == {"none", "allocated", "registered", "gone", "freed"}

\* How far the loops over the devices have come.
LoopInv ==
  /\ order \in Drivers /\ stage \in Stages /\ i \in 1 .. Len(order) /\ torn \in BOOLEAN
  /\ life \in [Devs -> Lives]
  /\ \A d \in Devs : life[d] # "none" => d \in Range(order)
  /\ stage = "alloc" => \A k \in i .. Len(order) : life[order[k]] = "none"
  /\ stage \in {"alloc", "register", "loaded"} =>
       \A d \in Devs : life[d] \in {"none", "allocated", "registered"}
  /\ stage = "cleanup" =>
       /\ \A k \in 1 .. i - 1 : life[order[k]] \in {"none", "freed"}
       /\ \A k \in i + 1 .. Len(order) : life[order[k]] \in {"none", "allocated", "registered"}
       /\ life[Turn] # "freed"
  /\ stage = "unloaded" => \A d \in Devs : life[d] \in {"none", "freed"}
  /\ stage = "loaded" => i = 1
  /\ torn => stage = "cleanup" /\ life[Turn] = "gone"

\* Nobody is inside a device that is not registered, or starts to be.
OutsideInv ==
  /\ up \in [Devs -> BOOLEAN]
  /\ \A d \in Devs : life[d] # "registered" => At(d, "idle") /\ ~up[d]

\* A processor stays with its device and the twin of it, and so do the packets.
StaysHome(d, c) ==
  /\ c.pc = "interrupt" => c.on \in {d, Twin[d]}
  /\ c.pc \in {"enqueue", "release", "recheck", "wake"} =>
       c.pkt \in Buffers /\ Owner(c.pkt) \in {d, Twin[d]}
  /\ c.pc = "enqueue" => Owner(c.pkt) = d

ListsHome ==
  /\ ppool \in [Devs -> Seq(Buffers)] /\ rx_queue \in [Devs -> Seq(Buffers)]
  /\ \A d \in Devs, b \in Buffers : /\ Listed(b, ppool[d]) => Owner(b) = d
                                    /\ Listed(b, rx_queue[d]) => Owner(b) = Twin[d]

StayInv ==
  /\ ctx \in [Devs -> Context] /\ status \in [Devs -> SUBSET {"RX", "TX"}]
  /\ ListsHome
  /\ \A d \in Devs : StaysHome(d, ctx[d])

OwnWires == {d \in Devs : Twin[d] = d}

\* A processor carries a packet of its device, its own wire, between the two lists.
Delivering(c) == c.pc = "interrupt" /\ c.back = "read own"
InFlight(c) == c.pc = "read dest" \/ c.pc = "write dest" \/ Delivering(c)

\* Nothing waits on the receive queue of such a device but the packet on its way.
HomeInv(d) ==
  /\ rx_int_enabled[d]
  /\ InFlight(ctx[d]) => \E b \in Buffers : rx_queue[d] = <<b>>
  /\ ~InFlight(ctx[d]) => rx_queue[d] = << >>
  /\ Delivering(ctx[d]) => "RX" \in status[d]

\* Its packets are in the pool or on their way, until the pool is freed.
Kept(b, d) == Listed(b, ppool[d]) \/ Listed(b, rx_queue[d]) \/ Held(d, b)
Freed(d)   == \A b \in kmalloced : Owner(b) = d => b \in kfreed
KeptInv(d) ==
  /\ \A b \in kmalloced : Owner(b) = d /\ b \notin kfreed => Kept(b, d)
  /\ life[d] = "freed" \/ (torn /\ d = Turn) => Freed(d)

MemoryInv ==
  /\ kmalloced \subseteq Buffers /\ \A b \in kmalloced : life[Owner(b)] # "none"
  /\ ~use_napi => \A d \in OwnWires : HomeInv(d) /\ KeptInv(d)

ModInv == LoopInv /\ OutsideInv /\ StayInv /\ MemoryInv /\ NoUseAfterFree

(***************************************************************************)
(* The data path.                                                          *)
(***************************************************************************)

\* A device that a step does not touch.
Alike(d) == /\ ctx'[d] = ctx[d] /\ ppool'[d] = ppool[d] /\ rx_queue'[d] = rx_queue[d]
            /\ status'[d] = status[d] /\ rx_int_enabled'[d] = rx_int_enabled[d]

\* What a step of the processor of d may do.
PathStep(d) ==
  /\ UNCHANGED <<use_napi, up>>
  /\ StayInv'
  /\ \A e \in Devs \ {d, Twin[d]} : Alike(e)
  /\ \A e \in Devs \ {d} : ctx'[e] = ctx[e]
  /\ d \in OwnWires /\ ~use_napi /\ HomeInv(d) =>
       HomeInv(d)' /\ \A b \in Buffers : Kept(b, d) => Kept(b, d)'

\* A list is its head and its tail.
LEMMA TailListed ==
  ASSUME NEW S, NEW list \in Seq(S), list # << >>
  PROVE  /\ Listed(Head(list), list)
         /\ \A b : Listed(b, list) <=> b = Head(list) \/ Listed(b, Tail(list))
<1>1. /\ Len(list) \in Nat /\ Len(list) > 0 /\ DOMAIN list = 1 .. Len(list)
      /\ Head(list) = list[1]
  BY LenProperties, EmptySeq, HeadTailProperties
<1>2. /\ Tail(list) \in Seq(S) /\ Len(Tail(list)) = Len(list) - 1
      /\ \A k \in 1 .. Len(Tail(list)) : Tail(list)[k] = list[k + 1]
  BY HeadTailProperties
<1>3. DOMAIN Tail(list) = 1 .. Len(list) - 1
  BY <1>2, LenProperties
<1>4. \A k \in DOMAIN list : k # 1 => k - 1 \in DOMAIN Tail(list) /\ Tail(list)[k - 1] = list[k]
  BY <1>1, <1>2, <1>3
<1>5. \A k \in DOMAIN Tail(list) : k + 1 \in DOMAIN list /\ Tail(list)[k] = list[k + 1]
  BY <1>1, <1>2, <1>3
<1>6. Listed(Head(list), list)
  BY <1>1 DEF Listed
<1>7. ASSUME NEW b, Listed(b, list) PROVE b = Head(list) \/ Listed(b, Tail(list))
  BY <1>1, <1>4, <1>7 DEF Listed
<1>8. ASSUME NEW b, Listed(b, Tail(list)) PROVE Listed(b, list)
  BY <1>5, <1>8 DEF Listed
<1> QED
  BY <1>6, <1>7, <1>8

\* The processor of d moves on.
LEMMA StayStep ==
  ASSUME StayInv, NEW d \in Devs, NEW c \in Context, ctx' = [ctx EXCEPT ![d] = c],
         status' \in [Devs -> SUBSET {"RX", "TX"}], ListsHome', StaysHome(d, c)
  PROVE  /\ StayInv' /\ ctx'[d] = c /\ \A e \in Devs \ {d} : ctx'[e] = ctx[e]
<1>1. ctx \in [Devs -> Context] /\ \A e \in Devs : StaysHome(e, ctx[e])
  BY DEF StayInv
<1>2. ctx' \in [Devs -> Context] /\ ctx'[d] = c /\ \A e \in Devs \ {d} : ctx'[e] = ctx[e]
  BY <1>1
<1>3. \A e \in Devs : StaysHome(e, ctx'[e])
  BY <1>1, <1>2
<1>4. (\A e \in Devs : StaysHome(e, ctx[e]))'
  BY <1>3 DEF StaysHome
<1> QED
  BY <1>2, <1>4 DEF StayInv

\* A step of the processor of d that moves no packet.
LEMMA QuietStep ==
  ASSUME StayInv, NEW d \in Devs, NEW c \in Context, ctx' = [ctx EXCEPT ![d] = c],
         UNCHANGED <<use_napi, up, ppool, rx_queue>>,
         status' \in [Devs -> SUBSET {"RX", "TX"}], StaysHome(d, c),
         \A e \in Devs \ {d, Twin[d]} :
           status'[e] = status[e] /\ rx_int_enabled'[e] = rx_int_enabled[e],
         ctx[d].pc \notin {"enqueue", "release"},
         d \in OwnWires /\ ~use_napi /\ HomeInv(d) =>
           /\ rx_int_enabled'[d]
           /\ InFlight(c) <=> InFlight(ctx[d])
           /\ Delivering(c) => "RX" \in status'[d]
  PROVE  PathStep(d)
<1>1. ListsHome'
  BY DEF StayInv, ListsHome
<1>2. StayInv' /\ ctx'[d] = c /\ \A e \in Devs \ {d} : ctx'[e] = ctx[e]
  BY <1>1, StayStep
<1>3. \A e \in Devs \ {d, Twin[d]} : Alike(e)
  BY <1>2 DEF Alike
<1>4. ASSUME d \in OwnWires, ~use_napi, HomeInv(d)
      PROVE  HomeInv(d)' /\ \A b \in Buffers : Kept(b, d) => Kept(b, d)'
  <2>1. (InFlight(ctx[d]))' <=> InFlight(ctx[d])
    BY <1>2, <1>4 DEF InFlight, Delivering
  <2>2. (Delivering(ctx[d]))' => "RX" \in status'[d]
    BY <1>2, <1>4 DEF Delivering
  <2>3. HomeInv(d)'
    BY <1>4, <2>1, <2>2 DEF HomeInv
  <2>4. \A b \in Buffers : ~Held(d, b)
    BY DEF Held
  <2> QED
    BY <2>3, <2>4 DEF Kept
<1> QED
  BY <1>2, <1>3, <1>4 DEF PathStep

\* What is known of a processor.
LEMMA Contexts ==
  ASSUME StayInv, NEW d \in Devs
  PROVE  /\ ctx \in [Devs -> Context] /\ ctx[d] \in Context
         /\ ctx[d].back \in {"idle", "read own", "restart"}
         /\ ctx[d].word \in SUBSET {"RX", "TX"}
         /\ status \in [Devs -> SUBSET {"RX", "TX"}]
         /\ StaysHome(d, ctx[d])
         /\ Idle \in Context
BY DEF StayInv, Context, Idle, Places

\* snull_tx is entered, or the watchdog runs, or either is left.
LEMMA EnterLeave ==
  ASSUME StayInv, NEW d \in Devs, Tx(d) \/ TxTimeout(d) \/ TimeoutWake(d)
  PROVE  PathStep(d)
<1>1. CASE Tx(d)
  <2>1. PICK c : c = [ctx[d] EXCEPT !.pc = "get"]
    OBVIOUS
  <2>2. ctx' = [ctx EXCEPT ![d] = c] /\ c \in Context /\ c.pc = "get"
    BY <1>1, <2>1, Contexts DEF Tx, Goto, Context, Places
  <2>3. UNCHANGED <<use_napi, up, ppool, rx_queue, status, rx_int_enabled>> /\ ctx[d].pc = "idle"
    BY <1>1 DEF Tx, At, lists, chip, link
  <2>4. StaysHome(d, c) /\ ~InFlight(c) /\ ~Delivering(c) /\ ~InFlight(ctx[d])
    BY <2>2, <2>3 DEF StaysHome, InFlight, Delivering
  <2> QED
    BY <2>2, <2>3, <2>4, QuietStep, Contexts DEF HomeInv
<1>2. CASE TxTimeout(d)
  <2>1. PICK c : c = [ctx[d] EXCEPT !.pc = "interrupt", !.on = d, !.back = "restart"]
    OBVIOUS
  <2>2. ctx' = [ctx EXCEPT ![d] = c] /\ c \in Context
    BY <1>2, <2>1, Contexts DEF TxTimeout, Context, Places
  <2>3. c.pc = "interrupt" /\ c.on = d /\ c.back = "restart"
    BY <2>1, Contexts DEF Context
  <2>4. UNCHANGED <<use_napi, up, ppool, rx_queue, rx_int_enabled>> /\ ctx[d].pc = "idle"
    BY <1>2 DEF TxTimeout, At, lists, link
  <2>5. /\ status' \in [Devs -> SUBSET {"RX", "TX"}]
        /\ \A e \in Devs \ {d, Twin[d]} : status'[e] = status[e]
    BY <1>2, Contexts DEF TxTimeout
  <2>6. StaysHome(d, c) /\ ~InFlight(c) /\ ~Delivering(c) /\ ~InFlight(ctx[d])
    BY <2>3, <2>4 DEF StaysHome, InFlight, Delivering
  <2> QED
    BY <2>2, <2>4, <2>5, <2>6, QuietStep DEF HomeInv
<1>3. CASE TimeoutWake(d)
  <2>1. PICK c : c = Idle
    OBVIOUS
  <2>2. ctx' = [ctx EXCEPT ![d] = c] /\ c \in Context /\ c.pc = "idle"
    BY <1>3, <2>1, Contexts DEF TimeoutWake, Idle
  <2>3. /\ UNCHANGED <<use_napi, up, ppool, rx_queue, status, rx_int_enabled>>
        /\ ctx[d].pc = "restart"
    BY <1>3 DEF TimeoutWake, At, lists, chip
  <2>4. StaysHome(d, c) /\ ~InFlight(c) /\ ~Delivering(c) /\ ~InFlight(ctx[d])
    BY <2>2, <2>3 DEF StaysHome, InFlight, Delivering
  <2> QED
    BY <2>2, <2>3, <2>4, QuietStep, Contexts DEF HomeInv
<1> QED
  BY <1>1, <1>2, <1>3

\* The reason of the receive interrupt is read ...
LEMMA ReadDestOnPath ==
  ASSUME StayInv, NEW d \in Devs, ReadDest(d)
  PROVE  PathStep(d)
<1>1. /\ UNCHANGED <<use_napi, up, ppool, rx_queue, status, rx_int_enabled>>
      /\ ctx[d].pc = "read dest"
  BY DEF ReadDest, At, lists, chip, link
<1>2. CASE rx_int_enabled[Twin[d]]
  <2>1. PICK c : c = [ctx[d] EXCEPT !.pc = "write dest", !.word = status[Twin[d]]]
    OBVIOUS
  <2>2. status[Twin[d]] \in SUBSET {"RX", "TX"}
    BY Contexts, BufferFacts
  <2>3. c \in Context
    BY <2>1, <2>2, Contexts DEF Context, Places
  <2>4. ctx' = [ctx EXCEPT ![d] = c]
    BY <1>2, <2>1 DEF ReadDest
  <2>5. c.pc = "write dest"
    BY <2>1, Contexts DEF Context
  <2>6. StaysHome(d, c) /\ InFlight(c) /\ ~Delivering(c) /\ InFlight(ctx[d])
    BY <1>1, <2>5 DEF StaysHome, InFlight, Delivering
  <2> QED
    BY <1>1, <2>3, <2>4, <2>6, QuietStep, Contexts DEF HomeInv
<1>3. CASE ~rx_int_enabled[Twin[d]]
  <2>1. PICK c : c = [ctx[d] EXCEPT !.pc = "read own"]
    OBVIOUS
  <2>2. ctx' = [ctx EXCEPT ![d] = c] /\ c \in Context /\ c.pc = "read own"
    BY <1>3, <2>1, Contexts DEF ReadDest, Goto, Context, Places
  <2>3. StaysHome(d, c)
    BY <2>2 DEF StaysHome
  <2>4. ~(d \in OwnWires /\ HomeInv(d))
    BY <1>3 DEF OwnWires, HomeInv
  <2> QED
    BY <1>1, <2>2, <2>3, <2>4, QuietStep, Contexts
<1> QED
  BY <1>2, <1>3

\* ... and written, and the handler of the twin is called.
LEMMA WriteDestOnPath ==
  ASSUME StayInv, NEW d \in Devs, WriteDest(d)
  PROVE  PathStep(d)
<1>1. UNCHANGED <<use_napi, up, ppool, rx_queue, rx_int_enabled>> /\ ctx[d].pc = "write dest"
  BY DEF WriteDest, At, lists, link
<1>2. PICK c : c = [ctx[d] EXCEPT !.pc = "interrupt", !.on = Twin[d],
                                  !.word = {}, !.back = "read own"]
  OBVIOUS
<1>3. c \in Context
  <2>1. ctx[d] \in Context /\ Twin[d] \in Devs
    BY Contexts, BufferFacts
  <2> QED
    BY <1>2, <2>1 DEF Context, Places
<1>4. ctx' = [ctx EXCEPT ![d] = c]
  BY <1>2 DEF WriteDest
<1>5. c.pc = "interrupt" /\ c.on = Twin[d] /\ c.back = "read own"
  BY <1>2, Contexts DEF Context
<1>6. PICK w \in SUBSET {"RX", "TX"} : w = ctx[d].word \cup {"RX"}
  BY Contexts
<1>7. /\ status' \in [Devs -> SUBSET {"RX", "TX"}] /\ status'[Twin[d]] = w
      /\ \A e \in Devs \ {d, Twin[d]} : status'[e] = status[e]
  BY <1>6, Contexts, BufferFacts DEF WriteDest
<1>8. StaysHome(d, c) /\ InFlight(c) /\ InFlight(ctx[d])
  BY <1>1, <1>5 DEF StaysHome, InFlight, Delivering
<1>9. d \in OwnWires => "RX" \in status'[d]
  BY <1>6, <1>7 DEF OwnWires
<1> QED
  BY <1>1, <1>3, <1>4, <1>7, <1>8, <1>9, QuietStep DEF HomeInv

\* The reason of the transmit interrupt is read and written, and the own handler called.
LEMMA OwnInterruptOnPath ==
  ASSUME StayInv, NEW d \in Devs, ReadOwn(d) \/ WriteOwn(d)
  PROVE  PathStep(d)
<1>1. CASE ReadOwn(d)
  <2>1. PICK c : c = [ctx[d] EXCEPT !.pc = "write own", !.word = status[d]]
    OBVIOUS
  <2>2. c \in Context
    <3>1. PICK w \in SUBSET {"RX", "TX"} : w = status[d]
      BY Contexts
    <3>2. c = [ctx[d] EXCEPT !.pc = "write own", !.word = w] /\ ctx[d] \in Context
      BY <2>1, <3>1, Contexts
    <3> QED
      BY <3>2 DEF Context, Places
  <2>3. ctx' = [ctx EXCEPT ![d] = c]
    BY <1>1, <2>1 DEF ReadOwn
  <2>4. c.pc = "write own"
    BY <2>1, Contexts DEF Context
  <2>5. /\ UNCHANGED <<use_napi, up, ppool, rx_queue, status, rx_int_enabled>>
        /\ ctx[d].pc = "read own"
    BY <1>1 DEF ReadOwn, At, lists, chip, link
  <2>6. StaysHome(d, c) /\ ~InFlight(c) /\ ~Delivering(c) /\ ~InFlight(ctx[d])
    BY <2>4, <2>5 DEF StaysHome, InFlight, Delivering
  <2> QED
    BY <2>2, <2>3, <2>5, <2>6, QuietStep, Contexts DEF HomeInv
<1>2. CASE WriteOwn(d)
  <2>1. PICK c : c = IF Lockup # 0 /\ (tx_packets[d] + 1) % Lockup = 0 THEN Idle
                     ELSE [Idle EXCEPT !.pc = "interrupt", !.on = d]
    OBVIOUS
  <2>2. ctx' = [ctx EXCEPT ![d] = c]
    BY <1>2, <2>1 DEF WriteOwn
  <2>3. c \in Context /\ c.back = "idle" /\ (c.pc = "idle" \/ (c.pc = "interrupt" /\ c.on = d))
    BY <2>1 DEF Context, Places, Idle
  <2>4. UNCHANGED <<use_napi, up, ppool, rx_queue, rx_int_enabled>> /\ ctx[d].pc = "write own"
    BY <1>2 DEF WriteOwn, At, lists
  <2>5. PICK w \in SUBSET {"RX", "TX"} : w = ctx[d].word \cup {"TX"}
    BY Contexts
  <2>6. /\ status' \in [Devs -> SUBSET {"RX", "TX"}]
        /\ \A e \in Devs \ {d, Twin[d]} : status'[e] = status[e]
    BY <1>2, <2>5, Contexts DEF WriteOwn
  <2>7. StaysHome(d, c) /\ ~InFlight(c) /\ ~Delivering(c) /\ ~InFlight(ctx[d])
    BY <2>3, <2>4 DEF StaysHome, InFlight, Delivering
  <2> QED
    BY <2>2, <2>3, <2>4, <2>6, <2>7, QuietStep DEF HomeInv
<1> QED
  BY <1>1, <1>2

\* Whoever has put a packet back goes on to wake the queue, or leaves.
LEMMA RecheckOnPath ==
  ASSUME StayInv, NEW d \in Devs, Recheck(d)
  PROVE  PathStep(d)
<1>1. PICK c : c = IF stopped[Home(d)] /\ ctx[d].pkt \in alone
                   THEN [ctx[d] EXCEPT !.pc = "wake"] ELSE [Idle EXCEPT !.pc = ctx[d].back]
  OBVIOUS
<1>2. /\ ctx' = [ctx EXCEPT ![d] = c] /\ ctx[d].pc = "recheck"
      /\ UNCHANGED <<use_napi, up, ppool, rx_queue, status, rx_int_enabled>>
  BY <1>1 DEF Recheck, Goto, Return, At, link, lists, chip
<1>3. c \in Context /\ c.pc \in {"wake", "idle", "read own", "restart"}
      /\ (c.pc = "wake" => c.pkt = ctx[d].pkt)
  BY <1>1, Contexts DEF Context, Places, Idle
<1>4. StaysHome(d, c) /\ ~InFlight(c) /\ ~Delivering(c) /\ ~InFlight(ctx[d])
  BY <1>2, <1>3, Contexts DEF StaysHome, InFlight, Delivering
<1> QED
  BY <1>2, <1>3, <1>4, QuietStep, Contexts DEF HomeInv

\* A handler with nothing to take is left, and so is one whose packet is back in the pool.
LEMMA ReturnOnPath ==
  ASSUME StayInv, NEW d \in Devs,
         \/ /\ RegularInterrupt(d)
            /\ ~("RX" \in status[ctx[d].on] /\ rx_queue[ctx[d].on] # << >>)
         \/ NapiInterrupt(d)
         \/ WakeQueue(d)
  PROVE  PathStep(d)
<1>1. PICK c : c = [Idle EXCEPT !.pc = ctx[d].back]
  OBVIOUS
<1>2. ctx' = [ctx EXCEPT ![d] = c]
  BY <1>1 DEF RegularInterrupt, NapiInterrupt, WakeQueue, Return
<1>3. c \in Context /\ c.pc \in {"idle", "read own", "restart"} /\ StaysHome(d, c)
  BY <1>1, Contexts DEF Context, Places, Idle, StaysHome
<1>4. UNCHANGED <<use_napi, up, ppool, rx_queue>> /\ ctx[d].pc \in {"interrupt", "wake"}
  BY DEF RegularInterrupt, NapiInterrupt, WakeQueue, At, lists, link
<1>5. ~InFlight(c) /\ ~Delivering(c)
  BY <1>3 DEF InFlight, Delivering
<1>6. CASE WakeQueue(d)
  <2>1. UNCHANGED <<status, rx_int_enabled>> /\ ~InFlight(ctx[d])
    BY <1>6 DEF WakeQueue, chip, At, InFlight, Delivering
  <2> QED
    BY <1>2, <1>3, <1>4, <1>5, <2>1, QuietStep, Contexts DEF HomeInv
<1>7. CASE ~WakeQueue(d)
  <2>1. ctx[d].pc = "interrupt" /\ status' = [status EXCEPT ![ctx[d].on] = {}]
    BY <1>7 DEF RegularInterrupt, NapiInterrupt, Cleared, At
  <2>2. ctx[d].on \in {d, Twin[d]}
    BY <2>1, Contexts DEF StaysHome
  <2>3. /\ status' \in [Devs -> SUBSET {"RX", "TX"}]
        /\ \A e \in Devs \ {d, Twin[d]} : status'[e] = status[e]
    BY <2>1, <2>2, Contexts
  <2>4. CASE RegularInterrupt(d)
    <3>1. UNCHANGED rx_int_enabled /\ ~(RegularInterrupt(d) /\ NapiInterrupt(d))
      BY <2>4 DEF RegularInterrupt, NapiInterrupt
    <3>2. d \in OwnWires /\ HomeInv(d) => ~InFlight(ctx[d])
      <4> SUFFICES ASSUME d \in OwnWires, HomeInv(d), InFlight(ctx[d]) PROVE FALSE
        OBVIOUS
      <4>1. Delivering(ctx[d]) /\ ctx[d].on = d /\ "RX" \in status[d]
        BY <2>1, <2>2 DEF InFlight, HomeInv, OwnWires
      <4>2. PICK b \in Buffers : rx_queue[d] = <<b>>
        BY DEF HomeInv
      <4>3. ~("RX" \in status[d] /\ rx_queue[d] # << >>)
        BY <1>7, <3>1, <2>4, <4>1
      <4> QED
        BY <4>1, <4>2, <4>3
    <3> QED
      BY <1>2, <1>3, <1>4, <1>5, <2>3, <3>1, <3>2, QuietStep DEF HomeInv
  <2>5. CASE NapiInterrupt(d)
    <3>1. use_napi /\ \A e \in Devs \ {d, Twin[d]} : rx_int_enabled'[e] = rx_int_enabled[e]
      BY <2>2, <2>5 DEF NapiInterrupt
    <3> QED
      BY <1>2, <1>3, <1>4, <1>5, <2>3, <3>1, QuietStep
  <2> QED
    BY <1>7, <2>4, <2>5
<1> QED
  BY <1>6, <1>7

\* snull_get_tx_buffer: from the pool into the hands of the sender.
LEMMA GetOnPath ==
  ASSUME StayInv, NEW d \in Devs, GetTxBuffer(d)
  PROVE  PathStep(d)
<1>1. /\ UNCHANGED <<use_napi, up, rx_queue, status, rx_int_enabled>> /\ ctx[d].pc = "get"
  BY DEF GetTxBuffer, At, chip
<1>2. CASE ppool[d] = << >>
  <2>1. PICK c : c = [ctx[d] EXCEPT !.pc = "dead"]
    OBVIOUS
  <2>2. /\ ctx' = [ctx EXCEPT ![d] = c] /\ c \in Context /\ c.pc = "dead"
        /\ UNCHANGED ppool
    BY <1>2, <2>1, Contexts DEF GetTxBuffer, Goto, Context, Places
  <2>3. StaysHome(d, c) /\ ~InFlight(c) /\ ~Delivering(c) /\ ~InFlight(ctx[d])
    BY <1>1, <2>2 DEF StaysHome, InFlight, Delivering
  <2> QED
    BY <1>1, <2>2, <2>3, QuietStep, Contexts DEF HomeInv
<1>3. CASE ppool[d] # << >>
  <2>1. ppool \in [Devs -> Seq(Buffers)] /\ ppool[d] \in Seq(Buffers) /\ ListsHome
    BY DEF StayInv, ListsHome
  <2>2. PICK h \in Buffers : h = Head(ppool[d])
    BY <1>3, <2>1, TailFacts
  <2>3. PICK tl \in Seq(Buffers) : tl = Tail(ppool[d])
    BY <1>3, <2>1, TailFacts
  <2>4. Listed(h, ppool[d]) /\ \A b : Listed(b, ppool[d]) <=> b = h \/ Listed(b, tl)
    BY <1>3, <2>1, <2>2, <2>3, TailListed
  <2>5. PICK c : c = [ctx[d] EXCEPT !.pc = "enqueue", !.pkt = h]
    OBVIOUS
  <2>6. c \in Context /\ c.pc = "enqueue" /\ c.pkt = h
    BY <2>5, Contexts DEF Context, Places
  <2>7. ctx' = [ctx EXCEPT ![d] = c]
    BY <1>3, <2>2, <2>5 DEF GetTxBuffer
  <2>8. ppool' = [ppool EXCEPT ![d] = tl]
    BY <1>3, <2>3 DEF GetTxBuffer
  <2>9. /\ ppool' \in [Devs -> Seq(Buffers)] /\ ppool'[d] = tl
        /\ \A e \in Devs : e # d => ppool'[e] = ppool[e]
    BY <2>1, <2>8
  <2>10. ListsHome'
    BY <1>1, <2>1, <2>4, <2>9 DEF ListsHome
  <2>11. StaysHome(d, c) /\ ~InFlight(c) /\ ~InFlight(ctx[d]) /\ ~Delivering(c)
    BY <1>1, <2>1, <2>4, <2>6 DEF StaysHome, InFlight, Delivering, ListsHome
  <2>12. StayInv' /\ ctx'[d] = c /\ \A e \in Devs \ {d} : ctx'[e] = ctx[e]
    BY <1>1, <2>6, <2>7, <2>10, <2>11, StayStep, Contexts
  <2>13. \A e \in Devs \ {d, Twin[d]} : Alike(e)
    BY <1>1, <2>9, <2>12 DEF Alike
  <2>14. ASSUME d \in OwnWires, ~use_napi, HomeInv(d)
         PROVE  HomeInv(d)' /\ \A b \in Buffers : Kept(b, d) => Kept(b, d)'
    <3>1. HomeInv(d)'
      BY <1>1, <2>11, <2>12, <2>14 DEF HomeInv, InFlight, Delivering
    <3>2. \A b \in Buffers : ~Held(d, b) /\ (Held(d, b)' <=> b = h)
      BY <1>1, <2>6, <2>12 DEF Held
    <3> QED
      BY <1>1, <2>4, <2>9, <3>1, <3>2 DEF Kept
  <2> QED
    BY <1>1, <2>12, <2>13, <2>14 DEF PathStep
<1> QED
  BY <1>2, <1>3

\* snull_enqueue_buf: from the hands of the sender onto the receive queue of its twin.
LEMMA EnqueueOnPath ==
  ASSUME StayInv, NEW d \in Devs, Enqueue(d)
  PROVE  PathStep(d)
<1>1. UNCHANGED <<use_napi, up, ppool, status, rx_int_enabled>> /\ ctx[d].pc = "enqueue"
  BY DEF Enqueue, At, chip, link
<1>2. PICK h \in Buffers : h = ctx[d].pkt /\ Owner(h) = d
  BY <1>1, Contexts DEF StaysHome
<1>3. /\ rx_queue \in [Devs -> Seq(Buffers)] /\ ListsHome
      /\ Twin[d] \in Devs /\ Twin[Twin[d]] = d /\ rx_queue[Twin[d]] \in Seq(Buffers)
  BY BufferFacts DEF StayInv, ListsHome
<1>4. PICK q \in Seq(Buffers) : q = Push(h, rx_queue[Twin[d]])
  BY <1>3, PushFacts
<1>5. \A b : Listed(b, q) <=> b = h \/ Listed(b, rx_queue[Twin[d]])
  BY <1>3, <1>4, PushFacts
<1>6. PICK c : c = [ctx[d] EXCEPT !.pc = "read dest", !.pkt = NULL]
  OBVIOUS
<1>7. ctx' = [ctx EXCEPT ![d] = c] /\ c \in Context /\ c.pc = "read dest"
  BY <1>6, Contexts DEF Enqueue, Context, Places
<1>8. rx_queue' = [rx_queue EXCEPT ![Twin[d]] = q]
  BY <1>2, <1>4 DEF Enqueue
<1>9. /\ rx_queue' \in [Devs -> Seq(Buffers)] /\ rx_queue'[Twin[d]] = q
      /\ \A e \in Devs : e # Twin[d] => rx_queue'[e] = rx_queue[e]
  BY <1>3, <1>8
<1>10. ListsHome'
  BY <1>1, <1>2, <1>3, <1>5, <1>9 DEF ListsHome
<1>11. StaysHome(d, c) /\ InFlight(c) /\ ~InFlight(ctx[d]) /\ ~Delivering(c)
  BY <1>1, <1>7 DEF StaysHome, InFlight, Delivering
<1>12. StayInv' /\ ctx'[d] = c /\ \A e \in Devs \ {d} : ctx'[e] = ctx[e]
  BY <1>1, <1>7, <1>10, <1>11, StayStep, Contexts
<1>13. \A e \in Devs \ {d, Twin[d]} : Alike(e)
  BY <1>1, <1>9, <1>12 DEF Alike
<1>14. ASSUME d \in OwnWires, ~use_napi, HomeInv(d)
       PROVE  HomeInv(d)' /\ \A b \in Buffers : Kept(b, d) => Kept(b, d)'
  <2>1. Twin[d] = d /\ rx_queue[d] = << >>
    BY <1>11, <1>14 DEF OwnWires, HomeInv
  <2>2. rx_queue'[d] = <<h>>
    BY <1>4, <1>9, <2>1 DEF Push
  <2>3. HomeInv(d)'
    BY <1>1, <1>11, <1>12, <1>14, <2>2 DEF HomeInv, InFlight, Delivering
  <2>4. \A b \in Buffers : Held(d, b) => b = h
    BY <1>2 DEF Held
  <2> QED
    BY <1>1, <1>5, <1>9, <2>1, <2>3, <2>4 DEF Kept
<1> QED
  BY <1>1, <1>12, <1>13, <1>14 DEF PathStep

\* snull_regular_interrupt with a packet: from the receive queue into the hands of the
\* processor that runs the handler.
LEMMA ReceiveOnPath ==
  ASSUME StayInv, NEW d \in Devs, RegularInterrupt(d),
         "RX" \in status[ctx[d].on], rx_queue[ctx[d].on] # << >>
  PROVE  PathStep(d)
<1>1. UNCHANGED <<use_napi, up, ppool, rx_int_enabled>> /\ ctx[d].pc = "interrupt"
  BY DEF RegularInterrupt, At, link
<1>2. PICK e \in {d, Twin[d]} : e = ctx[d].on
  BY <1>1, Contexts DEF StaysHome
<1>3. e \in Devs /\ Twin[e] \in {d, Twin[d]} /\ Twin[d] \in Devs
  BY <1>2, BufferFacts
<1>4. rx_queue \in [Devs -> Seq(Buffers)] /\ rx_queue[e] \in Seq(Buffers) /\ ListsHome
  BY <1>3 DEF StayInv, ListsHome
<1>5. PICK h \in Buffers : h = Head(rx_queue[e])
  BY <1>2, <1>4, TailFacts
<1>6. PICK tl \in Seq(Buffers) : tl = Tail(rx_queue[e])
  BY <1>2, <1>4, TailFacts
<1>7. Listed(h, rx_queue[e]) /\ \A b : Listed(b, rx_queue[e]) <=> b = h \/ Listed(b, tl)
  BY <1>2, <1>4, <1>5, <1>6, TailListed
<1>8. PICK c : c = [ctx[d] EXCEPT !.pc = "release", !.pkt = h]
  OBVIOUS
<1>9. c \in Context /\ c.pc = "release" /\ c.pkt = h
  BY <1>8, Contexts DEF Context, Places
<1>10. ctx' = [ctx EXCEPT ![d] = c]
  BY <1>2, <1>5, <1>8 DEF RegularInterrupt
<1>11. rx_queue' = [rx_queue EXCEPT ![e] = tl]
  BY <1>2, <1>6 DEF RegularInterrupt, Unlinked
<1>12. status' = [status EXCEPT ![e] = {}]
  BY <1>2 DEF RegularInterrupt, Cleared
<1>13. /\ rx_queue' \in [Devs -> Seq(Buffers)] /\ rx_queue'[e] = tl
       /\ \A f \in Devs : f # e => rx_queue'[f] = rx_queue[f]
  BY <1>3, <1>4, <1>11
<1>14. /\ status' \in [Devs -> SUBSET {"RX", "TX"}]
       /\ \A f \in Devs : f # e => status'[f] = status[f]
  BY <1>3, <1>12, Contexts
<1>15. ListsHome'
  BY <1>1, <1>4, <1>7, <1>13 DEF ListsHome
<1>16. Owner(h) = Twin[e]
  BY <1>3, <1>4, <1>7 DEF ListsHome
<1>17. StaysHome(d, c) /\ ~InFlight(c) /\ ~Delivering(c)
  BY <1>3, <1>9, <1>16 DEF StaysHome, InFlight, Delivering
<1>18. StayInv' /\ ctx'[d] = c /\ \A f \in Devs \ {d} : ctx'[f] = ctx[f]
  BY <1>9, <1>10, <1>14, <1>15, <1>17, StayStep
<1>19. \A f \in Devs \ {d, Twin[d]} : Alike(f)
  BY <1>1, <1>2, <1>13, <1>14, <1>18 DEF Alike
<1>20. ASSUME d \in OwnWires, ~use_napi, HomeInv(d)
       PROVE  HomeInv(d)' /\ \A b \in Buffers : Kept(b, d) => Kept(b, d)'
  <2>1. e = d
    BY <1>2, <1>20 DEF OwnWires
  <2>2. rx_queue[d] # << >>
    BY <1>2, <2>1
  <2>3. PICK b \in Buffers : rx_queue[d] = <<b>>
    BY <1>20, <2>2 DEF HomeInv
  <2>4. tl = << >>
    BY <1>6, <2>1, <2>3
  <2>5. HomeInv(d)'
    BY <1>1, <1>13, <1>17, <1>18, <1>20, <2>1, <2>4 DEF HomeInv, InFlight, Delivering
  <2>6. \A a \in Buffers : ~Held(d, a) /\ (Held(d, a)' <=> a = h)
    BY <1>1, <1>9, <1>18 DEF Held
  <2> QED
    BY <1>1, <1>7, <1>13, <2>1, <2>5, <2>6 DEF Kept
<1> QED
  BY <1>1, <1>18, <1>19, <1>20 DEF PathStep

\* snull_release_buffer: from the hands of a processor into the pool of the packet's device.
LEMMA ReleaseOnPath ==
  ASSUME StayInv, NEW d \in Devs, ReleaseBuffer(d)
  PROVE  PathStep(d)
<1>1. UNCHANGED <<use_napi, up, rx_queue, status, rx_int_enabled>> /\ ctx[d].pc = "release"
  BY DEF ReleaseBuffer, At, chip, link
<1>2. PICK h \in Buffers : h = ctx[d].pkt /\ Owner(h) \in {d, Twin[d]}
  BY <1>1, Contexts DEF StaysHome
<1>3. PICK e \in {d, Twin[d]} : e = Owner(h)
  BY <1>2
<1>4. e \in Devs
  BY <1>3, BufferFacts
<1>5. ppool \in [Devs -> Seq(Buffers)] /\ ppool[e] \in Seq(Buffers) /\ ListsHome
  BY <1>4 DEF StayInv, ListsHome
<1>6. PICK q \in Seq(Buffers) : q = Push(h, ppool[e])
  BY <1>5, PushFacts
<1>7. \A b : Listed(b, q) <=> b = h \/ Listed(b, ppool[e])
  BY <1>5, <1>6, PushFacts
<1>8. PICK c : c = [ctx[d] EXCEPT !.pc = "recheck"]
  OBVIOUS
<1>9. ctx' = [ctx EXCEPT ![d] = c] /\ c \in Context /\ c.pc = "recheck" /\ c.pkt = h
  BY <1>2, <1>8, Contexts DEF ReleaseBuffer, Goto, Context, Places
<1>10. ppool' = [ppool EXCEPT ![e] = q]
  BY <1>2, <1>3, <1>6 DEF ReleaseBuffer, Home
<1>11. /\ ppool' \in [Devs -> Seq(Buffers)] /\ ppool'[e] = q
       /\ \A f \in Devs : f # e => ppool'[f] = ppool[f]
  BY <1>4, <1>5, <1>10
<1>12. ListsHome'
  BY <1>1, <1>3, <1>5, <1>7, <1>11 DEF ListsHome
<1>13. StaysHome(d, c) /\ ~InFlight(c) /\ ~Delivering(c) /\ ~InFlight(ctx[d])
  BY <1>1, <1>2, <1>9 DEF StaysHome, InFlight, Delivering
<1>14. StayInv' /\ ctx'[d] = c /\ \A f \in Devs \ {d} : ctx'[f] = ctx[f]
  BY <1>1, <1>9, <1>12, <1>13, StayStep, Contexts
<1>15. \A f \in Devs \ {d, Twin[d]} : Alike(f)
  BY <1>1, <1>3, <1>11, <1>14 DEF Alike
<1>16. ASSUME d \in OwnWires, ~use_napi, HomeInv(d)
       PROVE  HomeInv(d)' /\ \A b \in Buffers : Kept(b, d) => Kept(b, d)'
  <2>1. e = d
    BY <1>3, <1>16 DEF OwnWires
  <2>2. HomeInv(d)'
    BY <1>1, <1>13, <1>14, <1>16 DEF HomeInv, InFlight, Delivering
  <2>3. \A b \in Buffers : Held(d, b) => b = h
    BY <1>2 DEF Held
  <2> QED
    BY <1>1, <1>7, <1>11, <2>1, <2>2, <2>3 DEF Kept
<1> QED
  BY <1>1, <1>14, <1>15, <1>16 DEF PathStep

\* All the steps.
LEMMA OnPath ==
  ASSUME StayInv, NEW d \in Devs, Transmit(d) \/ Interrupt(d) \/ Timeout(d)
  PROVE  PathStep(d)
BY EnterLeave, ReadDestOnPath, WriteDestOnPath, OwnInterruptOnPath, ReturnOnPath, GetOnPath,
   EnqueueOnPath, ReceiveOnPath, ReleaseOnPath, RecheckOnPath
DEF Transmit, Interrupt, Timeout

\* The driver is entered through a device that is up, and left before it goes down.
LEMMA InsideRegistered ==
  ASSUME OutsideInv, NEW d \in Devs, Transmit(d) \/ Interrupt(d) \/ Timeout(d)
  PROVE  life[d] = "registered"
<1>1. up[d] \/ ctx[d].pc # "idle"
  BY DEF Transmit, Interrupt, Timeout, Tx, GetTxBuffer, Enqueue, ReadDest, WriteDest, ReadOwn,
         WriteOwn, RegularInterrupt, NapiInterrupt, ReleaseBuffer, Recheck, WakeQueue,
         TxTimeout, TimeoutWake, At
<1> QED
  BY <1>1 DEF OutsideInv, At

\* It uses the memory of the device it was entered through and of its twin.
LEMMA UsesTwins ==
  ASSUME StayInv, NEW d \in Devs PROVE Uses(d) \subseteq {d, Twin[d]}
BY Contexts DEF Uses, StaysHome, Home

\* The data path keeps the invariant: what it leaves alone is as it was, and a device that
\* is its own wire is touched by its own processor only.
LEMMA PathKeeps ==
  ASSUME ModInv, NEW d \in Devs, DataPath(d)
  PROVE  ModInv'
<1>1. LoopInv /\ OutsideInv /\ StayInv /\ MemoryInv /\ NoUseAfterFree
  BY DEF ModInv
<1>2. /\ UNCHANGED <<life, order, stage, i, ret, torn, kmalloced, kfreed>>
      /\ misused' = misused \cup {e \in Uses(d) : life[e] = "freed"}
      /\ Transmit(d) \/ Interrupt(d) \/ Timeout(d)
  BY DEF DataPath, loader, memory
<1>3. PathStep(d) /\ life[d] = "registered"
  BY <1>1, <1>2, OnPath, InsideRegistered
<1>4. LoopInv'
  BY <1>1, <1>2 DEF LoopInv, Turn
<1>5. OutsideInv'
  BY <1>1, <1>2, <1>3 DEF OutsideInv, PathStep, At
<1>6. MemoryInv'
  <2>1. kmalloced' \subseteq Buffers /\ \A b \in kmalloced' : life'[Owner(b)] # "none"
    BY <1>1, <1>2 DEF MemoryInv
  <2>2. ASSUME ~use_napi, NEW e \in OwnWires PROVE HomeInv(e)' /\ KeptInv(e)'
    <3>1. e \in Devs /\ Twin[e] = e /\ HomeInv(e) /\ KeptInv(e)
      BY <1>1, <2>2 DEF OwnWires, MemoryInv
    <3>2. Freed(e)' <=> Freed(e)
      BY <1>2 DEF Freed
    <3>3. life'[e] = "freed" \/ (torn' /\ e = Turn') => Freed(e)'
      BY <1>2, <3>1, <3>2 DEF KeptInv, Turn
    <3>4. CASE e = d
      <4>1. HomeInv(e)' /\ \A b \in Buffers : Kept(b, e) => Kept(b, e)'
        BY <1>3, <2>2, <3>1, <3>4 DEF PathStep
      <4> QED
        BY <1>1, <1>2, <3>1, <3>3, <4>1 DEF KeptInv, MemoryInv
    <3>5. CASE e # d
      <4>1. e # Twin[d]
        BY <3>1, <3>5, BufferFacts
      <4>2. Alike(e)
        BY <1>3, <3>1, <3>5, <4>1 DEF PathStep
      <4>3. HomeInv(e)'
        BY <3>1, <4>2 DEF HomeInv, Alike, InFlight, Delivering
      <4>4. \A b \in Buffers : Kept(b, e) => Kept(b, e)'
        BY <4>2 DEF Kept, Held, Alike
      <4> QED
        BY <1>1, <1>2, <3>1, <3>3, <4>3, <4>4 DEF KeptInv, MemoryInv
    <3> QED
      BY <3>4, <3>5
  <2> QED
    BY <1>3, <2>1, <2>2 DEF MemoryInv, PathStep
<1>7. NoUseAfterFree'
  <2> SUFFICES ASSUME NEW e \in misused', e \notin misused PROVE Twin[e] # e
    BY <1>1 DEF NoUseAfterFree
  <2>1. e \in {d, Twin[d]} /\ life[e] = "freed"
    BY <1>1, <1>2, UsesTwins
  <2> QED
    BY <1>3, <2>1, BufferFacts
<1> QED
  BY <1>3, <1>4, <1>5, <1>6, <1>7 DEF ModInv, PathStep

\* A step that moves no processor and no packet.
LEMMA WireAlike ==
  ASSUME UNCHANGED <<use_napi, ctx, rx_queue, status, rx_int_enabled>>
  PROVE  \A d : /\ HomeInv(d) => HomeInv(d)'
                /\ \A b : Held(d, b)' <=> Held(d, b)
BY DEF HomeInv, InFlight, Delivering, Held

\* The administrator only says which devices are up.
LEMMA AdminKeeps ==
  ASSUME ModInv, NEW d \in Devs, AdminOf(d)
  PROVE  ModInv'
<1>1. LoopInv /\ OutsideInv /\ StayInv /\ MemoryInv /\ NoUseAfterFree
  BY DEF ModInv
<1>2. /\ UNCHANGED <<life, order, stage, i, ret, torn, kmalloced, kfreed, misused>>
      /\ UNCHANGED <<use_napi, ctx, ppool, rx_queue, status, rx_int_enabled>>
      /\ life[d] = "registered" /\ \E v \in BOOLEAN : up' = [up EXCEPT ![d] = v]
  BY DEF AdminOf, Admin, Release, Open, loader, memory, lists, chip
<1>3. LoopInv'
  BY <1>1, <1>2 DEF LoopInv, Turn
<1>4. OutsideInv'
  BY <1>1, <1>2 DEF OutsideInv, At
<1>5. StayInv'
  BY <1>1, <1>2 DEF StayInv, ListsHome, StaysHome
<1>6. MemoryInv'
  BY <1>1, <1>2, WireAlike DEF MemoryInv, KeptInv, Kept, Freed, Turn
<1>7. NoUseAfterFree'
  BY <1>1, <1>2 DEF NoUseAfterFree
<1> QED
  BY <1>3, <1>4, <1>5, <1>6, <1>7 DEF ModInv

(***************************************************************************)
(* Loading and unloading.                                                  *)
(***************************************************************************)

\* The devices of a driver and their places in its array.
LEMMA OrderFacts ==
  ASSUME LoopInv
  PROVE  /\ Len(order) \in Nat /\ Len(order) > 0 /\ i \in 1 .. Len(order)
         /\ \A k \in 1 .. Len(order) : order[k] \in Devs
         /\ Turn \in Devs
         /\ \A k, m \in 1 .. Len(order) : order[k] = order[m] => k = m
         /\ \A d \in Devs : life[d] # "none" => \E k \in 1 .. Len(order) : order[k] = d
<1>1. order \in Seq(Devs) /\ order # << >> /\ IsInjective(order)
  BY ModuleAssumption DEF LoopInv
<1>2. Len(order) \in Nat /\ DOMAIN order = 1 .. Len(order)
      /\ \A k \in 1 .. Len(order) : order[k] \in Devs
  BY <1>1, LenProperties, ElementOfSeq
<1>3. Len(order) > 0
  BY <1>1, <1>2, EmptySeq
<1>4. \A k, m \in 1 .. Len(order) : order[k] = order[m] => k = m
  BY <1>1, <1>2 DEF IsInjective
<1>5. i \in 1 .. Len(order) /\ \A d \in Devs : life[d] # "none" => d \in Range(order)
  BY DEF LoopInv
<1>6. \A d \in Range(order) : \E k \in 1 .. Len(order) : order[k] = d
  BY <1>2 DEF Range
<1> QED
  BY <1>2, <1>3, <1>4, <1>5, <1>6 DEF Turn

\* A pool of n packets.
LEMMA PoolHolds ==
  ASSUME NEW d \in Devs, NEW n \in 0 .. PoolSize
  PROVE  /\ PoolOf(d, n) \in Seq(Buffers)
         /\ \A b : Listed(b, PoolOf(d, n)) <=> \E k \in 1 .. n : b = <<d, k>>
         /\ \A k \in 1 .. n : <<d, k>> \in Buffers /\ Owner(<<d, k>>) = d
<1>1. PoolSize \in Nat /\ n \in Nat /\ n <= PoolSize
  BY SnullAssumption
<1>2. \A k \in 1 .. n : <<d, k>> \in Buffers /\ Owner(<<d, k>>) = d
  BY <1>1 DEF Buffers, Owner
<1>3. /\ DOMAIN PoolOf(d, n) = 1 .. n
      /\ \A k \in 1 .. n : PoolOf(d, n)[k] = <<d, n + 1 - k>>
      /\ PoolOf(d, n) = [k \in 1 .. n |-> PoolOf(d, n)[k]]
  BY DEF PoolOf
<1>4. \A k \in 1 .. n : n + 1 - k \in 1 .. n /\ n + 1 - (n + 1 - k) = k
  BY <1>1
<1>5. \A k \in 1 .. n : PoolOf(d, n)[k] \in Buffers
  BY <1>2, <1>3, <1>4
<1>6. PoolOf(d, n) \in Seq(Buffers)
  BY <1>1, <1>3, <1>5, IsASeq
<1>7. ASSUME NEW b, Listed(b, PoolOf(d, n)) PROVE \E k \in 1 .. n : b = <<d, k>>
  <2>1. PICK m \in 1 .. n : PoolOf(d, n)[m] = b
    BY <1>3, <1>7 DEF Listed
  <2>2. PICK k \in 1 .. n : k = n + 1 - m
    BY <1>4
  <2> QED
    BY <1>3, <2>1, <2>2
<1>8. ASSUME NEW k \in 1 .. n PROVE Listed(<<d, k>>, PoolOf(d, n))
  <2>1. PICK m \in 1 .. n : m = n + 1 - k /\ n + 1 - m = k
    BY <1>4
  <2> QED
    BY <1>3, <2>1 DEF Listed
<1> QED
  BY <1>2, <1>6, <1>7, <1>8

\* One turn of a loop of snull_init_module.
LEMMA LoadTurn ==
  ASSUME LoopInv, stage \in {"alloc", "register"}, UNCHANGED <<order, torn>>,
         life' \in [Devs -> {"none", "allocated", "registered"}],
         \A d \in Devs : d # Turn => life'[d] = life[d],
         IF LastTurn THEN stage' \in {"register", "cleanup", "loaded"} /\ i' = 1
                     ELSE stage' = stage /\ i' = i + 1
  PROVE  LoopInv'
<1>1. /\ Len(order) \in Nat /\ Len(order) > 0 /\ i \in 1 .. Len(order)
      /\ \A k \in 1 .. Len(order) : order[k] \in Devs
      /\ \A k, m \in 1 .. Len(order) : order[k] = order[m] => k = m
  BY OrderFacts
<1>2. order' = order /\ order \in Drivers /\ torn' \in BOOLEAN
  BY DEF LoopInv
<1>3. stage' \in Stages /\ stage' # "unloaded"
  BY DEF Stages
<1>4. i' \in 1 .. Len(order)
  BY <1>1 DEF LastTurn
<1>5. \A d \in Devs : life'[d] # "none" => d \in Range(order)
  <2>1. Turn \in Range(order)
    BY <1>1, <1>2, ModuleAssumption, LenProperties DEF Range, Turn
  <2> QED
    BY <2>1 DEF LoopInv
<1>6. stage' = "alloc" => \A k \in i' .. Len(order) : life'[order[k]] = "none"
  <2> SUFFICES ASSUME stage' = "alloc", NEW k \in i' .. Len(order)
               PROVE  life'[order[k]] = "none"
    OBVIOUS
  <2>1. i' = i + 1 /\ stage = "alloc"
    OBVIOUS
  <2>2. k \in 1 .. Len(order) /\ k # i /\ k \in i .. Len(order)
    BY <1>1, <2>1
  <2>3. order[k] # Turn /\ life[order[k]] = "none"
    BY <1>1, <2>1, <2>2 DEF LoopInv, Turn
  <2> QED
    BY <1>1, <2>2, <2>3
<1>7. stage' = "cleanup" => i' = 1
  OBVIOUS
<1>8. \A k \in 1 .. Len(order) : life'[order[k]] \in {"none", "allocated", "registered"}
  BY <1>1
<1>9. \A k \in 1 .. 0 : FALSE
  OBVIOUS
<1>10. stage' = "cleanup" =>
       /\ \A k \in 1 .. i' - 1 : life'[order[k]] \in {"none", "freed"}
       /\ \A k \in i' + 1 .. Len(order) : life'[order[k]] \in {"none", "allocated", "registered"}
       /\ life'[order[i']] # "freed"
  BY <1>1, <1>7, <1>8, <1>9
<1>11. ~torn' /\ (stage' = "loaded" => i' = 1)
  BY DEF LoopInv
<1> QED
  BY <1>2, <1>3, <1>4, <1>5, <1>6, <1>10, <1>11 DEF LoopInv, Lives, Turn

\* The last part of a turn of the loop of snull_cleanup.
LEMMA CleanupTurn ==
  ASSUME LoopInv, stage = "cleanup", UNCHANGED order, ~torn', torn' \in BOOLEAN,
         life' \in [Devs -> Lives], life'[Turn] \in {"none", "freed"},
         \A d \in Devs : d # Turn => life'[d] = life[d],
         IF LastTurn THEN stage' = "unloaded" /\ i' = i ELSE stage' = stage /\ i' = i + 1
  PROVE  LoopInv'
<1>1. /\ Len(order) \in Nat /\ Len(order) > 0 /\ i \in 1 .. Len(order)
      /\ \A k \in 1 .. Len(order) : order[k] \in Devs
      /\ \A k, m \in 1 .. Len(order) : order[k] = order[m] => k = m
      /\ \A d \in Devs : life[d] # "none" => \E k \in 1 .. Len(order) : order[k] = d
  BY OrderFacts
<1>2. order' = order /\ order \in Drivers
  BY DEF LoopInv
<1>3. stage' \in {"cleanup", "unloaded"} /\ stage' \in Stages
  BY DEF Stages
<1>4. i' \in 1 .. Len(order)
  BY <1>1 DEF LastTurn
<1>5. \A d \in Devs : life'[d] # "none" => d \in Range(order)
  <2>1. Turn \in Range(order)
    BY <1>1, <1>2, ModuleAssumption, LenProperties DEF Range, Turn
  <2> QED
    BY <2>1 DEF LoopInv
<1>6. \A k \in 1 .. Len(order) : k <= i => life'[order[k]] \in {"none", "freed"}
  <2> SUFFICES ASSUME NEW k \in 1 .. Len(order), k <= i
               PROVE  life'[order[k]] \in {"none", "freed"}
    OBVIOUS
  <2>1. CASE k = i
    BY <2>1 DEF Turn
  <2>2. CASE k # i
    <3>1. order[k] # Turn /\ k \in 1 .. i - 1
      BY <1>1, <2>2 DEF Turn
    <3> QED
      BY <1>1, <3>1 DEF LoopInv
  <2> QED
    BY <2>1, <2>2
<1>7. \A k \in 1 .. Len(order) : k > i =>
        life'[order[k]] \in {"none", "allocated", "registered"}
  <2> SUFFICES ASSUME NEW k \in 1 .. Len(order), k > i
               PROVE  life'[order[k]] \in {"none", "allocated", "registered"}
    OBVIOUS
  <2>1. order[k] # Turn /\ k \in i + 1 .. Len(order)
    BY <1>1 DEF Turn
  <2> QED
    BY <1>1, <2>1 DEF LoopInv
<1>8. stage' = "cleanup" =>
       /\ \A k \in 1 .. i' - 1 : life'[order[k]] \in {"none", "freed"}
       /\ \A k \in i' + 1 .. Len(order) : life'[order[k]] \in {"none", "allocated", "registered"}
       /\ life'[order[i']] # "freed"
  <2> SUFFICES ASSUME stage' = "cleanup"
               PROVE  /\ \A k \in 1 .. i' - 1 : life'[order[k]] \in {"none", "freed"}
                      /\ \A k \in i' + 1 .. Len(order) :
                           life'[order[k]] \in {"none", "allocated", "registered"}
                      /\ life'[order[i']] # "freed"
    OBVIOUS
  <2>1. i' = i + 1
    OBVIOUS
  <2>2. \A k \in 1 .. i' - 1 : k \in 1 .. Len(order) /\ k <= i
    BY <1>1, <1>4, <2>1
  <2>3. \A k \in i' .. Len(order) : k \in 1 .. Len(order) /\ k > i
    BY <1>1, <1>4, <2>1
  <2>4. i' \in i' .. Len(order) /\ \A k \in i' + 1 .. Len(order) : k \in i' .. Len(order)
    BY <1>1, <1>4
  <2>5. life'[order[i']] \in {"none", "allocated", "registered"}
    BY <1>7, <2>3, <2>4
  <2> QED
    BY <1>6, <1>7, <2>2, <2>3, <2>4, <2>5
<1>9. stage' = "unloaded" => \A d \in Devs : life'[d] \in {"none", "freed"}
  <2> SUFFICES ASSUME stage' = "unloaded", NEW d \in Devs, life'[d] # "none"
               PROVE  life'[d] = "freed"
    OBVIOUS
  <2>1. i = Len(order)
    BY DEF LastTurn
  <2>2. PICK k \in 1 .. Len(order) : order[k] = d
    BY <1>1 DEF Turn
  <2> QED
    BY <1>1, <1>6, <2>1, <2>2
<1> QED
  BY <1>2, <1>3, <1>4, <1>5, <1>8, <1>9 DEF LoopInv, Turn

\* The other parts of that turn.
LEMMA CleanupStays ==
  ASSUME LoopInv, stage = "cleanup", UNCHANGED <<order, stage, i>>, torn' \in BOOLEAN,
         life' = [life EXCEPT ![Turn] = "gone"]
  PROVE  LoopInv'
<1>1. /\ Len(order) \in Nat /\ i \in 1 .. Len(order)
      /\ \A k \in 1 .. Len(order) : order[k] \in Devs
      /\ \A k, m \in 1 .. Len(order) : order[k] = order[m] => k = m
  BY OrderFacts
<1>2. /\ life' \in [Devs -> Lives] /\ life'[Turn] = "gone"
      /\ \A d \in Devs : d # Turn => life'[d] = life[d]
  BY OrderFacts DEF LoopInv, Lives
<1>3. \A d \in Devs : life'[d] # "none" => d \in Range(order)
  <2>1. Turn \in Range(order)
    BY <1>1, ModuleAssumption, LenProperties DEF Range, Turn, LoopInv
  <2> QED
    BY <1>2, <2>1 DEF LoopInv
<1>4. \A k \in 1 .. Len(order) : k # i => life'[order[k]] = life[order[k]]
  BY <1>1, <1>2 DEF Turn
<1>5. \A k \in 1 .. i - 1 : k \in 1 .. Len(order) /\ k # i
  BY <1>1
<1>6. \A k \in i + 1 .. Len(order) : k \in 1 .. Len(order) /\ k # i
  BY <1>1
<1> QED
  BY <1>2, <1>3, <1>4, <1>5, <1>6 DEF LoopInv, Turn

\* A step of the module that moves no packet.
LEMMA MemoryKept ==
  ASSUME ModInv,
         UNCHANGED <<use_napi, ctx, ppool, rx_queue, status, rx_int_enabled, kmalloced, kfreed,
                     misused>>,
         \A d \in Devs : life[d] # "none" => life'[d] # "none",
         \A d \in Devs : life'[d] = "freed" \/ (torn' /\ d = Turn') =>
                           life[d] = "freed" \/ (torn /\ d = Turn)
  PROVE  StayInv' /\ MemoryInv' /\ NoUseAfterFree'
<1>1. StayInv /\ MemoryInv /\ NoUseAfterFree
  BY DEF ModInv
<1>2. StayInv'
  BY <1>1 DEF StayInv, ListsHome, StaysHome
<1>3. NoUseAfterFree'
  BY <1>1 DEF NoUseAfterFree
<1>4. kmalloced' \subseteq Buffers /\ \A b \in kmalloced' : life'[Owner(b)] # "none"
  BY <1>1, BufferFacts DEF MemoryInv
<1>5. ASSUME ~use_napi, NEW d \in OwnWires PROVE HomeInv(d)' /\ KeptInv(d)'
  <2>1. d \in Devs /\ HomeInv(d) /\ KeptInv(d)
    BY <1>1, <1>5 DEF MemoryInv, OwnWires
  <2>2. HomeInv(d)' /\ \A b : Kept(b, d)' <=> Kept(b, d)
    BY <2>1, WireAlike DEF Kept
  <2>3. Freed(d)' <=> Freed(d)
    BY DEF Freed
  <2> QED
    BY <2>1, <2>2, <2>3 DEF KeptInv
<1>6. MemoryInv'
  BY <1>4, <1>5 DEF MemoryInv
<1> QED
  BY <1>2, <1>3, <1>6

\* alloc_netdev and the packets of the device.
LEMMA AllocKeeps ==
  ASSUME ModInv, NEW n \in 0 .. PoolSize, AllocDevice(n), AfterAlloc
  PROVE  ModInv'
<1>1. LoopInv /\ OutsideInv /\ StayInv /\ MemoryInv /\ NoUseAfterFree
  BY DEF ModInv
<1>2. Turn \in Devs /\ i \in 1 .. Len(order) /\ Len(order) \in Nat
  BY <1>1, OrderFacts
<1>3. /\ stage = "alloc" /\ UNCHANGED <<order, torn, kfreed, misused>>
      /\ UNCHANGED <<use_napi, up, ctx, rx_queue, status, rx_int_enabled>>
      /\ life' = [life EXCEPT ![Turn] = "allocated"]
      /\ ppool' = [ppool EXCEPT ![Turn] = PoolOf(Turn, n)]
      /\ kmalloced' = kmalloced \cup {<<Turn, p>> : p \in 1 .. n}
  BY DEF AllocDevice, Path, link, chip
<1>4. life[Turn] = "none" /\ ~torn
  BY <1>1, <1>2, <1>3 DEF LoopInv, Turn
<1>5. /\ life' \in [Devs -> {"none", "allocated", "registered"}] /\ life'[Turn] = "allocated"
      /\ \A d \in Devs : d # Turn => life'[d] = life[d]
  BY <1>1, <1>2, <1>3 DEF LoopInv
<1>6. LoopInv'
  <2>1. IF LastTurn THEN stage' \in {"register", "cleanup", "loaded"} /\ i' = 1
                    ELSE stage' = stage /\ i' = i + 1
    BY DEF AfterAlloc
  <2> QED
    BY <1>1, <1>3, <1>5, <2>1, LoadTurn
<1>7. OutsideInv'
  BY <1>1, <1>3, <1>4, <1>5 DEF OutsideInv, At
<1>8. PICK q \in Seq(Buffers) : q = PoolOf(Turn, n)
  BY <1>2, PoolHolds
<1>9. /\ \A b : Listed(b, q) <=> \E k \in 1 .. n : b = <<Turn, k>>
      /\ \A k \in 1 .. n : <<Turn, k>> \in Buffers /\ Owner(<<Turn, k>>) = Turn
  BY <1>2, <1>8, PoolHolds
<1>10. ppool \in [Devs -> Seq(Buffers)] /\ ListsHome
  BY <1>1 DEF StayInv, ListsHome
<1>11. /\ ppool' \in [Devs -> Seq(Buffers)] /\ ppool'[Turn] = q
       /\ \A d \in Devs : d # Turn => ppool'[d] = ppool[d]
  BY <1>2, <1>3, <1>8, <1>10
<1>12. ListsHome'
  <2>1. ASSUME NEW d \in Devs, NEW b \in Buffers, Listed(b, ppool'[d]) PROVE Owner(b) = d
    <3>1. CASE d = Turn
      BY <1>9, <1>11, <2>1, <3>1
    <3>2. CASE d # Turn
      BY <1>10, <1>11, <2>1, <3>2 DEF ListsHome
    <3> QED
      BY <3>1, <3>2
  <2> QED
    BY <1>3, <1>10, <1>11, <2>1 DEF ListsHome
<1>13. StayInv'
  BY <1>1, <1>3, <1>12 DEF StayInv, StaysHome
<1>14. \A b \in kmalloced' : b \in kmalloced \/ \E k \in 1 .. n : b = <<Turn, k>>
  BY <1>3
<1>15. kmalloced' \subseteq Buffers /\ \A b \in kmalloced' : life'[Owner(b)] # "none"
  <2>1. ASSUME NEW b \in kmalloced' PROVE b \in Buffers /\ life'[Owner(b)] # "none"
    <3>1. CASE b \in kmalloced
      BY <1>1, <1>5, <3>1, BufferFacts DEF MemoryInv
    <3>2. CASE b \notin kmalloced
      BY <1>5, <1>9, <1>14, <3>2
    <3> QED
      BY <3>1, <3>2
  <2> QED
    BY <2>1
<1>16. ASSUME ~use_napi, NEW d \in OwnWires PROVE HomeInv(d)' /\ KeptInv(d)'
  <2>1. d \in Devs /\ HomeInv(d) /\ KeptInv(d)
    BY <1>1, <1>16 DEF MemoryInv, OwnWires
  <2>2. HomeInv(d)' /\ \A b : Held(d, b)' <=> Held(d, b)
    BY <1>3, <2>1, WireAlike
  <2>3. ~(life'[d] = "freed" \/ (torn' /\ d = Turn'))
    BY <1>3, <1>4, <1>5, <2>1
  <2>4. ASSUME NEW b \in kmalloced', Owner(b) = d, b \notin kfreed' PROVE Kept(b, d)'
    <3>1. CASE d = Turn
      <4>1. b \notin kmalloced
        BY <1>1, <1>4, <2>4, <3>1 DEF MemoryInv
      <4> QED
        BY <1>9, <1>11, <1>14, <3>1, <4>1 DEF Kept
    <3>2. CASE d # Turn
      <4>1. b \in kmalloced
        BY <1>9, <1>14, <2>4, <3>2
      <4>2. Kept(b, d)
        BY <1>3, <2>1, <2>4, <4>1 DEF KeptInv
      <4> QED
        BY <1>3, <1>11, <2>1, <2>2, <3>2, <4>2 DEF Kept
    <3> QED
      BY <3>1, <3>2
  <2> QED
    BY <2>2, <2>3, <2>4 DEF KeptInv
<1>17. MemoryInv'
  BY <1>3, <1>15, <1>16 DEF MemoryInv
<1>18. NoUseAfterFree'
  BY <1>1, <1>3 DEF NoUseAfterFree
<1> QED
  BY <1>6, <1>7, <1>13, <1>17, <1>18 DEF ModInv

\* The rest of snull_init_module.
LEMMA LoadKeeps ==
  ASSUME ModInv, (AllocFails /\ AfterAlloc) \/ ((Register \/ RegisterFails) /\ AfterRegister)
  PROVE  ModInv'
<1>1. LoopInv /\ OutsideInv
  BY DEF ModInv
<1>2. Turn \in Devs /\ i \in 1 .. Len(order) /\ Len(order) \in Nat
  BY <1>1, OrderFacts
<1>3. /\ stage \in {"alloc", "register"} /\ UNCHANGED <<vars, order, torn, memory, misused>>
      /\ UNCHANGED life \/ life' = [life EXCEPT ![Turn] = "registered"]
  BY DEF AllocFails, Register, RegisterFails
<1>4. /\ life \in [Devs -> {"none", "allocated", "registered"}] /\ ~torn
  BY <1>1, <1>3 DEF LoopInv
<1>5. /\ life' \in [Devs -> {"none", "allocated", "registered"}]
      /\ \A d \in Devs : d # Turn => life'[d] = life[d]
      /\ life'[Turn] \in {life[Turn], "registered"}
  BY <1>2, <1>3, <1>4
<1>6. LoopInv'
  <2>1. IF LastTurn THEN stage' \in {"register", "cleanup", "loaded"} /\ i' = 1
                    ELSE stage' = stage /\ i' = i + 1
    BY DEF AfterAlloc, AfterRegister
  <2> QED
    BY <1>1, <1>3, <1>5, <2>1, LoadTurn
<1>7. OutsideInv'
  BY <1>1, <1>3, <1>5 DEF OutsideInv, At, vars, link
<1>8. UNCHANGED <<use_napi, ctx, ppool, rx_queue, status, rx_int_enabled, kmalloced, kfreed,
                  misused>>
  BY <1>3 DEF vars, lists, chip, memory
<1>9. StayInv' /\ MemoryInv' /\ NoUseAfterFree'
  BY <1>2, <1>3, <1>4, <1>5, <1>8, MemoryKept
<1> QED
  BY <1>6, <1>7, <1>9 DEF ModInv

\* snull_cleanup begins, passes a missing device, unregisters one, or frees one.
LEMMA CleanupKeeps ==
  ASSUME ModInv, Rmmod \/ CleanupNull \/ Unregister \/ FreeNetdev
  PROVE  ModInv'
<1>1. LoopInv /\ OutsideInv
  BY DEF ModInv
<1>2. Turn \in Devs /\ i \in 1 .. Len(order) /\ Len(order) \in Nat
  BY <1>1, OrderFacts
<1>3. life \in [Devs -> Lives] /\ torn \in BOOLEAN /\ (torn => stage = "cleanup")
  BY <1>1 DEF LoopInv
<1>4. /\ UNCHANGED <<order, use_napi, ctx, ppool, rx_queue, status, rx_int_enabled>>
      /\ UNCHANGED <<kmalloced, kfreed, misused>>
  BY DEF Rmmod, CleanupNull, Unregister, FreeNetdev, vars, lists, chip, Path, memory, loader
<1>5. CASE Rmmod
  <2>1. /\ stage = "loaded" /\ stage' = "cleanup" /\ UNCHANGED <<life, i, torn, up>>
    BY <1>5 DEF Rmmod, vars, link
  <2>2. i = 1 /\ ~torn /\ \A d \in Devs : life[d] \in {"none", "allocated", "registered"}
    BY <1>1, <2>1 DEF LoopInv
  <2>3. \A k \in 1 .. Len(order) : order[k] \in Devs
    BY <1>1, OrderFacts
  <2>4. \A k \in 1 .. i - 1 : FALSE
    BY <2>2
  <2>5. \A k \in i + 1 .. Len(order) : k \in 1 .. Len(order)
    BY <1>2
  <2>6. LoopInv'
    BY <1>1, <1>2, <1>4, <2>1, <2>2, <2>3, <2>4, <2>5 DEF LoopInv, Stages, Turn
  <2>7. OutsideInv'
    BY <1>1, <1>4, <2>1 DEF OutsideInv, At
  <2>8. StayInv' /\ MemoryInv' /\ NoUseAfterFree'
    BY <1>4, <2>1, <2>2, MemoryKept
  <2> QED
    BY <2>6, <2>7, <2>8 DEF ModInv
<1>6. CASE CleanupNull
  <2>1. /\ stage = "cleanup" /\ life[Turn] = "none" /\ UNCHANGED <<life, torn, up>>
        /\ IF LastTurn THEN stage' = "unloaded" /\ i' = i ELSE stage' = stage /\ i' = i + 1
    BY <1>6 DEF CleanupNull, link
  <2>2. ~torn /\ torn' \in BOOLEAN
    BY <1>1, <2>1 DEF LoopInv
  <2>3. LoopInv'
    BY <1>1, <1>3, <1>4, <2>1, <2>2, CleanupTurn
  <2>4. OutsideInv'
    BY <1>1, <1>4, <2>1 DEF OutsideInv, At
  <2>5. StayInv' /\ MemoryInv' /\ NoUseAfterFree'
    BY <1>4, <2>1, <2>2, MemoryKept
  <2> QED
    BY <2>3, <2>4, <2>5 DEF ModInv
<1>7. CASE Unregister
  <2>1. /\ stage = "cleanup" /\ life[Turn] \in {"allocated", "registered"} /\ At(Turn, "idle")
        /\ life' = [life EXCEPT ![Turn] = "gone"] /\ up' = [up EXCEPT ![Turn] = FALSE]
        /\ UNCHANGED <<stage, i, torn>>
    BY <1>7 DEF Unregister, loader
  <2>2. LoopInv'
    BY <1>1, <1>3, <1>4, <2>1, CleanupStays
  <2>3. /\ life'[Turn] = "gone" /\ \A d \in Devs : d # Turn => life'[d] = life[d]
    BY <1>2, <1>3, <2>1
  <2>4. OutsideInv'
    <3>1. /\ up' \in [Devs -> BOOLEAN] /\ ~up'[Turn]
          /\ \A d \in Devs : d # Turn => up'[d] = up[d]
      BY <1>1, <1>2, <2>1 DEF OutsideInv
    <3> QED
      BY <1>1, <1>4, <2>1, <2>3, <3>1 DEF OutsideInv, At
  <2>5. StayInv' /\ MemoryInv' /\ NoUseAfterFree'
    BY <1>2, <1>4, <2>1, <2>3, MemoryKept DEF Turn
  <2> QED
    BY <2>2, <2>4, <2>5 DEF ModInv
<1>8. CASE FreeNetdev
  <2>1. /\ torn /\ torn' = FALSE /\ life' = [life EXCEPT ![Turn] = "freed"]
        /\ UNCHANGED up
        /\ IF LastTurn THEN stage' = "unloaded" /\ i' = i ELSE stage' = stage /\ i' = i + 1
    BY <1>8 DEF FreeNetdev, vars, link
  <2>2. stage = "cleanup" /\ life[Turn] = "gone"
    BY <1>1, <2>1 DEF LoopInv
  <2>3. /\ life' \in [Devs -> Lives] /\ life'[Turn] = "freed"
        /\ \A d \in Devs : d # Turn => life'[d] = life[d]
    BY <1>2, <1>3, <2>1 DEF Lives
  <2>4. LoopInv'
    BY <1>1, <1>4, <2>1, <2>2, <2>3, CleanupTurn
  <2>5. OutsideInv'
    BY <1>1, <1>2, <1>4, <2>1, <2>2, <2>3 DEF OutsideInv, At
  <2>6. StayInv' /\ MemoryInv' /\ NoUseAfterFree'
    BY <1>2, <1>4, <2>1, <2>2, <2>3, MemoryKept
  <2> QED
    BY <2>4, <2>5, <2>6 DEF ModInv
<1> QED
  BY <1>5, <1>6, <1>7, <1>8

\* snull_teardown_pool finds every packet of a device that is its own wire in the pool:
\* the device was closed, so nothing is on its way through it.
LEMMA TeardownKeeps ==
  ASSUME ModInv, TeardownPool
  PROVE  ModInv'
<1>1. LoopInv /\ OutsideInv /\ StayInv /\ MemoryInv /\ NoUseAfterFree
  BY DEF ModInv
<1>2. Turn \in Devs
  BY <1>1, OrderFacts
<1>3. /\ stage = "cleanup" /\ life[Turn] = "gone" /\ ~torn /\ torn' = TRUE
      /\ kfreed' = kfreed \cup {ppool[Turn][p] : p \in DOMAIN ppool[Turn]}
      /\ ppool' = [ppool EXCEPT ![Turn] = << >>]
      /\ UNCHANGED <<use_napi, up, ctx, rx_queue, status, rx_int_enabled>>
      /\ UNCHANGED <<life, order, stage, i, kmalloced, misused>>
  BY DEF TeardownPool, Path, chip, link
<1>4. LoopInv'
  <2>1. life' = [life EXCEPT ![Turn] = "gone"] /\ torn' \in BOOLEAN
    BY <1>1, <1>2, <1>3 DEF LoopInv
  <2> QED
    BY <1>1, <1>3, <2>1, CleanupStays
<1>5. OutsideInv' /\ NoUseAfterFree'
  BY <1>1, <1>3 DEF OutsideInv, At, NoUseAfterFree
<1>6. ppool \in [Devs -> Seq(Buffers)] /\ ListsHome
  BY <1>1 DEF StayInv, ListsHome
<1>7. /\ ppool' \in [Devs -> Seq(Buffers)] /\ ppool'[Turn] = << >>
      /\ \A d \in Devs : d # Turn => ppool'[d] = ppool[d]
  BY <1>2, <1>3, <1>6
<1>8. \A b : ~Listed(b, << >>)
  BY DEF Listed
<1>9. StayInv'
  <2>1. ListsHome'
    BY <1>3, <1>6, <1>7, <1>8 DEF ListsHome
  <2> QED
    BY <1>1, <1>3, <2>1 DEF StayInv, StaysHome
<1>10. \A b : b \in kfreed' <=> b \in kfreed \/ Listed(b, ppool[Turn])
  BY <1>3 DEF Listed
<1>11. ASSUME ~use_napi, NEW d \in OwnWires PROVE HomeInv(d)' /\ KeptInv(d)'
  <2>1. d \in Devs /\ HomeInv(d) /\ KeptInv(d)
    BY <1>1, <1>11 DEF MemoryInv, OwnWires
  <2>2. HomeInv(d)' /\ \A b : Held(d, b)' <=> Held(d, b)
    BY <1>3, <2>1, WireAlike
  <2>3. CASE d = Turn
    <3>1. ctx[d].pc = "idle"
      BY <1>1, <1>2, <1>3, <2>3 DEF OutsideInv, At
    <3>2. rx_queue[d] = << >> /\ \A b : ~Held(d, b)
      BY <2>1, <3>1 DEF HomeInv, InFlight, Delivering, Held
    <3>3. \A b \in kmalloced : Owner(b) = d => b \in kfreed'
      BY <1>8, <1>10, <2>1, <2>3, <3>2 DEF KeptInv, Kept
    <3>4. Freed(d)'
      BY <1>3, <3>3 DEF Freed
    <3> QED
      BY <1>3, <2>2, <3>3, <3>4 DEF KeptInv
  <2>4. CASE d # Turn
    <3>1. \A b : Kept(b, d)' <=> Kept(b, d)
      BY <1>3, <1>7, <2>1, <2>2, <2>4 DEF Kept
    <3>2. life[d] = "freed" => Freed(d)'
      BY <1>3, <1>10, <2>1 DEF KeptInv, Freed
    <3>3. Turn' = Turn
      BY <1>3 DEF Turn
    <3> QED
      BY <1>3, <1>10, <2>1, <2>2, <2>4, <3>1, <3>2, <3>3 DEF KeptInv
  <2> QED
    BY <2>3, <2>4
<1>12. MemoryInv'
  BY <1>1, <1>3, <1>11 DEF MemoryInv
<1> QED
  BY <1>4, <1>5, <1>9, <1>12 DEF ModInv

\* The invariant holds at the start, ...
LEMMA ModInitInv == ModInit => ModInv
<1> SUFFICES ASSUME ModInit PROVE ModInv
  OBVIOUS
<1>1. /\ life = [d \in Devs |-> "none"] /\ order \in Drivers /\ stage = "alloc" /\ i = 1
      /\ torn = FALSE /\ kmalloced = {} /\ misused = {}
      /\ up = [d \in Devs |-> FALSE] /\ ppool = [d \in Devs |-> << >>]
      /\ ctx = [d \in Devs |-> Idle] /\ rx_queue = [d \in Devs |-> << >>]
      /\ status = [d \in Devs |-> {}] /\ rx_int_enabled = [d \in Devs |-> TRUE]
  BY DEF ModInit, Quiet
<1>2. /\ order \in Seq(Devs) /\ Len(order) \in Nat /\ Len(order) > 0
      /\ \A k \in 1 .. Len(order) : order[k] \in Devs
  <2>1. order \in Seq(Devs) /\ order # << >>
    BY <1>1, ModuleAssumption
  <2> QED
    BY <2>1, EmptySeq, LenProperties, ElementOfSeq
<1>3. LoopInv
  <2>1. i \in 1 .. Len(order) /\ \A k \in i .. Len(order) : k \in 1 .. Len(order)
    BY <1>1, <1>2
  <2>2. life \in [Devs -> Lives] /\ \A d \in Devs : life[d] = "none"
    BY <1>1 DEF Lives
  <2>3. stage = "alloc" /\ stage \in Stages /\ torn = FALSE /\ order \in Drivers
    BY <1>1 DEF Stages
  <2>4. \A k \in i .. Len(order) : life[order[k]] = "none"
    BY <1>2, <2>1, <2>2
  <2> QED
    BY <2>1, <2>2, <2>3, <2>4 DEF LoopInv
<1>4. Idle \in Context /\ Idle.pc = "idle"
  BY DEF Idle, Context, Places
<1>5. OutsideInv
  BY <1>1, <1>4 DEF OutsideInv, At
<1>6. << >> \in Seq(Buffers) /\ \A b : ~Listed(b, << >>)
  BY DEF Listed
<1>7. StayInv
  BY <1>1, <1>4, <1>6 DEF StayInv, ListsHome, StaysHome
<1>8. MemoryInv
  BY <1>1, <1>4 DEF MemoryInv, HomeInv, KeptInv, Freed, OwnWires, InFlight, Delivering
<1>9. NoUseAfterFree
  BY <1>1 DEF NoUseAfterFree
<1> QED
  BY <1>3, <1>5, <1>7, <1>8, <1>9 DEF ModInv

\* ... every step keeps it, ...
LEMMA ModNextInv == ModInv /\ [ModNext]_modVars => ModInv'
<1> SUFFICES ASSUME ModInv, [ModNext]_modVars PROVE ModInv'
  OBVIOUS
<1>1. CASE UNCHANGED modVars
  <2>1. UNCHANGED <<order, stage, i, torn, life, up, use_napi, ctx, ppool, rx_queue>>
    BY <1>1 DEF modVars, vars, loader, link, lists
  <2>2. UNCHANGED <<status, rx_int_enabled, kmalloced, kfreed, misused>>
    BY <1>1 DEF modVars, vars, chip, memory
  <2>3. LoopInv' /\ OutsideInv'
    BY <2>1 DEF ModInv, LoopInv, OutsideInv, Turn, At
  <2>4. StayInv' /\ MemoryInv' /\ NoUseAfterFree'
    BY <2>1, <2>2, MemoryKept DEF Turn
  <2> QED
    BY <2>3, <2>4 DEF ModInv
<1>2. CASE Load
  BY <1>2, AllocKeeps, LoadKeeps DEF Load
<1>3. CASE Rmmod \/ Unload
  BY <1>3, CleanupKeeps, TeardownKeeps DEF Unload
<1>4. CASE \E d \in Devs : DataPath(d) \/ AdminOf(d)
  BY <1>4, PathKeeps, AdminKeeps
<1> QED
  BY <1>1, <1>2, <1>3, <1>4 DEF ModNext

\* ... and so it holds for ever.
LEMMA ModInvariance == ModSpec => []ModInv
<1>1. ModInit => ModInv
  BY ModInitInv
<1>2. ModInv /\ [ModNext]_modVars => ModInv'
  BY ModNextInv
<1> QED
  BY <1>1, <1>2, PTL DEF ModSpec

\* Whatever is being sent when rmmod comes, and whatever insmod could not allocate or
\* register: a device that is its own wire is not touched after snull_cleanup has freed it.
\* unregister_netdev has waited for the packet in hand, and no other device leads there.
THEOREM OwnWireNotMisused == ModSpec => []NoUseAfterFree
<1>1. ModInv => NoUseAfterFree
  BY DEF ModInv
<1> QED
  BY <1>1, ModInvariance, PTL

\* With the regular handler snull_cleanup gives back every packet that was allocated for
\* such a device, although snull_teardown_pool only looks into the pool.  (The polling
\* handler leaves packets on the receive queue, which nobody frees.)
THEOREM OwnWireAllFreed == ModSpec => [](~use_napi => AllPacketsFreed)
<1>1. ModInv => (~use_napi => AllPacketsFreed)
  <2> SUFFICES ASSUME ModInv, ~use_napi, stage = "unloaded",
                      NEW b \in kmalloced, Twin[Owner(b)] = Owner(b)
               PROVE  b \in kfreed
    BY DEF AllPacketsFreed
  <2>1. Owner(b) \in Devs /\ life[Owner(b)] # "none"
    BY BufferFacts DEF ModInv, MemoryInv
  <2>2. life[Owner(b)] = "freed"
    BY <2>1 DEF ModInv, LoopInv
  <2>3. KeptInv(Owner(b))
    BY <2>1 DEF ModInv, MemoryInv, OwnWires
  <2> QED
    BY <2>2, <2>3 DEF KeptInv, Freed
<1> QED
  BY <1>1, ModInvariance, PTL

=============================================================================

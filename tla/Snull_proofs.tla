---------------------------- MODULE Snull_proofs ----------------------------
(***************************************************************************)
(* Theorems about the memory-backed drivers for any devices, any size of   *)
(* pool and any interleaving of the processors.                            *)
(***************************************************************************)
EXTENDS Snull, SequenceTheorems, FiniteSetTheorems, TLAPS

Listed(b, list) == \E i \in DOMAIN list : list[i] = b
Distinct(list)  == \A i, j \in DOMAIN list : list[i] = list[j] => i = j

(***************************************************************************)
(* What the two operations on lists do.                                    *)
(***************************************************************************)

\* A packet that was not on the list and is pushed is on it, once.
LEMMA PushFacts ==
  ASSUME NEW S, NEW b \in S, NEW list \in Seq(S)
  PROVE  /\ Push(b, list) \in Seq(S)
         /\ \A c : Listed(c, Push(b, list)) <=> c = b \/ Listed(c, list)
         /\ Distinct(list) /\ ~Listed(b, list) => Distinct(Push(b, list))
<1>1. <<b>> \in Seq(S) /\ Len(<<b>>) = 1 /\ <<b>>[1] = b
  OBVIOUS
<1>2. /\ Push(b, list) \in Seq(S)
      /\ Len(Push(b, list)) = 1 + Len(list)
      /\ \A i \in 1 .. 1 + Len(list) :
           Push(b, list)[i] = IF i <= 1 THEN <<b>>[i] ELSE list[i - 1]
  BY <1>1, ConcatProperties DEF Push
<1>3. Len(list) \in Nat /\ DOMAIN list = 1 .. Len(list)
      /\ DOMAIN Push(b, list) = 1 .. 1 + Len(list)
  BY <1>2, LenProperties
<1>4. Push(b, list)[1] = b /\ \A i \in 1 .. Len(list) : Push(b, list)[i + 1] = list[i]
  BY <1>1, <1>2, <1>3
<1>5. \A i \in 2 .. 1 + Len(list) : i - 1 \in 1 .. Len(list) /\ Push(b, list)[i] = list[i - 1]
  BY <1>2, <1>3
<1>6. ASSUME NEW c PROVE Listed(c, Push(b, list)) <=> c = b \/ Listed(c, list)
  <2>1. Listed(c, Push(b, list)) => c = b \/ Listed(c, list)
    BY <1>3, <1>4, <1>5 DEF Listed
  <2>2. Listed(c, list) => Listed(c, Push(b, list))
    BY <1>3, <1>4 DEF Listed
  <2>3. Listed(b, Push(b, list))
    BY <1>3, <1>4 DEF Listed
  <2> QED
    BY <2>1, <2>2, <2>3
<1>7. Distinct(list) /\ ~Listed(b, list) => Distinct(Push(b, list))
  <2> SUFFICES ASSUME Distinct(list), ~Listed(b, list),
                      NEW i \in DOMAIN Push(b, list), NEW j \in DOMAIN Push(b, list),
                      Push(b, list)[i] = Push(b, list)[j]
               PROVE  i = j
    BY DEF Distinct
  <2>1. \A k \in 2 .. 1 + Len(list) : Push(b, list)[k] # b
    BY <1>3, <1>5 DEF Listed
  <2>2. CASE i = 1 \/ j = 1
    BY <2>1, <2>2, <1>3, <1>4
  <2>3. CASE i # 1 /\ j # 1
    <3>1. i - 1 \in DOMAIN list /\ j - 1 \in DOMAIN list /\ list[i - 1] = list[j - 1]
      BY <2>3, <1>3, <1>5
    <3> QED
      BY <3>1, <2>3, <1>3 DEF Distinct
  <2> QED
    BY <2>2, <2>3
<1>8. \A c : Listed(c, Push(b, list)) <=> c = b \/ Listed(c, list)
  BY <1>6
<1> QED
  BY <1>2, <1>7, <1>8

\* Taking the head of a list on which every packet is once takes it off the list.
LEMMA TailFacts ==
  ASSUME NEW S, NEW list \in Seq(S), list # << >>
  PROVE  /\ Head(list) \in S /\ Listed(Head(list), list)
         /\ Tail(list) \in Seq(S)
         /\ Distinct(list) =>
              /\ Distinct(Tail(list))
              /\ \A c : Listed(c, Tail(list)) <=> Listed(c, list) /\ c # Head(list)
<1>1. /\ Len(list) \in Nat /\ Len(list) > 0 /\ DOMAIN list = 1 .. Len(list)
      /\ Head(list) = list[1] /\ Head(list) \in S
  BY LenProperties, EmptySeq, HeadTailProperties
<1>2. /\ Tail(list) \in Seq(S) /\ Len(Tail(list)) = Len(list) - 1
      /\ \A i \in 1 .. Len(Tail(list)) : Tail(list)[i] = list[i + 1]
  BY HeadTailProperties
<1>3. DOMAIN Tail(list) = 1 .. Len(list) - 1
  BY <1>2, LenProperties
<1>4. Listed(Head(list), list)
  BY <1>1 DEF Listed
<1>5. ASSUME Distinct(list) PROVE Distinct(Tail(list))
  BY <1>1, <1>2, <1>3, <1>5 DEF Distinct
<1>6. ASSUME Distinct(list), NEW c
      PROVE  Listed(c, Tail(list)) <=> Listed(c, list) /\ c # Head(list)
  <2>1. ASSUME NEW i \in DOMAIN list, i # 1 PROVE i - 1 \in DOMAIN Tail(list) /\ Tail(list)[i - 1] = list[i]
    BY <1>1, <1>2, <1>3, <2>1
  <2>2. Listed(c, list) /\ c # Head(list) => Listed(c, Tail(list))
    BY <1>1, <2>1 DEF Listed
  <2>3. ASSUME NEW i \in DOMAIN Tail(list) PROVE i + 1 \in DOMAIN list /\ i + 1 # 1 /\ Tail(list)[i] = list[i + 1]
    BY <1>1, <1>2, <1>3
  <2>4. Listed(c, Tail(list)) => Listed(c, list) /\ c # Head(list)
    BY <1>1, <1>6, <2>3 DEF Listed, Distinct
  <2> QED
    BY <2>2, <2>4
<1> QED
  BY <1>1, <1>2, <1>4, <1>5, <1>6

\* On a list without repetitions a packet counts once or not at all.
LEMMA CountFacts ==
  ASSUME NEW b, NEW list, Distinct(list)
  PROVE  Count(b, list) = IF Listed(b, list) THEN 1 ELSE 0
<1>1. CASE Listed(b, list)
  <2>1. PICK i \in DOMAIN list : list[i] = b
    BY <1>1 DEF Listed
  <2>2. {j \in DOMAIN list : list[j] = b} = {i}
    BY <2>1 DEF Distinct
  <2> QED
    BY <1>1, <2>2, FS_Singleton DEF Count
<1>2. CASE ~Listed(b, list)
  <2>1. {j \in DOMAIN list : list[j] = b} = {}
    BY <1>2 DEF Listed
  <2> QED
    BY <1>2, <2>1, FS_EmptySet DEF Count
<1> QED
  BY <1>1, <1>2

(***************************************************************************)
(* The inductive invariant: Conserved without the counting, and where the  *)
(* processors can be.                                                      *)
(***************************************************************************)

Places == {"idle", "get", "enqueue", "read dest", "write dest", "interrupt", "read own",
           "write own", "release", "recheck", "wake", "restart", "dead"}
Context ==
  [pc : Places, on : Devs \cup {NULL}, word : SUBSET {"RX", "TX"},
   pkt : Buffers \cup {NULL}, back : {"idle", "read own", "restart"}]

\* A processor in an interrupt handler knows its device, and one that holds a packet
\* before the handler has a packet of its own device.
CtxInv ==
  /\ ctx \in [Devs -> Context]
  /\ status \in [Devs -> SUBSET {"RX", "TX"}]
  /\ \A d \in Devs :
       /\ ctx[d].pc = "interrupt" => ctx[d].on \in Devs
       /\ ctx[d].pc \in {"enqueue", "release", "recheck", "wake"} => ctx[d].pkt \in Buffers
       /\ ctx[d].pc = "enqueue" => Owner(ctx[d].pkt) = d

\* A list holds no packet twice, and only packets that belong there.
ListInv ==
  /\ ppool \in [Devs -> Seq(Buffers)] /\ rx_queue \in [Devs -> Seq(Buffers)]
  /\ \A d \in Devs : Distinct(ppool[d]) /\ Distinct(rx_queue[d])
  /\ \A d \in Devs, b \in Buffers :
       /\ Listed(b, ppool[d]) => Owner(b) = d
       /\ Listed(b, rx_queue[d]) => Owner(b) = Twin[d]

Pooled(b)  == Listed(b, ppool[Owner(b)])
Queued(b)  == Listed(b, rx_queue[Twin[Owner(b)]])
Held(d, b) == ctx[d].pc \in {"enqueue", "release"} /\ ctx[d].pkt = b

\* A packet is in one of three kinds of places, and in no two.
OnePlace(b) ==
  /\ Pooled(b) \/ Queued(b) \/ \E d \in Devs : Held(d, b)
  /\ ~(Pooled(b) /\ Queued(b))
  /\ \A d \in Devs : Held(d, b) => ~Pooled(b) /\ ~Queued(b)
  /\ \A d, e \in Devs : Held(d, b) /\ Held(e, b) => d = e

PlaceInv == \A b \in Buffers : OnePlace(b)

SnullInv == CtxInv /\ ListInv /\ PlaceInv

\* Every packet buffer has an owner, and a device is its twin's twin.
LEMMA BufferFacts ==
  /\ \A b \in Buffers : Owner(b) \in Devs
  /\ \A d \in Devs : Twin[d] \in Devs /\ Twin[Twin[d]] = d
BY SnullAssumption DEF Buffers, Owner

\* A full pool holds each packet of its device once.
LEMMA PoolFacts ==
  ASSUME NEW d \in Devs
  PROVE  /\ PoolOf(d, PoolSize) \in Seq(Buffers)
         /\ Distinct(PoolOf(d, PoolSize))
         /\ \A b \in Buffers : Listed(b, PoolOf(d, PoolSize)) <=> Owner(b) = d
<1> DEFINE pool == PoolOf(d, PoolSize)
<1>1. PoolSize \in Nat
  BY SnullAssumption
<1>2. DOMAIN pool = 1 .. PoolSize /\ \A i \in 1 .. PoolSize : pool[i] = <<d, PoolSize + 1 - i>>
  BY DEF PoolOf
<1>3. \A i \in 1 .. PoolSize : pool[i] \in Buffers /\ Owner(pool[i]) = d
  <2> SUFFICES ASSUME NEW i \in 1 .. PoolSize PROVE pool[i] \in Buffers /\ Owner(pool[i]) = d
    OBVIOUS
  <2>1. PICK k \in 1 .. PoolSize : pool[i] = <<d, k>>
    BY <1>1, <1>2
  <2> HIDE DEF pool
  <2> QED
    BY <2>1 DEF Buffers, Owner
<1>4. pool \in Seq(Buffers)
  BY <1>1, <1>3, IsASeq DEF PoolOf
<1>5. Distinct(pool)
  BY <1>1, <1>2 DEF Distinct
<1>6. ASSUME NEW b \in Buffers PROVE Listed(b, pool) <=> Owner(b) = d
  <2>1. PICK n \in 1 .. PoolSize : b = <<Owner(b), n>>
    BY DEF Buffers, Owner
  <2>2. PoolSize + 1 - n \in 1 .. PoolSize /\ pool[PoolSize + 1 - n] = <<d, n>>
    BY <1>1, <1>2, <2>1
  <2> QED
    BY <1>2, <1>3, <2>1, <2>2 DEF Listed
<1> QED
  BY <1>4, <1>5, <1>6

\* Where the buffers are is right at the start, ...
LEMMA SnullInitInv == Init => SnullInv
<1> SUFFICES ASSUME Init PROVE SnullInv
  OBVIOUS
<1>1. CtxInv
  BY DEF Init, Quiet, CtxInv, Context, Places, Idle
<1>2. /\ \A d \in Devs : ppool[d] = PoolOf(d, PoolSize) /\ rx_queue[d] = << >>
      /\ \A d \in Devs, b \in Buffers : ~Held(d, b) /\ ~Listed(b, rx_queue[d])
  BY DEF Init, Quiet, Held, Idle, Listed
<1>3. ListInv
  <2>1. ppool \in [Devs -> Seq(Buffers)] /\ rx_queue \in [Devs -> Seq(Buffers)]
    BY PoolFacts DEF Init, Quiet
  <2>2. \A d \in Devs : Distinct(ppool[d]) /\ Distinct(rx_queue[d])
    BY <1>2, PoolFacts DEF Distinct
  <2> QED
    BY <1>2, <2>1, <2>2, PoolFacts DEF ListInv
<1>4. PlaceInv
  <2> SUFFICES ASSUME NEW b \in Buffers
               PROVE  Pooled(b) /\ ~Queued(b) /\ \A d \in Devs : ~Held(d, b)
    BY DEF PlaceInv, OnePlace
  <2>1. Owner(b) \in Devs /\ Twin[Owner(b)] \in Devs
    BY BufferFacts
  <2> QED
    BY <1>2, <2>1, PoolFacts DEF Pooled, Queued
<1> QED
  BY <1>1, <1>3, <1>4 DEF SnullInv

(***************************************************************************)
(* The steps.                                                              *)
(***************************************************************************)

\* What a processor may become.
LEMMA CtxStep ==
  ASSUME CtxInv, NEW d \in Devs, NEW c \in Context,
         ctx' = [ctx EXCEPT ![d] = c], status' \in [Devs -> SUBSET {"RX", "TX"}],
         c.pc = "interrupt" => c.on \in Devs,
         c.pc \in {"enqueue", "release", "recheck", "wake"} => c.pkt \in Buffers,
         c.pc = "enqueue" => Owner(c.pkt) = d
  PROVE  CtxInv'
<1>1. ctx \in [Devs -> Context]
  BY DEF CtxInv
<1>2. ctx' \in [Devs -> Context] /\ ctx'[d] = c /\ \A e \in Devs : e # d => ctx'[e] = ctx[e]
  BY <1>1
<1>3. ASSUME NEW e \in Devs
      PROVE  /\ ctx'[e].pc = "interrupt" => ctx'[e].on \in Devs
             /\ ctx'[e].pc \in {"enqueue", "release", "recheck", "wake"} => ctx'[e].pkt \in Buffers
             /\ ctx'[e].pc = "enqueue" => Owner(ctx'[e].pkt) = e
  <2>1. CASE e = d
    BY <1>2, <2>1
  <2>2. CASE e # d
    BY <1>2, <2>2 DEF CtxInv
  <2> QED
    BY <2>1, <2>2
<1> QED
  BY <1>2, <1>3 DEF CtxInv

\* Most steps move no packet.
LEMMA NothingMoves ==
  ASSUME SnullInv, CtxInv', UNCHANGED <<ppool, rx_queue>>,
         \A d \in Devs, b \in Buffers : Held(d, b)' <=> Held(d, b)
  PROVE  SnullInv'
<1>1. ListInv'
  BY DEF SnullInv, ListInv
<1>2. \A b \in Buffers : (Pooled(b)' <=> Pooled(b)) /\ (Queued(b)' <=> Queued(b))
  BY DEF Pooled, Queued
<1>3. PlaceInv'
  BY <1>2 DEF SnullInv, PlaceInv, OnePlace
<1> QED
  BY <1>1, <1>3 DEF SnullInv

\* A step that moves one packet.
LEMMA OneMoves ==
  ASSUME PlaceInv, NEW h \in Buffers, OnePlace(h)',
         \A b \in Buffers : b # h => /\ (Pooled(b)' <=> Pooled(b)) /\ (Queued(b)' <=> Queued(b))
                                     /\ \A d \in Devs : Held(d, b)' <=> Held(d, b)
  PROVE  PlaceInv'
BY DEF PlaceInv, OnePlace

\* The hands of the processor of d after it took or put down a packet.
LEMMA HandsStep ==
  ASSUME CtxInv, NEW d \in Devs, NEW c, ctx' = [ctx EXCEPT ![d] = c]
  PROVE  /\ ctx'[d] = c
         /\ \A e \in Devs, b \in Buffers : e # d => (Held(e, b)' <=> Held(e, b))
BY DEF CtxInv, Held

\* snull_get_tx_buffer: from the pool into the hands of the sender.
LEMMA GetMoves ==
  ASSUME SnullInv, NEW d \in Devs, GetTxBuffer(d), ppool[d] # << >>
  PROVE  SnullInv'
<1>1. /\ ctx \in [Devs -> Context] /\ ctx[d] \in Context
      /\ ppool \in [Devs -> Seq(Buffers)] /\ Distinct(ppool[d])
  BY DEF SnullInv, ListInv, CtxInv
<1>2. PICK h \in Buffers : h = Head(ppool[d])
  BY <1>1, TailFacts
<1>3. PICK c : c = [ctx[d] EXCEPT !.pc = "enqueue", !.pkt = h]
  OBVIOUS
<1>4. /\ Listed(h, ppool[d])
      /\ Tail(ppool[d]) \in Seq(Buffers) /\ Distinct(Tail(ppool[d]))
      /\ \A b : Listed(b, Tail(ppool[d])) <=> Listed(b, ppool[d]) /\ b # h
  BY <1>1, <1>2, TailFacts
<1>5. Owner(h) = d /\ Pooled(h)
  BY <1>4 DEF SnullInv, ListInv, Pooled
<1>6. /\ ctx' = [ctx EXCEPT ![d] = c]
      /\ c \in Context /\ c.pc = "enqueue" /\ c.pkt = h
  BY <1>1, <1>2, <1>3 DEF GetTxBuffer, Context, Places
<1>7. /\ UNCHANGED <<rx_queue, status>> /\ ctx[d].pc = "get"
      /\ ppool' \in [Devs -> Seq(Buffers)]
      /\ ppool'[d] = Tail(ppool[d])
      /\ \A e \in Devs : e # d => ppool'[e] = ppool[e]
  BY <1>1, <1>4 DEF GetTxBuffer, At, chip
<1>8. CtxInv'
  <2>1. CtxInv /\ status' \in [Devs -> SUBSET {"RX", "TX"}]
    BY <1>7 DEF SnullInv, CtxInv
  <2> QED
    BY <1>5, <1>6, <2>1, CtxStep
<1>9. ListInv'
  BY <1>4, <1>7 DEF SnullInv, ListInv
<1>10. ASSUME NEW b \in Buffers PROVE Pooled(b)' <=> Pooled(b) /\ b # h
  <2>1. CASE Owner(b) = d
    BY <1>4, <1>7, <2>1 DEF Pooled
  <2>2. CASE Owner(b) # d
    BY <1>5, <1>7, <2>2, BufferFacts DEF Pooled
  <2> QED
    BY <2>1, <2>2
<1>11. \A b \in Buffers : Queued(b)' <=> Queued(b)
  BY <1>7 DEF Queued
<1>12. \A e \in Devs, b \in Buffers : e # d => (Held(e, b)' <=> Held(e, b))
  BY <1>6, HandsStep DEF SnullInv
<1>13. \A b \in Buffers : ~Held(d, b) /\ (Held(d, b)' <=> b = h)
  BY <1>1, <1>6, <1>7 DEF Held
<1>14. OnePlace(h)'
  BY <1>5, <1>10, <1>11, <1>12, <1>13 DEF SnullInv, PlaceInv, OnePlace
<1>15. \A b \in Buffers : b # h =>
         /\ (Pooled(b)' <=> Pooled(b)) /\ (Queued(b)' <=> Queued(b))
         /\ \A e \in Devs : Held(e, b)' <=> Held(e, b)
  BY <1>10, <1>11, <1>12, <1>13
<1>16. PlaceInv'
  BY <1>14, <1>15, OneMoves DEF SnullInv
<1> QED
  BY <1>8, <1>9, <1>16 DEF SnullInv

\* snull_enqueue_buf: from the hands of the sender onto the receive queue of its twin.
LEMMA EnqueueMoves ==
  ASSUME SnullInv, NEW d \in Devs, Enqueue(d)
  PROVE  SnullInv'
<1>1. /\ ctx \in [Devs -> Context] /\ ctx[d] \in Context /\ ctx[d].pc = "enqueue"
      /\ rx_queue \in [Devs -> Seq(Buffers)] /\ Twin[d] \in Devs
  BY BufferFacts DEF SnullInv, ListInv, CtxInv, Enqueue, At
<1>2. PICK h \in Buffers : h = ctx[d].pkt /\ Owner(h) = d
  BY <1>1 DEF SnullInv, CtxInv
<1>3. PICK c : c = [ctx[d] EXCEPT !.pc = "read dest", !.pkt = NULL]
  OBVIOUS
<1>4. Held(d, h) /\ ~Listed(h, rx_queue[Twin[d]])
  BY <1>1, <1>2 DEF SnullInv, PlaceInv, OnePlace, Held, Queued
<1>5. /\ Push(h, rx_queue[Twin[d]]) \in Seq(Buffers)
      /\ Distinct(Push(h, rx_queue[Twin[d]]))
      /\ \A b : Listed(b, Push(h, rx_queue[Twin[d]])) <=> b = h \/ Listed(b, rx_queue[Twin[d]])
  <2>1. rx_queue[Twin[d]] \in Seq(Buffers) /\ Distinct(rx_queue[Twin[d]])
    BY <1>1 DEF SnullInv, ListInv
  <2> QED
    BY <1>4, <2>1, PushFacts
<1>6. ctx' = [ctx EXCEPT ![d] = c] /\ c \in Context /\ c.pc = "read dest"
  BY <1>1, <1>3 DEF Enqueue, Context, Places
<1>7. /\ UNCHANGED <<ppool, status>>
      /\ rx_queue' \in [Devs -> Seq(Buffers)]
      /\ rx_queue'[Twin[d]] = Push(h, rx_queue[Twin[d]])
      /\ \A e \in Devs : e # Twin[d] => rx_queue'[e] = rx_queue[e]
  BY <1>1, <1>2, <1>5 DEF Enqueue, chip
<1>8. CtxInv'
  <2>1. CtxInv /\ status' \in [Devs -> SUBSET {"RX", "TX"}]
    BY <1>7 DEF SnullInv, CtxInv
  <2> QED
    BY <1>6, <2>1, CtxStep
<1>9. ListInv'
  <2>1. \A e \in Devs : Distinct(ppool'[e]) /\ Distinct(rx_queue'[e])
    BY <1>5, <1>7 DEF SnullInv, ListInv
  <2>2. ASSUME NEW e \in Devs, NEW b \in Buffers, Listed(b, rx_queue'[e])
        PROVE  Owner(b) = Twin[e]
    <3>1. CASE e = Twin[d]
      BY <1>1, <1>2, <1>5, <1>7, <2>2, <3>1, BufferFacts DEF SnullInv, ListInv
    <3>2. CASE e # Twin[d]
      BY <1>7, <2>2, <3>2 DEF SnullInv, ListInv
    <3> QED
      BY <3>1, <3>2
  <2> QED
    BY <1>7, <2>1, <2>2 DEF SnullInv, ListInv
<1>10. ASSUME NEW b \in Buffers PROVE Queued(b)' <=> Queued(b) \/ b = h
  <2>1. CASE Owner(b) = d
    BY <1>5, <1>7, <2>1 DEF Queued
  <2>2. CASE Owner(b) # d
    <3>1. Twin[Owner(b)] # Twin[d] /\ Twin[Owner(b)] \in Devs /\ b # h
      BY <1>2, <2>2, BufferFacts
    <3> QED
      BY <1>7, <3>1 DEF Queued
  <2> QED
    BY <2>1, <2>2
<1>11. \A b \in Buffers : Pooled(b)' <=> Pooled(b)
  BY <1>7 DEF Pooled
<1>12. \A e \in Devs, b \in Buffers : e # d => (Held(e, b)' <=> Held(e, b))
  BY <1>6, HandsStep DEF SnullInv
<1>13. \A b \in Buffers : (Held(d, b) <=> b = h) /\ ~Held(d, b)'
  BY <1>1, <1>2, <1>6 DEF Held
<1>14. OnePlace(h)'
  BY <1>10, <1>11, <1>12, <1>13 DEF SnullInv, PlaceInv, OnePlace
<1>15. \A b \in Buffers : b # h =>
         /\ (Pooled(b)' <=> Pooled(b)) /\ (Queued(b)' <=> Queued(b))
         /\ \A e \in Devs : Held(e, b)' <=> Held(e, b)
  BY <1>10, <1>11, <1>12, <1>13
<1>16. PlaceInv'
  BY <1>14, <1>15, OneMoves DEF SnullInv
<1> QED
  BY <1>8, <1>9, <1>16 DEF SnullInv

\* snull_regular_interrupt with a packet: from the receive queue into the hands of the
\* processor that runs the handler.
LEMMA InterruptMoves ==
  ASSUME SnullInv, NEW d \in Devs, RegularInterrupt(d),
         "RX" \in status[ctx[d].on], rx_queue[ctx[d].on] # << >>
  PROVE  SnullInv'
<1>1. PICK e \in Devs : e = ctx[d].on
  BY DEF RegularInterrupt, At, SnullInv, CtxInv
<1>2. /\ ctx \in [Devs -> Context] /\ ctx[d] \in Context /\ ctx[d].pc = "interrupt"
      /\ rx_queue \in [Devs -> Seq(Buffers)] /\ Distinct(rx_queue[e])
  BY DEF SnullInv, ListInv, CtxInv, RegularInterrupt, At
<1>3. PICK h \in Buffers : h = Head(rx_queue[e])
  BY <1>1, <1>2, TailFacts
<1>4. PICK c : c = [ctx[d] EXCEPT !.pc = "release", !.pkt = h]
  OBVIOUS
<1>5. /\ Listed(h, rx_queue[e])
      /\ Tail(rx_queue[e]) \in Seq(Buffers) /\ Distinct(Tail(rx_queue[e]))
      /\ \A b : Listed(b, Tail(rx_queue[e])) <=> Listed(b, rx_queue[e]) /\ b # h
  BY <1>1, <1>2, <1>3, TailFacts
<1>6. Owner(h) = Twin[e] /\ Queued(h)
  BY <1>5, BufferFacts DEF SnullInv, ListInv, Queued
<1>7. /\ ctx' = [ctx EXCEPT ![d] = c]
      /\ c \in Context /\ c.pc = "release" /\ c.pkt = h
  BY <1>1, <1>2, <1>3, <1>4 DEF RegularInterrupt, Context, Places
<1>8. /\ UNCHANGED ppool
      /\ status' = [status EXCEPT ![e] = {}]
      /\ rx_queue' \in [Devs -> Seq(Buffers)]
      /\ rx_queue'[e] = Tail(rx_queue[e])
      /\ \A f \in Devs : f # e => rx_queue'[f] = rx_queue[f]
  BY <1>1, <1>2, <1>5 DEF RegularInterrupt, Cleared, Unlinked
<1>9. CtxInv'
  <2>1. CtxInv /\ status' \in [Devs -> SUBSET {"RX", "TX"}]
    BY <1>8 DEF SnullInv, CtxInv
  <2> QED
    BY <1>7, <2>1, CtxStep
<1>10. ListInv'
  <2>1. \A f \in Devs : Distinct(ppool'[f]) /\ Distinct(rx_queue'[f])
    BY <1>5, <1>8 DEF SnullInv, ListInv
  <2>2. \A f \in Devs, b \in Buffers : Listed(b, rx_queue'[f]) => Listed(b, rx_queue[f])
    BY <1>5, <1>8
  <2> QED
    BY <1>8, <2>1, <2>2 DEF SnullInv, ListInv
<1>11. ASSUME NEW b \in Buffers PROVE Queued(b)' <=> Queued(b) /\ b # h
  <2>1. CASE Twin[Owner(b)] = e
    BY <1>5, <1>8, <2>1 DEF Queued
  <2>2. CASE Twin[Owner(b)] # e
    <3>1. Twin[Owner(b)] \in Devs /\ b # h
      BY <1>6, <2>2, BufferFacts
    <3> QED
      BY <1>8, <2>2, <3>1 DEF Queued
  <2> QED
    BY <2>1, <2>2
<1>12. \A b \in Buffers : Pooled(b)' <=> Pooled(b)
  BY <1>8 DEF Pooled
<1>13. \A f \in Devs, b \in Buffers : f # d => (Held(f, b)' <=> Held(f, b))
  BY <1>7, HandsStep DEF SnullInv
<1>14. \A b \in Buffers : ~Held(d, b) /\ (Held(d, b)' <=> b = h)
  BY <1>2, <1>7 DEF Held
<1>15. OnePlace(h)'
  BY <1>6, <1>11, <1>12, <1>13, <1>14 DEF SnullInv, PlaceInv, OnePlace
<1>16. \A b \in Buffers : b # h =>
         /\ (Pooled(b)' <=> Pooled(b)) /\ (Queued(b)' <=> Queued(b))
         /\ \A f \in Devs : Held(f, b)' <=> Held(f, b)
  BY <1>11, <1>12, <1>13, <1>14
<1>17. PlaceInv'
  BY <1>15, <1>16, OneMoves DEF SnullInv
<1> QED
  BY <1>9, <1>10, <1>17 DEF SnullInv

\* snull_release_buffer: from the hands of a processor into the pool of the packet's device.
LEMMA ReleaseMoves ==
  ASSUME SnullInv, NEW d \in Devs, ReleaseBuffer(d)
  PROVE  SnullInv'
<1>1. /\ ctx \in [Devs -> Context] /\ ctx[d] \in Context /\ ctx[d].pc = "release"
      /\ ppool \in [Devs -> Seq(Buffers)]
  BY DEF SnullInv, ListInv, CtxInv, ReleaseBuffer, At
<1>2. PICK h \in Buffers : h = ctx[d].pkt
  BY <1>1 DEF SnullInv, CtxInv
<1>3. PICK o \in Devs : o = Owner(h)
  BY BufferFacts
<1>4. PICK c : c = [ctx[d] EXCEPT !.pc = "recheck"]
  OBVIOUS
<1>5. Held(d, h) /\ ~Listed(h, ppool[o])
  BY <1>1, <1>2, <1>3 DEF SnullInv, PlaceInv, OnePlace, Held, Pooled
<1>6. /\ Push(h, ppool[o]) \in Seq(Buffers)
      /\ Distinct(Push(h, ppool[o]))
      /\ \A b : Listed(b, Push(h, ppool[o])) <=> b = h \/ Listed(b, ppool[o])
  <2>1. ppool[o] \in Seq(Buffers) /\ Distinct(ppool[o])
    BY DEF SnullInv, ListInv
  <2> QED
    BY <1>5, <2>1, PushFacts
<1>7. ctx' = [ctx EXCEPT ![d] = c] /\ c \in Context /\ c.pc = "recheck" /\ c.pkt = h
  BY <1>1, <1>2, <1>4 DEF ReleaseBuffer, Goto, Context, Places
<1>8. /\ UNCHANGED <<rx_queue, status>>
      /\ ppool' \in [Devs -> Seq(Buffers)]
      /\ ppool'[o] = Push(h, ppool[o])
      /\ \A e \in Devs : e # o => ppool'[e] = ppool[e]
  BY <1>1, <1>2, <1>3, <1>6 DEF ReleaseBuffer, Home, chip
<1>9. CtxInv'
  <2>1. CtxInv /\ status' \in [Devs -> SUBSET {"RX", "TX"}]
    BY <1>8 DEF SnullInv, CtxInv
  <2> QED
    BY <1>7, <2>1, CtxStep
<1>10. ListInv'
  <2>1. \A e \in Devs : Distinct(ppool'[e]) /\ Distinct(rx_queue'[e])
    BY <1>6, <1>8 DEF SnullInv, ListInv
  <2>2. ASSUME NEW e \in Devs, NEW b \in Buffers, Listed(b, ppool'[e])
        PROVE  Owner(b) = e
    <3>1. CASE e = o
      BY <1>3, <1>6, <1>8, <2>2, <3>1 DEF SnullInv, ListInv
    <3>2. CASE e # o
      BY <1>8, <2>2, <3>2 DEF SnullInv, ListInv
    <3> QED
      BY <3>1, <3>2
  <2> QED
    BY <1>8, <2>1, <2>2 DEF SnullInv, ListInv
<1>11. ASSUME NEW b \in Buffers PROVE Pooled(b)' <=> Pooled(b) \/ b = h
  <2>1. CASE Owner(b) = o
    BY <1>6, <1>8, <2>1 DEF Pooled
  <2>2. CASE Owner(b) # o
    BY <1>3, <1>8, <2>2, BufferFacts DEF Pooled
  <2> QED
    BY <2>1, <2>2
<1>12. \A b \in Buffers : Queued(b)' <=> Queued(b)
  BY <1>8 DEF Queued
<1>13. \A e \in Devs, b \in Buffers : e # d => (Held(e, b)' <=> Held(e, b))
  BY <1>7, HandsStep DEF SnullInv
<1>14. \A b \in Buffers : (Held(d, b) <=> b = h) /\ ~Held(d, b)'
  BY <1>1, <1>2, <1>7 DEF Held
<1>15. OnePlace(h)'
  BY <1>11, <1>12, <1>13, <1>14 DEF SnullInv, PlaceInv, OnePlace
<1>16. \A b \in Buffers : b # h =>
         /\ (Pooled(b)' <=> Pooled(b)) /\ (Queued(b)' <=> Queued(b))
         /\ \A e \in Devs : Held(e, b)' <=> Held(e, b)
  BY <1>11, <1>12, <1>13, <1>14
<1>17. PlaceInv'
  BY <1>15, <1>16, OneMoves DEF SnullInv
<1> QED
  BY <1>9, <1>10, <1>17 DEF SnullInv

\* A step of the processor of d that moves no packet and after which it holds none.
LEMMA StepKeeps ==
  ASSUME SnullInv, NEW d \in Devs, NEW c \in Context, ctx' = [ctx EXCEPT ![d] = c],
         UNCHANGED <<ppool, rx_queue>>, status' \in [Devs -> SUBSET {"RX", "TX"}],
         ctx[d].pc \notin {"enqueue", "release"}, c.pc \notin {"enqueue", "release"},
         c.pc \in {"recheck", "wake"} => c.pkt \in Buffers,
         c.pc = "interrupt" => c.on \in Devs
  PROVE  SnullInv'
<1>1. CtxInv'
  BY CtxStep DEF SnullInv
<1>2. \A e \in Devs, b \in Buffers : Held(e, b)' <=> Held(e, b)
  BY HandsStep DEF SnullInv, Held
<1> QED
  BY <1>1, <1>2, NothingMoves

\* ... every step keeps it right, ...
LEMMA SnullNextInv == SnullInv /\ [Next]_vars => SnullInv'
<1> SUFFICES ASSUME SnullInv, [Next]_vars PROVE SnullInv'
  OBVIOUS
<1>1. ctx \in [Devs -> Context] /\ status \in [Devs -> SUBSET {"RX", "TX"}]
  BY DEF SnullInv, CtxInv
<1>2. ASSUME NEW d \in Devs, Tx(d) PROVE SnullInv'
  <2>1. PICK c : c = [ctx[d] EXCEPT !.pc = "get"]
    OBVIOUS
  <2>2. ctx' = [ctx EXCEPT ![d] = c] /\ c \in Context /\ c.pc = "get"
    BY <1>1, <1>2, <2>1 DEF Tx, Goto, Context, Places
  <2>3. UNCHANGED <<ppool, rx_queue, status>> /\ ctx[d].pc = "idle"
    BY <1>2 DEF Tx, At, lists, chip
  <2> QED
    BY <1>1, <2>2, <2>3, StepKeeps
<1>3. ASSUME NEW d \in Devs, GetTxBuffer(d) PROVE SnullInv'
  <2>1. CASE ppool[d] = << >>
    <3>1. PICK c : c = [ctx[d] EXCEPT !.pc = "dead"]
      OBVIOUS
    <3>2. ctx' = [ctx EXCEPT ![d] = c] /\ c \in Context /\ c.pc = "dead"
      BY <1>1, <1>3, <2>1, <3>1 DEF GetTxBuffer, Goto, Context, Places
    <3>3. UNCHANGED <<ppool, rx_queue, status>> /\ ctx[d].pc = "get"
      BY <1>3, <2>1 DEF GetTxBuffer, At, chip
    <3> QED
      BY <1>1, <3>2, <3>3, StepKeeps
  <2> QED
    BY <1>3, <2>1, GetMoves
<1>4. ASSUME NEW d \in Devs, Enqueue(d) PROVE SnullInv'
  BY <1>4, EnqueueMoves
<1>5. ASSUME NEW d \in Devs, ReadDest(d) PROVE SnullInv'
  <2>1. PICK c : c = IF rx_int_enabled[Twin[d]]
                 THEN [ctx[d] EXCEPT !.pc = "write dest", !.word = status[Twin[d]]]
                 ELSE [ctx[d] EXCEPT !.pc = "read own"]
    OBVIOUS
  <2>2. ctx' = [ctx EXCEPT ![d] = c]
    BY <1>1, <1>5, <2>1 DEF ReadDest, Goto
  <2>3. c \in Context /\ c.pc \in {"write dest", "read own"}
    <3>1. ctx[d] \in Context /\ Twin[d] \in Devs /\ status[d] \subseteq {"RX", "TX"}
            /\ status[Twin[d]] \subseteq {"RX", "TX"}
      BY <1>1, BufferFacts
    <3> QED
      BY <2>1, <3>1 DEF Context, Places
  <2>4. /\ UNCHANGED <<ppool, rx_queue>> /\ ctx[d].pc = "read dest"
        /\ status' \in [Devs -> SUBSET {"RX", "TX"}]
    BY <1>1, <1>5 DEF ReadDest, At, lists, chip
  <2> QED
    BY <2>2, <2>3, <2>4, StepKeeps
<1>6. ASSUME NEW d \in Devs, WriteDest(d) PROVE SnullInv'
  <2>1. PICK c : c = [ctx[d] EXCEPT !.pc = "interrupt", !.on = Twin[d],
                               !.word = {}, !.back = "read own"]
    OBVIOUS
  <2>2. ctx' = [ctx EXCEPT ![d] = c]
    BY <1>1, <1>6, <2>1 DEF WriteDest, Goto
  <2>3. c \in Context /\ c.pc = "interrupt" /\ c.on \in Devs
    <3>1. ctx[d] \in Context /\ Twin[d] \in Devs /\ status[d] \subseteq {"RX", "TX"}
            /\ status[Twin[d]] \subseteq {"RX", "TX"}
      BY <1>1, BufferFacts
    <3> QED
      BY <2>1, <3>1 DEF Context, Places
  <2>4. /\ UNCHANGED <<ppool, rx_queue>> /\ ctx[d].pc = "write dest"
        /\ status' \in [Devs -> SUBSET {"RX", "TX"}]
    BY <1>1, <1>6 DEF WriteDest, At, lists, chip, Context
  <2> QED
    BY <2>2, <2>3, <2>4, StepKeeps
<1>7. ASSUME NEW d \in Devs, ReadOwn(d) PROVE SnullInv'
  <2>1. PICK c : c = [ctx[d] EXCEPT !.pc = "write own", !.word = status[d]]
    OBVIOUS
  <2>2. ctx' = [ctx EXCEPT ![d] = c]
    BY <1>1, <1>7, <2>1 DEF ReadOwn, Goto
  <2>3. c \in Context /\ c.pc = "write own"
    <3>1. ctx[d] \in Context /\ Twin[d] \in Devs /\ status[d] \subseteq {"RX", "TX"}
            /\ status[Twin[d]] \subseteq {"RX", "TX"}
      BY <1>1, BufferFacts
    <3> QED
      BY <2>1, <3>1 DEF Context, Places
  <2>4. /\ UNCHANGED <<ppool, rx_queue>> /\ ctx[d].pc = "read own"
        /\ status' \in [Devs -> SUBSET {"RX", "TX"}]
    BY <1>1, <1>7 DEF ReadOwn, At, lists, chip
  <2> QED
    BY <2>2, <2>3, <2>4, StepKeeps
<1>8. ASSUME NEW d \in Devs, WriteOwn(d) PROVE SnullInv'
  <2>1. PICK c : c = IF Lockup # 0 /\ (tx_packets[d] + 1) % Lockup = 0 THEN Idle
                 ELSE [Idle EXCEPT !.pc = "interrupt", !.on = d]
    OBVIOUS
  <2>2. ctx' = [ctx EXCEPT ![d] = c] /\ c \in Context /\ (c = Idle \/ (c.pc = "interrupt" /\ c.on \in Devs))
    BY <1>1, <1>8, <2>1, BufferFacts DEF WriteOwn, Context, Places, Idle
  <2>3. /\ UNCHANGED <<ppool, rx_queue>> /\ ctx[d].pc = "write own"
        /\ status' \in [Devs -> SUBSET {"RX", "TX"}]
    BY <1>1, <1>8 DEF WriteOwn, At, lists, chip, Context
  <2> QED
    BY <2>2, <2>3, StepKeeps DEF Idle
<1>9. ASSUME NEW d \in Devs, RegularInterrupt(d),
             ~("RX" \in status[ctx[d].on] /\ rx_queue[ctx[d].on] # << >>) PROVE SnullInv'
  <2>1. PICK c : c = [Idle EXCEPT !.pc = ctx[d].back]
    OBVIOUS
  <2>2. ctx' = [ctx EXCEPT ![d] = c] /\ c \in Context /\ c.pc \in {"idle", "read own", "restart"}
    BY <1>1, <1>9, <2>1, BufferFacts DEF RegularInterrupt, Context, Places, Idle, Return
  <2>3. /\ UNCHANGED <<ppool, rx_queue>> /\ ctx[d].pc = "interrupt"
        /\ status' \in [Devs -> SUBSET {"RX", "TX"}]
    BY <1>1, <1>9 DEF RegularInterrupt, At, lists, chip, Cleared
  <2> QED
    BY <2>2, <2>3, StepKeeps
<1>10. ASSUME NEW d \in Devs, NapiInterrupt(d) PROVE SnullInv'
  <2>1. PICK c : c = [Idle EXCEPT !.pc = ctx[d].back]
    OBVIOUS
  <2>2. ctx' = [ctx EXCEPT ![d] = c] /\ c \in Context /\ c.pc \in {"idle", "read own", "restart"}
    BY <1>1, <1>10, <2>1, BufferFacts DEF NapiInterrupt, Context, Places, Idle, Return
  <2>3. /\ UNCHANGED <<ppool, rx_queue>> /\ ctx[d].pc = "interrupt"
        /\ status' \in [Devs -> SUBSET {"RX", "TX"}]
    BY <1>1, <1>10 DEF NapiInterrupt, At, lists, chip, Cleared
  <2> QED
    BY <2>2, <2>3, StepKeeps
<1>11. ASSUME NEW d \in Devs, ReleaseBuffer(d) PROVE SnullInv'
  BY <1>11, ReleaseMoves
<1>11a. ASSUME NEW d \in Devs, Recheck(d) PROVE SnullInv'
  <2>1. /\ UNCHANGED <<ppool, rx_queue, status>> /\ ctx[d] \in Context /\ ctx[d].pc = "recheck"
        /\ ctx[d].pkt \in Buffers
    BY <1>1, <1>11a DEF Recheck, At, lists, chip, SnullInv, CtxInv
  <2>2. CASE stopped[Home(d)] /\ ctx[d].pkt \in alone
    <3>1. PICK c : c = [ctx[d] EXCEPT !.pc = "wake"]
      OBVIOUS
    <3>2. ctx' = [ctx EXCEPT ![d] = c] /\ c \in Context /\ c.pc = "wake" /\ c.pkt \in Buffers
      BY <1>11a, <2>1, <2>2, <3>1 DEF Recheck, Goto, Context, Places
    <3> QED
      BY <1>1, <2>1, <3>2, StepKeeps
  <2>3. CASE ~(stopped[Home(d)] /\ ctx[d].pkt \in alone)
    <3>1. PICK c : c = [Idle EXCEPT !.pc = ctx[d].back]
      OBVIOUS
    <3>2. ctx' = [ctx EXCEPT ![d] = c] /\ c \in Context /\ c.pc \in {"idle", "read own", "restart"}
      BY <1>1, <1>11a, <2>3, <3>1, BufferFacts DEF Recheck, Context, Places, Idle, Return
    <3> QED
      BY <1>1, <2>1, <3>2, StepKeeps
  <2> QED
    BY <2>2, <2>3
<1>12. ASSUME NEW d \in Devs, WakeQueue(d) PROVE SnullInv'
  <2>1. PICK c : c = [Idle EXCEPT !.pc = ctx[d].back]
    OBVIOUS
  <2>2. ctx' = [ctx EXCEPT ![d] = c] /\ c \in Context /\ c.pc \in {"idle", "read own", "restart"}
    BY <1>1, <1>12, <2>1, BufferFacts DEF WakeQueue, Context, Places, Idle, Return
  <2>3. /\ UNCHANGED <<ppool, rx_queue>> /\ ctx[d].pc = "wake"
        /\ status' \in [Devs -> SUBSET {"RX", "TX"}]
    BY <1>1, <1>12 DEF WakeQueue, At, lists, chip
  <2> QED
    BY <2>2, <2>3, StepKeeps
<1>13. ASSUME NEW d \in Devs, TxTimeout(d) PROVE SnullInv'
  <2>1. PICK c : c = [ctx[d] EXCEPT !.pc = "interrupt", !.on = d, !.back = "restart"]
    OBVIOUS
  <2>2. ctx' = [ctx EXCEPT ![d] = c]
    BY <1>1, <1>13, <2>1 DEF TxTimeout, Goto
  <2>3. c \in Context /\ c.pc = "interrupt" /\ c.on \in Devs
    <3>1. ctx[d] \in Context /\ Twin[d] \in Devs /\ status[d] \subseteq {"RX", "TX"}
            /\ status[Twin[d]] \subseteq {"RX", "TX"}
      BY <1>1, BufferFacts
    <3> QED
      BY <2>1, <3>1 DEF Context, Places
  <2>4. /\ UNCHANGED <<ppool, rx_queue>> /\ ctx[d].pc = "idle"
        /\ status' \in [Devs -> SUBSET {"RX", "TX"}]
    BY <1>1, <1>13 DEF TxTimeout, At, lists, chip
  <2> QED
    BY <2>2, <2>3, <2>4, StepKeeps
<1>14. ASSUME NEW d \in Devs, TimeoutWake(d) PROVE SnullInv'
  <2>1. PICK c : c = Idle
    OBVIOUS
  <2>2. ctx' = [ctx EXCEPT ![d] = c] /\ c \in Context /\ c.pc = "idle"
    BY <1>1, <1>14, <2>1, BufferFacts DEF TimeoutWake, Context, Places, Idle
  <2>3. /\ UNCHANGED <<ppool, rx_queue>> /\ ctx[d].pc = "restart"
        /\ status' \in [Devs -> SUBSET {"RX", "TX"}]
    BY <1>1, <1>14 DEF TimeoutWake, At, lists, chip
  <2> QED
    BY <2>2, <2>3, StepKeeps
<1>15. ASSUME UNCHANGED <<ctx, status, ppool, rx_queue>> PROVE SnullInv'
  <2>1. CtxInv' /\ \A d \in Devs, b \in Buffers : Held(d, b)' <=> Held(d, b)
    BY <1>15 DEF SnullInv, CtxInv, Held
  <2> QED
    BY <1>15, <2>1, NothingMoves
<1>16. ASSUME NEW d \in Devs, Admin(d) PROVE SnullInv'
  BY <1>15, <1>16 DEF Admin, Release, Open, lists, chip
<1>17. CASE UNCHANGED vars
  BY <1>15, <1>17 DEF vars, lists, chip
<1>18. ASSUME NEW d \in Devs, RegularInterrupt(d) PROVE SnullInv'
  BY <1>9, <1>18, InterruptMoves
<1>19. ASSUME NEW d \in Devs, Transmit(d) \/ Interrupt(d) \/ Timeout(d) \/ Admin(d)
       PROVE  SnullInv'
  BY <1>2, <1>3, <1>4, <1>5, <1>6, <1>7, <1>8, <1>10, <1>11, <1>11a, <1>12, <1>13, <1>14,
     <1>16, <1>18, <1>19 DEF Transmit, Interrupt, Timeout
<1> QED
  BY <1>17, <1>19 DEF Next, Rest

\* ... and so it is right for ever.
LEMMA SnullInvariance == Spec => []SnullInv
<1>1. Init => SnullInv
  BY SnullInitInv
<1>2. SnullInv /\ [Next]_vars => SnullInv'
  BY SnullNextInv
<1> QED
  BY <1>1, <1>2, PTL DEF Spec

(***************************************************************************)
(* The theorem.                                                            *)
(***************************************************************************)

\* One place each is one occurrence each.
LEMMA CountsAddUp == SnullInv => Conserved
<1> SUFFICES ASSUME SnullInv, NEW b \in Buffers
             PROVE  /\ Count(b, ppool[Owner(b)]) + Count(b, rx_queue[Twin[Owner(b)]])
                         + Cardinality(InHand(b)) = 1
                    /\ \A d \in Devs : /\ Owner(b) # d => Count(b, ppool[d]) = 0
                                       /\ Owner(b) # Twin[d] => Count(b, rx_queue[d]) = 0
  BY DEF Conserved
<1>1. \A d \in Devs : /\ Count(b, ppool[d]) = IF Listed(b, ppool[d]) THEN 1 ELSE 0
                      /\ Count(b, rx_queue[d]) = IF Listed(b, rx_queue[d]) THEN 1 ELSE 0
  BY CountFacts DEF SnullInv, ListInv
<1>2. /\ Count(b, ppool[Owner(b)]) = IF Pooled(b) THEN 1 ELSE 0
      /\ Count(b, rx_queue[Twin[Owner(b)]]) = IF Queued(b) THEN 1 ELSE 0
  BY <1>1, BufferFacts DEF Pooled, Queued
<1>3. InHand(b) = {d \in Devs : Held(d, b)}
  BY DEF InHand, Held
<1>4. OnePlace(b)
  BY DEF SnullInv, PlaceInv
<1>5. CASE \E d \in Devs : Held(d, b)
  <2>1. PICK d \in Devs : Held(d, b)
    BY <1>5
  <2>2. InHand(b) = {d}
    BY <1>3, <1>4, <2>1 DEF OnePlace
  <2>3. Cardinality(InHand(b)) = 1 /\ ~Pooled(b) /\ ~Queued(b)
    BY <1>4, <2>1, <2>2, FS_Singleton DEF OnePlace
  <2> QED
    BY <1>1, <1>2, <2>3 DEF SnullInv, ListInv
<1>6. CASE ~\E d \in Devs : Held(d, b)
  <2>1. Cardinality(InHand(b)) = 0
    BY <1>3, <1>6, FS_EmptySet
  <2>2. (Pooled(b) /\ ~Queued(b)) \/ (~Pooled(b) /\ Queued(b))
    BY <1>4, <1>6 DEF OnePlace
  <2> QED
    BY <1>1, <1>2, <2>1, <2>2 DEF SnullInv, ListInv
<1> QED
  BY <1>5, <1>6

\* However the processors interleave, with any number of devices, pool sizes, simulated
\* lockups, watchdog expiries and reopened devices, every packet is in exactly one place:
\* snull_get_tx_buffer, snull_enqueue_buf, snull_dequeue_buf and snull_release_buffer lose
\* and duplicate none.
THEOREM PacketsConserved == Spec => []Conserved
BY SnullInvariance, CountsAddUp, PTL

-----------------------------------------------------------------------------
(***************************************************************************)
(* What the memory-backed drivers deliver.                                 *)
(***************************************************************************)

(***************************************************************************)
(* The steps that touch what is delivered.                                 *)
(***************************************************************************)

\* The processor of d has taken a packet from the stack and not yet put it on the wire.
Making(d) == ctx[d].pc \in {"get", "enqueue"}

Step(d) == Transmit(d) \/ Interrupt(d) \/ Timeout(d) \/ Admin(d)

\* A step that neither starts, carries nor delivers a packet.
Aside ==
  /\ UNCHANGED <<rx_queue, content, got, sent, drops>>
  /\ \A e \in Devs : Making(e) \/ Making(e)' => ctx'[e] = ctx[e]

\* What a step does to the processor that takes it.
LEMMA OneProcessor ==
  ASSUME SnullInv, NEW d \in Devs, NEW c, ctx' = [ctx EXCEPT ![d] = c],
         ~Making(d), c.pc \notin {"get", "enqueue"}
  PROVE  \A e \in Devs : Making(e) \/ Making(e)' => ctx'[e] = ctx[e]
BY DEF SnullInv, CtxInv, Making

\* Only four steps start a packet, carry it or deliver it.
LEMMA WhatMoves ==
  ASSUME SnullInv, NEW d \in Devs, Step(d)
  PROVE  Tx(d) \/ GetTxBuffer(d) \/ Enqueue(d) \/ RegularInterrupt(d) \/ Aside
<1>1. ctx \in [Devs -> Context] /\ ctx[d].back \in {"idle", "read own", "restart"}
  BY DEF SnullInv, CtxInv, Context
<1> USE DEF Aside, lists, skbs, bounds
<1>2. CASE ReadDest(d)
  <2>1. CASE rx_int_enabled[Twin[d]]
    <3>1. PICK c : c = [ctx[d] EXCEPT !.pc = "write dest", !.word = status[Twin[d]]]
      OBVIOUS
    <3>2. ~Making(d) /\ UNCHANGED <<rx_queue, content, got, sent, drops>>
      BY <1>2 DEF ReadDest, At, Making
    <3>3. ctx' = [ctx EXCEPT ![d] = c]
      BY <1>2, <2>1, <3>1 DEF ReadDest
    <3>4. c.pc = "write dest"
      BY <1>1, <3>1 DEF Context
    <3> QED
      BY <3>2, <3>3, <3>4, OneProcessor
  <2>2. CASE ~rx_int_enabled[Twin[d]]
    <3>1. PICK c : c = [ctx[d] EXCEPT !.pc = "read own"]
      OBVIOUS
    <3>2. /\ ctx' = [ctx EXCEPT ![d] = c] /\ c.pc = "read own" /\ ~Making(d)
          /\ UNCHANGED <<rx_queue, content, got, sent, drops>>
      BY <1>1, <1>2, <2>2, <3>1 DEF ReadDest, Goto, At, Making, Context
    <3> QED
      BY <3>2, OneProcessor
  <2> QED
    BY <2>1, <2>2
<1>3. CASE WriteDest(d)
  <2>1. PICK c : c = [ctx[d] EXCEPT !.pc = "interrupt", !.on = Twin[d],
                                    !.word = {}, !.back = "read own"]
    OBVIOUS
  <2>2. /\ ctx' = [ctx EXCEPT ![d] = c] /\ c.pc = "interrupt" /\ ~Making(d)
        /\ UNCHANGED <<rx_queue, content, got, sent, drops>>
    BY <1>1, <1>3, <2>1 DEF WriteDest, At, Making, Context
  <2> QED
    BY <2>2, OneProcessor
<1>4. CASE ReadOwn(d)
  <2>1. PICK c : c = [ctx[d] EXCEPT !.pc = "write own", !.word = status[d]]
    OBVIOUS
  <2>2. /\ ctx' = [ctx EXCEPT ![d] = c] /\ c.pc = "write own" /\ ~Making(d)
        /\ UNCHANGED <<rx_queue, content, got, sent, drops>>
    BY <1>1, <1>4, <2>1 DEF ReadOwn, At, Making, Context
  <2> QED
    BY <2>2, OneProcessor
<1>5. CASE WriteOwn(d)
  <2>1. PICK c : c = IF Lockup # 0 /\ (tx_packets[d] + 1) % Lockup = 0 THEN Idle
                     ELSE [Idle EXCEPT !.pc = "interrupt", !.on = d]
    OBVIOUS
  <2>2. /\ ctx' = [ctx EXCEPT ![d] = c] /\ ~Making(d)
        /\ UNCHANGED <<rx_queue, content, got, sent, drops>>
    BY <1>1, <1>5, <2>1 DEF WriteOwn, At, Making
  <2>3. c.pc \in {"idle", "interrupt"}
    BY <2>1 DEF Idle
  <2> QED
    BY <2>2, <2>3, OneProcessor
<1>6. CASE NapiInterrupt(d) \/ WakeQueue(d)
  <2>1. PICK c : c = [Idle EXCEPT !.pc = ctx[d].back]
    OBVIOUS
  <2>2. /\ ctx' = [ctx EXCEPT ![d] = c] /\ ~Making(d)
        /\ UNCHANGED <<rx_queue, content, got, sent, drops>>
    BY <1>1, <1>6, <2>1 DEF NapiInterrupt, WakeQueue, Return, At, Making
  <2>3. c.pc \in {"idle", "read own", "restart"}
    BY <1>1, <2>1 DEF Idle
  <2> QED
    BY <2>2, <2>3, OneProcessor
<1>7. CASE ReleaseBuffer(d)
  <2>1. PICK c : c = [ctx[d] EXCEPT !.pc = "recheck"]
    OBVIOUS
  <2>2. /\ ctx' = [ctx EXCEPT ![d] = c] /\ c.pc = "recheck" /\ ~Making(d)
        /\ UNCHANGED <<rx_queue, content, got, sent, drops>>
    BY <1>1, <1>7, <2>1 DEF ReleaseBuffer, Goto, At, Making, Context
  <2> QED
    BY <2>2, OneProcessor
<1>7a. CASE Recheck(d)
  <2>1. PICK c : c = IF stopped[Home(d)] /\ ctx[d].pkt \in alone
                     THEN [ctx[d] EXCEPT !.pc = "wake"]
                     ELSE [Idle EXCEPT !.pc = ctx[d].back]
    OBVIOUS
  <2>2. /\ ctx' = [ctx EXCEPT ![d] = c] /\ ~Making(d)
        /\ UNCHANGED <<rx_queue, content, got, sent, drops>>
    BY <1>1, <1>7a, <2>1 DEF Recheck, Goto, Return, At, Making
  <2>3. c.pc \in {"wake", "idle", "read own", "restart"}
    BY <1>1, <2>1 DEF Idle, Context
  <2> QED
    BY <2>2, <2>3, OneProcessor
<1>8. CASE TxTimeout(d)
  <2>1. PICK c : c = [ctx[d] EXCEPT !.pc = "interrupt", !.on = d, !.back = "restart"]
    OBVIOUS
  <2>2. /\ ctx' = [ctx EXCEPT ![d] = c] /\ c.pc = "interrupt" /\ ~Making(d)
        /\ UNCHANGED <<rx_queue, content, got, sent, drops>>
    BY <1>1, <1>8, <2>1 DEF TxTimeout, At, Making, Context
  <2> QED
    BY <2>2, OneProcessor
<1>9. CASE TimeoutWake(d)
  <2>1. /\ ctx' = [ctx EXCEPT ![d] = Idle] /\ ~Making(d)
        /\ UNCHANGED <<rx_queue, content, got, sent, drops>>
    BY <1>1, <1>9 DEF TimeoutWake, At, Making
  <2>2. Idle.pc \notin {"get", "enqueue"}
    BY DEF Idle
  <2> QED
    BY <2>1, <2>2, OneProcessor
<1>10. CASE Release(d) \/ Open(d)
  BY <1>10 DEF Release, Open, Making
<1> QED
  BY <1>2, <1>3, <1>4, <1>5, <1>6, <1>7, <1>7a, <1>8, <1>9, <1>10
  DEF Step, Transmit, Interrupt, Timeout, Admin

\* Every step of the system is one of these, or nothing at all happens.
LEMMA AnyStep ==
  ASSUME SnullInv, [Next]_vars
  PROVE  \/ \E d \in Devs : Tx(d) \/ GetTxBuffer(d) \/ Enqueue(d) \/ RegularInterrupt(d)
         \/ Aside
<1>1. CASE UNCHANGED vars
  BY <1>1 DEF vars, lists, bounds, Aside, Making
<1>2. CASE \E d \in Devs : Step(d)
  BY <1>2, WhatMoves
<1> QED
  BY <1>1, <1>2 DEF Next, Rest, Step

(***************************************************************************)
(* Delivery.  The packets of a device are numbered; those it has put on    *)
(* the wire are either still on the receive queue of its twin, each in a   *)
(* buffer of its own, or have been handed up or dropped there.             *)
(***************************************************************************)

\* The packets of e that have reached the wire: the one in the making is not among them.
Handed(e) == IF Making(e) THEN sent[e] - 1 ELSE sent[e]
Past(e)   == {e} \X (1 .. Handed(e))

NumberInv ==
  /\ sent \in [Devs -> 0 .. MaxSent]
  /\ \A d \in Devs : Making(d) => sent[d] >= 1
  /\ content \in [Buffers -> (Devs \X (1 .. MaxSent)) \cup {NULL}]
  /\ got \in [Devs -> Seq(Devs \X (1 .. MaxSent))]

\* What waits on the receive queue of d, and what it has handed up.
CarryInv(d) ==
  /\ ctx[d].pc = "enqueue" => content[ctx[d].pkt] = <<d, sent[d]>>
  /\ \A b \in Buffers : Listed(b, rx_queue[d]) =>
       /\ content[b] \in Past(Twin[d])
       /\ ~Listed(content[b], got[d])
       /\ \A c \in Buffers : Listed(c, rx_queue[d]) /\ content[b] = content[c] => b = c
  /\ Distinct(got[d])
  /\ \A x : Listed(x, got[d]) => x \in Past(Twin[d])

DeliveryInv == NumberInv /\ \A d \in Devs : CarryInv(d)

\* Appending a packet that was not there.
LEMMA AppendFacts ==
  ASSUME NEW S, NEW list \in Seq(S), NEW x \in S
  PROVE  /\ Append(list, x) \in Seq(S)
         /\ \A y : Listed(y, Append(list, x)) <=> y = x \/ Listed(y, list)
         /\ Distinct(list) /\ ~Listed(x, list) => Distinct(Append(list, x))
<1> DEFINE longer == Append(list, x)
<1>1. /\ longer \in Seq(S) /\ Len(longer) = Len(list) + 1
      /\ \A i \in 1 .. Len(list) : longer[i] = list[i]
      /\ longer[Len(list) + 1] = x
  BY AppendProperties
<1>2. Len(list) \in Nat /\ DOMAIN list = 1 .. Len(list)
      /\ DOMAIN longer = 1 .. Len(list) + 1
  BY <1>1, LenProperties
<1> HIDE DEF longer
<1>3. ASSUME NEW y PROVE Listed(y, longer) <=> y = x \/ Listed(y, list)
  <2>1. Listed(y, longer) => y = x \/ Listed(y, list)
    BY <1>1, <1>2 DEF Listed
  <2>2. Listed(y, list) => Listed(y, longer)
    BY <1>1, <1>2 DEF Listed
  <2>3. Listed(x, longer)
    BY <1>1, <1>2 DEF Listed
  <2> QED
    BY <2>1, <2>2, <2>3
<1>4. ASSUME Distinct(list), ~Listed(x, list) PROVE Distinct(longer)
  BY <1>1, <1>2, <1>4 DEF Distinct, Listed
<1>5. \A y : Listed(y, longer) <=> y = x \/ Listed(y, list)
  BY <1>3
<1> QED
  BY <1>1, <1>4, <1>5 DEF longer

\* Nothing is carried at the start.
LEMMA DeliveryInit == Init => DeliveryInv
<1> SUFFICES ASSUME Init PROVE DeliveryInv
  OBVIOUS
<1>1. /\ \A d \in Devs : ctx[d].pc = "idle" /\ sent[d] = 0 /\ rx_queue[d] = << >>
                          /\ got[d] = << >>
      /\ content = [b \in Buffers |-> NULL] /\ got = [d \in Devs |-> << >>]
      /\ sent = [d \in Devs |-> 0]
  BY DEF Init, Quiet, Idle
<1>2. NumberInv
  <2>1. MaxSent \in Nat
    BY SnullAssumption
  <2>2. << >> \in Seq(Devs \X (1 .. MaxSent))
    BY EmptySeq
  <2> QED
    BY <1>1, <2>1, <2>2 DEF NumberInv, Making
<1>3. \A d \in Devs : CarryInv(d)
  BY <1>1 DEF CarryInv, Listed, Distinct
<1> QED
  BY <1>2, <1>3 DEF DeliveryInv

\* The number of a packet in the making is a new one.
LEMMA NewNumber ==
  ASSUME NumberInv, NEW d \in Devs, Making(d)
  PROVE  <<d, sent[d]>> \notin Past(d) /\ <<d, sent[d]>> \in Devs \X (1 .. MaxSent)
<1>1. sent[d] \in Nat /\ sent[d] >= 1 /\ sent[d] \in 0 .. MaxSent /\ MaxSent \in Nat
  BY SnullAssumption DEF NumberInv
<1>2. Past(d) = {d} \X (1 .. sent[d] - 1)
  BY DEF Past, Handed
<1>3. sent[d] \notin 1 .. sent[d] - 1 /\ sent[d] \in 1 .. MaxSent
  BY <1>1
<1> QED
  BY <1>2, <1>3

\* What is past stays past.
LEMMA PastGrows ==
  ASSUME NEW e, Handed(e) \in Int, Handed(e)' \in Int, Handed(e) <= Handed(e)'
  PROVE  Past(e) \subseteq Past(e)'
<1>1. 1 .. Handed(e) \subseteq 1 .. Handed(e)'
  OBVIOUS
<1> QED
  BY <1>1 DEF Past

\* A step that carries nothing.
LEMMA CarryKept ==
  ASSUME DeliveryInv, NEW d \in Devs, UNCHANGED <<rx_queue, got>>,
         \A b \in Buffers : Listed(b, rx_queue[d]) => content'[b] = content[b],
         Past(Twin[d]) \subseteq Past(Twin[d])',
         ctx'[d].pc = "enqueue" => content'[ctx'[d].pkt] = <<d, sent'[d]>>
  PROVE  CarryInv(d)'
BY DEF DeliveryInv, CarryInv

\* A step that touches no packet on its way keeps the deliveries right.
LEMMA AsideKeepsDelivery ==
  ASSUME SnullInv, DeliveryInv, Aside
  PROVE  DeliveryInv'
<1>1. /\ UNCHANGED <<rx_queue, content, got, sent>>
      /\ \A e \in Devs : Making(e) \/ Making(e)' => ctx'[e] = ctx[e]
  BY DEF Aside
<1>2. \A e \in Devs : Making(e)' <=> Making(e)
  BY <1>1 DEF Making
<1>3. \A e \in Devs : Past(e)' = Past(e)
  BY <1>1, <1>2 DEF Past, Handed
<1>4. NumberInv'
  BY <1>1, <1>2 DEF DeliveryInv, NumberInv
<1>5. ASSUME NEW d \in Devs PROVE CarryInv(d)'
  <2>1. ctx'[d].pc = "enqueue" => content'[ctx'[d].pkt] = <<d, sent'[d]>>
    BY <1>1 DEF Making, DeliveryInv, CarryInv
  <2> QED
    BY <1>1, <1>3, <2>1, BufferFacts, CarryKept
<1> QED
  BY <1>4, <1>5 DEF DeliveryInv

\* The stack hands over the next packet: its number is not yet past.
LEMMA TxKeepsDelivery ==
  ASSUME SnullInv, DeliveryInv, NEW d \in Devs, Tx(d)
  PROVE  DeliveryInv'
<1>1. /\ ctx \in [Devs -> Context] /\ sent \in [Devs -> 0 .. MaxSent] /\ MaxSent \in Nat
  BY SnullAssumption DEF SnullInv, CtxInv, DeliveryInv, NumberInv
<1>2. /\ ctx[d].pc = "idle" /\ ctx'[d].pc = "get"
      /\ \A e \in Devs : e # d => ctx'[e] = ctx[e] /\ sent'[e] = sent[e]
      /\ sent[d] < MaxSent /\ sent'[d] = sent[d] + 1
      /\ sent' \in [Devs -> 0 .. MaxSent]
      /\ UNCHANGED <<rx_queue, content, got>>
  BY <1>1 DEF Tx, At, Goto, lists
<1>3. NumberInv'
  <2>1. ASSUME NEW e \in Devs, Making(e)' PROVE sent'[e] >= 1
    <3>1. CASE e = d
      <4>1. sent[d] \in Nat
        BY <1>1
      <4> QED
        BY <1>2, <3>1, <4>1
    <3>2. CASE e # d
      <4>1. Making(e)
        BY <1>2, <2>1, <3>2 DEF Making
      <4> QED
        BY <1>2, <3>2, <4>1 DEF DeliveryInv, NumberInv
    <3> QED
      BY <3>1, <3>2
  <2> QED
    BY <1>2, <2>1 DEF DeliveryInv, NumberInv
<1>4. \A e \in Devs : Past(e)' = Past(e)
  BY <1>1, <1>2 DEF Past, Handed, Making
<1>5. ASSUME NEW e \in Devs PROVE CarryInv(e)'
  <2>1. ctx'[e].pc = "enqueue" => content'[ctx'[e].pkt] = <<e, sent'[e]>>
    BY <1>2 DEF DeliveryInv, CarryInv
  <2> QED
    BY <1>2, <1>4, <2>1, BufferFacts, CarryKept
<1> QED
  BY <1>3, <1>5 DEF DeliveryInv

\* snull_get_tx_buffer writes the packet into a buffer that waits on no receive queue.
LEMMA GetKeepsDelivery ==
  ASSUME SnullInv, DeliveryInv, NEW d \in Devs, GetTxBuffer(d)
  PROVE  DeliveryInv'
<1>1. /\ ctx \in [Devs -> Context] /\ sent \in [Devs -> 0 .. MaxSent] /\ MaxSent \in Nat
      /\ content \in [Buffers -> (Devs \X (1 .. MaxSent)) \cup {NULL}]
  BY SnullAssumption DEF SnullInv, CtxInv, DeliveryInv, NumberInv
<1>2. ctx[d].pc = "get" /\ Making(d) /\ UNCHANGED <<sent, got, rx_queue>>
  BY DEF GetTxBuffer, At, bounds, Making
<1>3. <<d, sent[d]>> \in Devs \X (1 .. MaxSent) /\ sent[d] >= 1
  BY <1>2, NewNumber DEF DeliveryInv, NumberInv
<1>4. CASE ppool[d] = << >>
  <2>1. /\ UNCHANGED content /\ ctx'[d].pc = "dead"
        /\ \A e \in Devs : e # d => ctx'[e] = ctx[e]
    <3>1. PICK c : c = [ctx[d] EXCEPT !.pc = "dead"]
      OBVIOUS
    <3>2. UNCHANGED content /\ ctx' = [ctx EXCEPT ![d] = c]
      BY <1>1, <1>4, <3>1 DEF GetTxBuffer, Goto
    <3>3. c.pc = "dead"
      BY <1>1, <3>1 DEF Context
    <3> QED
      BY <1>1, <3>2, <3>3
  <2>2. \A e \in Devs : e # d => Past(e)' = Past(e)
    BY <1>2, <2>1 DEF Past, Handed, Making
  <2>3. Past(d) \subseteq Past(d)'
    <3>1. /\ Handed(d) = sent[d] - 1 /\ Handed(d)' = sent[d]
          /\ sent[d] \in Int
      BY <1>1, <1>2, <2>1 DEF Handed, Making
    <3> QED
      BY <3>1, PastGrows
  <2>4. NumberInv'
    BY <1>1, <1>2, <2>1 DEF DeliveryInv, NumberInv, Making
  <2>5. ASSUME NEW e \in Devs PROVE CarryInv(e)'
    <3>1. ctx'[e].pc = "enqueue" => content'[ctx'[e].pkt] = <<e, sent'[e]>>
      BY <1>2, <2>1 DEF DeliveryInv, CarryInv
    <3>2. Past(Twin[e]) \subseteq Past(Twin[e])'
      BY <2>2, <2>3, BufferFacts
    <3> QED
      BY <1>2, <2>1, <3>1, <3>2, CarryKept
  <2> QED
    BY <2>4, <2>5 DEF DeliveryInv
<1>5. CASE ppool[d] # << >>
  <2>1. ppool[d] \in Seq(Buffers)
    BY DEF SnullInv, ListInv
  <2>2. PICK h \in Buffers : h = Head(ppool[d]) /\ Listed(h, ppool[d])
    BY <1>5, <2>1, TailFacts
  <2>3. Owner(h) = d /\ ~Queued(h)
    BY <2>2 DEF SnullInv, ListInv, PlaceInv, OnePlace, Pooled
  <2>4. /\ content' = [content EXCEPT ![h] = <<d, sent[d]>>]
        /\ ctx'[d].pc = "enqueue" /\ ctx'[d].pkt = h
        /\ \A e \in Devs : e # d => ctx'[e] = ctx[e]
    <3>1. PICK c : c = [ctx[d] EXCEPT !.pc = "enqueue", !.pkt = h]
      OBVIOUS
    <3>2. ctx' = [ctx EXCEPT ![d] = c] /\ content' = [content EXCEPT ![h] = <<d, sent[d]>>]
      BY <1>5, <2>2, <3>1 DEF GetTxBuffer
    <3>3. c.pc = "enqueue" /\ c.pkt = h
      BY <1>1, <3>1 DEF Context
    <3> QED
      BY <1>1, <3>2, <3>3
  <2>5. /\ content' \in [Buffers -> (Devs \X (1 .. MaxSent)) \cup {NULL}]
        /\ content'[h] = <<d, sent[d]>>
        /\ \A b \in Buffers : b # h => content'[b] = content[b]
    BY <1>1, <1>3, <2>4
  <2>6. \A e \in Devs : Past(e)' = Past(e)
    BY <1>2, <2>4 DEF Past, Handed, Making
  <2>7. NumberInv'
    BY <1>1, <1>2, <2>4, <2>5 DEF DeliveryInv, NumberInv, Making
  <2>8. ASSUME NEW e \in Devs PROVE CarryInv(e)'
    <3>1. ctx'[e].pc = "enqueue" => content'[ctx'[e].pkt] = <<e, sent'[e]>>
      <4>1. CASE e = d
        BY <1>2, <2>4, <2>5, <4>1
      <4>2. ASSUME e # d, ctx[e].pc = "enqueue"
            PROVE  ctx[e].pkt \in Buffers /\ ctx[e].pkt # h
        <5>1. ctx[e].pkt \in Buffers /\ Owner(ctx[e].pkt) = e
          BY <4>2 DEF SnullInv, CtxInv
        <5> QED
          BY <2>3, <4>2, <5>1
      <4> QED
        BY <1>2, <2>4, <2>5, <4>1, <4>2 DEF DeliveryInv, CarryInv
    <3>2. \A b \in Buffers : Listed(b, rx_queue[e]) => content'[b] = content[b]
      <4>1. ~Listed(h, rx_queue[e])
        BY <2>3, BufferFacts DEF SnullInv, ListInv, Queued
      <4> QED
        BY <2>5, <4>1
    <3> QED
      BY <1>2, <2>6, <3>1, <3>2, BufferFacts, CarryKept
  <2> QED
    BY <2>7, <2>8 DEF DeliveryInv
<1> QED
  BY <1>4, <1>5

\* snull_enqueue_buf: the packet with the newest number joins those that wait.
LEMMA EnqueueKeepsDelivery ==
  ASSUME SnullInv, DeliveryInv, NEW d \in Devs, Enqueue(d)
  PROVE  DeliveryInv'
<1>1. /\ ctx \in [Devs -> Context] /\ sent \in [Devs -> 0 .. MaxSent] /\ MaxSent \in Nat
      /\ rx_queue \in [Devs -> Seq(Buffers)] /\ Twin[d] \in Devs /\ Twin[Twin[d]] = d
  BY SnullAssumption, BufferFacts DEF SnullInv, CtxInv, ListInv, DeliveryInv, NumberInv
<1>2. ctx[d].pc = "enqueue" /\ Making(d) /\ UNCHANGED <<sent, got, content>>
  BY DEF Enqueue, At, bounds, Making
<1>3. PICK h \in Buffers : h = ctx[d].pkt
  BY <1>2 DEF SnullInv, CtxInv
<1>4. /\ content[h] = <<d, sent[d]>> /\ content[h] \notin Past(d) /\ sent[d] >= 1
  <2>1. content[h] = <<d, sent[d]>>
    BY <1>2, <1>3 DEF DeliveryInv, CarryInv
  <2>2. <<d, sent[d]>> \notin Past(d) /\ sent[d] >= 1
    BY <1>2, NewNumber DEF DeliveryInv, NumberInv
  <2> QED
    BY <2>1, <2>2
<1>5. /\ ctx'[d].pc = "read dest"
      /\ \A e \in Devs : e # d => ctx'[e] = ctx[e]
      /\ rx_queue'[Twin[d]] = Push(h, rx_queue[Twin[d]])
      /\ \A e \in Devs : e # Twin[d] => rx_queue'[e] = rx_queue[e]
  <2>1. PICK c : c = [ctx[d] EXCEPT !.pc = "read dest", !.pkt = NULL]
    OBVIOUS
  <2>2. /\ ctx' = [ctx EXCEPT ![d] = c]
        /\ rx_queue' = [rx_queue EXCEPT ![Twin[d]] = Push(h, @)]
    BY <1>3, <2>1 DEF Enqueue
  <2>3. c.pc = "read dest"
    BY <1>1, <2>1 DEF Context
  <2> QED
    BY <1>1, <2>2, <2>3
<1>6. \A b \in Buffers : Listed(b, rx_queue'[Twin[d]]) <=> b = h \/ Listed(b, rx_queue[Twin[d]])
  <2>1. rx_queue[Twin[d]] \in Seq(Buffers)
    BY <1>1
  <2>2. \A b : Listed(b, Push(h, rx_queue[Twin[d]])) <=> b = h \/ Listed(b, rx_queue[Twin[d]])
    BY <2>1, PushFacts
  <2> QED
    BY <1>5, <2>2
<1>7. Past(d) \subseteq Past(d)' /\ content[h] \in Past(d)'
  <2>1. /\ Handed(d) = sent[d] - 1 /\ Handed(d)' = sent[d] /\ sent[d] \in Int
    <3>1. sent[d] \in 0 .. MaxSent /\ sent' = sent
      BY <1>1, <1>2
    <3>2. sent[d] \in Int /\ sent'[d] = sent[d]
      BY <1>1, <3>1
    <3>3. ~Making(d)'
      BY <1>5 DEF Making
    <3> QED
      BY <1>2, <3>2, <3>3 DEF Handed
  <2>2. Past(d) \subseteq Past(d)'
    BY <2>1, PastGrows
  <2>3. Past(d)' = {d} \X (1 .. sent[d])
    BY <2>1 DEF Past
  <2> QED
    BY <1>1, <1>4, <2>2, <2>3
<1>8. \A e \in Devs : e # d => Past(e)' = Past(e)
  BY <1>2, <1>5 DEF Past, Handed, Making
<1>9. NumberInv'
  BY <1>2, <1>5 DEF DeliveryInv, NumberInv, Making
<1>10. ASSUME NEW e \in Devs PROVE ctx'[e].pc = "enqueue" => content'[ctx'[e].pkt] = <<e, sent'[e]>>
  BY <1>2, <1>5 DEF DeliveryInv, CarryInv
<1>11. CarryInv(Twin[d])'
  <2>1. CarryInv(Twin[d])
    BY <1>1 DEF DeliveryInv
  <2>2. ~Listed(content[h], got[Twin[d]])
    BY <1>1, <1>4, <2>1 DEF CarryInv
  <2>3. \A b \in Buffers : Listed(b, rx_queue[Twin[d]]) => content[b] # content[h]
    BY <1>1, <1>4, <2>1 DEF CarryInv
  <2> QED
    BY <1>1, <1>2, <1>6, <1>7, <1>10, <2>1, <2>2, <2>3 DEF CarryInv
<1>12. ASSUME NEW e \in Devs, e # Twin[d] PROVE CarryInv(e)'
  <2>1. Twin[e] # d /\ Twin[e] \in Devs /\ CarryInv(e)
    BY <1>12, BufferFacts DEF DeliveryInv
  <2> QED
    BY <1>2, <1>5, <1>8, <1>10, <1>12, <2>1 DEF CarryInv
<1> QED
  BY <1>9, <1>11, <1>12 DEF DeliveryInv

\* The interrupt handler takes one waiting packet and hands it up or drops it.
LEMMA InterruptKeepsDelivery ==
  ASSUME SnullInv, DeliveryInv, NEW d \in Devs, RegularInterrupt(d)
  PROVE  DeliveryInv'
<1>1. PICK e \in Devs : e = ctx[d].on
  BY DEF RegularInterrupt, At, SnullInv, CtxInv
<1>2. /\ ctx \in [Devs -> Context] /\ rx_queue \in [Devs -> Seq(Buffers)]
      /\ got \in [Devs -> Seq(Devs \X (1 .. MaxSent))]
      /\ ctx[d].back \in {"idle", "read own", "restart"}
  BY DEF SnullInv, CtxInv, ListInv, DeliveryInv, NumberInv, Context
<1>3. ctx[d].pc = "interrupt" /\ UNCHANGED <<sent, content>>
  BY DEF RegularInterrupt, At
<1>4. /\ \A f \in Devs : f # d => ctx'[f] = ctx[f]
      /\ ctx'[d].pc \notin {"get", "enqueue"}
  <2>1. CASE "RX" \in status[e] /\ rx_queue[e] # << >>
    <3>1. PICK c : c = [ctx[d] EXCEPT !.pc = "release", !.pkt = Head(rx_queue[e])]
      OBVIOUS
    <3>2. ctx' = [ctx EXCEPT ![d] = c]
      BY <1>1, <2>1, <3>1 DEF RegularInterrupt
    <3>3. c.pc = "release"
      BY <1>2, <3>1 DEF Context
    <3> QED
      BY <1>2, <3>2, <3>3
  <2>2. CASE ~("RX" \in status[e] /\ rx_queue[e] # << >>)
    <3>1. PICK c : c = [Idle EXCEPT !.pc = ctx[d].back]
      OBVIOUS
    <3>2. ctx' = [ctx EXCEPT ![d] = c]
      BY <1>1, <2>2, <3>1 DEF RegularInterrupt, Return
    <3>3. c.pc \notin {"get", "enqueue"}
      BY <1>2, <3>1 DEF Idle
    <3> QED
      BY <1>2, <3>2, <3>3
  <2> QED
    BY <2>1, <2>2
<1>5. \A f \in Devs : (Making(f)' <=> Making(f)) /\ Past(f)' = Past(f)
  BY <1>3, <1>4 DEF Past, Handed, Making
<1>6. \A f \in Devs : ctx'[f].pc = "enqueue" => content'[ctx'[f].pkt] = <<f, sent'[f]>>
  BY <1>3, <1>4 DEF DeliveryInv, CarryInv
<1>7. CASE ~("RX" \in status[e] /\ rx_queue[e] # << >>)
  <2>1. UNCHANGED <<rx_queue, got>>
    BY <1>1, <1>7 DEF RegularInterrupt
  <2>2. NumberInv'
    BY <1>3, <1>5, <2>1 DEF DeliveryInv, NumberInv
  <2> QED
    BY <1>3, <1>5, <1>6, <2>1, <2>2, BufferFacts, CarryKept DEF DeliveryInv
<1>8. CASE "RX" \in status[e] /\ rx_queue[e] # << >>
  <2>1. rx_queue[e] \in Seq(Buffers) /\ Distinct(rx_queue[e])
    BY DEF SnullInv, ListInv
  <2>2. PICK h \in Buffers : h = Head(rx_queue[e])
    BY <1>8, <2>1, TailFacts
  <2>3. /\ Listed(h, rx_queue[e])
        /\ \A b : Listed(b, Tail(rx_queue[e])) <=> Listed(b, rx_queue[e]) /\ b # h
    BY <1>8, <2>1, <2>2, TailFacts
  <2>4. /\ rx_queue'[e] = Tail(rx_queue[e])
        /\ \A f \in Devs : f # e => rx_queue'[f] = rx_queue[f]
        /\ got' = [got EXCEPT ![e] = Append(@, content[h])] \/ got' = got
    BY <1>1, <1>2, <1>8, <2>2 DEF RegularInterrupt, Unlinked, Rx
  <2>5. CarryInv(e) /\ Twin[e] \in Devs
    BY BufferFacts DEF DeliveryInv
  <2>6. content[h] \in Past(Twin[e]) /\ ~Listed(content[h], got[e])
    BY <2>3, <2>5 DEF CarryInv
  <2>7. content[h] \in Devs \X (1 .. MaxSent)
    <3>1. content[h] \in (Devs \X (1 .. MaxSent)) \cup {NULL}
      BY DEF DeliveryInv, NumberInv
    <3>2. NULL \notin Past(Twin[e])
      BY DEF Past, NULL
    <3> QED
      BY <2>6, <3>1, <3>2
  <2>8. /\ got' \in [Devs -> Seq(Devs \X (1 .. MaxSent))]
        /\ \A f \in Devs : f # e => got'[f] = got[f]
        /\ Distinct(got'[e])
        /\ \A x : Listed(x, got'[e]) => x = content[h] \/ Listed(x, got[e])
    <3>1. CASE got' = got
      BY <1>2, <2>5, <3>1 DEF CarryInv
    <3>2. CASE got' = [got EXCEPT ![e] = Append(@, content[h])]
      <4>1. got[e] \in Seq(Devs \X (1 .. MaxSent)) /\ Distinct(got[e])
        BY <1>2, <2>5 DEF CarryInv
      <4>2. /\ Append(got[e], content[h]) \in Seq(Devs \X (1 .. MaxSent))
            /\ Distinct(Append(got[e], content[h]))
            /\ \A x : Listed(x, Append(got[e], content[h])) <=> x = content[h] \/ Listed(x, got[e])
        BY <2>6, <2>7, <4>1, AppendFacts
      <4> QED
        BY <1>2, <3>2, <4>2
    <3> QED
      BY <2>4, <3>1, <3>2
  <2>9. NumberInv'
    BY <1>3, <1>5, <2>8 DEF DeliveryInv, NumberInv
  <2>10. CarryInv(e)'
    <3>1. Past(Twin[e])' = Past(Twin[e])
      BY <1>5, <2>5
    <3>2. ASSUME NEW b \in Buffers, Listed(b, rx_queue'[e])
          PROVE  /\ content[b] \in Past(Twin[e])
                 /\ ~Listed(content[b], got'[e])
                 /\ \A c \in Buffers : Listed(c, rx_queue'[e]) /\ content[b] = content[c] => b = c
      <4>1. Listed(b, rx_queue[e]) /\ b # h
        BY <2>3, <2>4, <3>2
      <4>2. content[b] # content[h]
        BY <2>3, <2>5, <4>1 DEF CarryInv
      <4> QED
        BY <2>3, <2>4, <2>5, <2>8, <4>1, <4>2 DEF CarryInv
    <3>3. \A x : Listed(x, got'[e]) => x \in Past(Twin[e])
      BY <2>5, <2>6, <2>8 DEF CarryInv
    <3> QED
      BY <1>3, <1>6, <2>8, <3>1, <3>2, <3>3 DEF CarryInv
  <2>11. ASSUME NEW f \in Devs, f # e PROVE CarryInv(f)'
    <3>1. CarryInv(f) /\ Past(Twin[f])' = Past(Twin[f])
      BY <1>5, BufferFacts DEF DeliveryInv
    <3> QED
      BY <1>3, <1>6, <2>4, <2>8, <2>11, <3>1 DEF CarryInv
  <2> QED
    BY <2>9, <2>10, <2>11 DEF DeliveryInv
<1> QED
  BY <1>7, <1>8

\* What is carried was sent, and once, for ever.
LEMMA DeliveryInvariance == Spec => []DeliveryInv
<1>1. Init => DeliveryInv
  BY DeliveryInit
<1>2. SnullInv /\ DeliveryInv /\ [Next]_vars => DeliveryInv'
  BY AnyStep, AsideKeepsDelivery, TxKeepsDelivery, GetKeepsDelivery,
     EnqueueKeepsDelivery, InterruptKeepsDelivery
<1> QED
  BY <1>1, <1>2, SnullInvariance, PTL DEF Spec

\* However the processors interleave, a device hands up no packet twice, none that its
\* twin has not put on the wire, and none that was overwritten while it waited.
THEOREM NoneTwice == Spec => []DeliveredOnce
<1>1. DeliveryInv => DeliveredOnce
  <2> SUFFICES ASSUME DeliveryInv, NEW d \in Devs, NEW i \in DOMAIN got[d]
               PROVE  /\ got[d][i] \in {Twin[d]} \X (1 .. sent[Twin[d]])
                      /\ \A j \in DOMAIN got[d] : got[d][i] = got[d][j] => i = j
    BY DEF DeliveredOnce
  <2>1. CarryInv(d) /\ Twin[d] \in Devs /\ sent[Twin[d]] \in Nat
    BY BufferFacts DEF DeliveryInv, NumberInv
  <2>2. got[d][i] \in Past(Twin[d])
    BY <2>1 DEF CarryInv, Listed
  <2>3. 1 .. Handed(Twin[d]) \subseteq 1 .. sent[Twin[d]]
    BY <2>1 DEF Handed
  <2>4. got[d][i] \in {Twin[d]} \X (1 .. sent[Twin[d]])
    BY <2>2, <2>3 DEF Past
  <2> QED
    BY <2>1, <2>4 DEF CarryInv, Distinct
<1> QED
  BY <1>1, DeliveryInvariance, PTL

(***************************************************************************)
(* Types.                                                                  *)
(***************************************************************************)

\* A list of packets of one device on which none is twice has room for the pool, no more.
LEMMA ListBound ==
  ASSUME NEW list \in Seq(Buffers), Distinct(list), NEW o,
         \A b \in Buffers : Listed(b, list) => Owner(b) = o
  PROVE  Len(list) <= PoolSize
<1>1. Len(list) \in Nat /\ DOMAIN list = 1 .. Len(list) /\ PoolSize \in Nat
  BY LenProperties, SnullAssumption
<1>2. \A i \in 1 .. Len(list) : list[i] \in Buffers /\ Owner(list[i]) = o
  <2>1. \A i \in 1 .. Len(list) : list[i] \in Buffers
    BY <1>1, ElementOfSeq
  <2> QED
    BY <1>1, <2>1 DEF Listed
<1>3. PICK f : f = [i \in 1 .. Len(list) |-> list[i][2]]
  OBVIOUS
<1>4. \A i \in 1 .. Len(list) : list[i] = <<o, f[i]>> /\ f[i] \in 1 .. PoolSize
  BY <1>2, <1>3 DEF Buffers, Owner
<1>5. f \in [1 .. Len(list) -> 1 .. PoolSize]
  BY <1>3, <1>4
<1>6. /\ IsFiniteSet(1 .. Len(list)) /\ Cardinality(1 .. Len(list)) = Len(list)
      /\ IsFiniteSet(1 .. PoolSize) /\ Cardinality(1 .. PoolSize) = PoolSize
  <2>1. ASSUME NEW n \in Nat PROVE IsFiniteSet(1 .. n) /\ Cardinality(1 .. n) = n
    <3>1. n \in Int /\ 1 \in Int
      OBVIOUS
    <3>2. IsFiniteSet(1 .. n) /\ Cardinality(1 .. n) = IF 1 > n THEN 0 ELSE n - 1 + 1
      BY <3>1, FS_Interval
    <3>3. (IF 1 > n THEN 0 ELSE n - 1 + 1) = n
      OBVIOUS
    <3> QED
      BY <3>2, <3>3
  <2> QED
    BY <1>1, <2>1
<1>7. CASE PoolSize < Len(list)
  <2>1. \E i, j \in 1 .. Len(list) : i # j /\ f[i] = f[j]
    BY <1>5, <1>6, <1>7, FS_PigeonHole
  <2> QED
    BY <1>1, <1>4, <2>1 DEF Distinct
<1> QED
  BY <1>1, <1>7

TypeInv ==
  /\ up \in [Devs -> BOOLEAN] /\ stopped \in [Devs -> BOOLEAN]
  /\ alone \subseteq Buffers
  /\ rx_int_enabled \in [Devs -> BOOLEAN]
  /\ skb \in [Devs -> 0 .. MaxSent] /\ tx_packets \in [Devs -> Nat]
  /\ live \subseteq Devs \X (1 .. MaxSent)
  /\ faults \subseteq {"null pointer", "use after free", "double free"}

\* The types hold at the start, ...
LEMMA TypeInit == Init => TypeInv
<1>1. MaxSent \in Nat /\ PoolSize \in Nat \ {0}
  BY SnullAssumption
<1>2. 1 \in 1 .. PoolSize /\ 0 \in 0 .. MaxSent
  BY <1>1
<1> QED
  BY <1>2 DEF Init, Quiet, TypeInv, Buffers

\* Setting one entry of a table of truth values.
LEMMA FlagSet ==
  ASSUME NEW f \in [Devs -> BOOLEAN], NEW d, NEW v \in BOOLEAN
  PROVE  [f EXCEPT ![d] = v] \in [Devs -> BOOLEAN]
OBVIOUS

\* The interrupt handler ends a transmission or leaves it alone.
LEMMA TxDoneTypes ==
  ASSUME TypeInv, NEW e \in Devs, TxDone(e)
  PROVE  /\ tx_packets' \in [Devs -> Nat]
         /\ live' \subseteq live
         /\ faults' \subseteq {"null pointer", "use after free", "double free"}
<1>1. tx_packets \in [Devs -> Nat]
      /\ faults \subseteq {"null pointer", "use after free", "double free"}
  BY DEF TypeInv
<1>2. CASE "TX" \in status[e]
  <2>1. tx_packets' = [tx_packets EXCEPT ![e] = @ + 1]
        /\ live' = live \ {<<e, skb[e]>>}
        /\ faults' \in {faults, faults \cup {"double free"}}
    BY <1>2 DEF TxDone, FreeSkb
  <2>2. tx_packets' \in [Devs -> Nat]
    <3>1. PICK n : n = tx_packets[e] + 1
      OBVIOUS
    <3>2. tx_packets[e] \in Nat
      BY <1>1
    <3>3. n \in Nat
      BY <3>1, <3>2
    <3>4. tx_packets' = [tx_packets EXCEPT ![e] = n]
      BY <2>1, <3>1
    <3> QED
      BY <1>1, <3>3, <3>4
  <2> QED
    BY <1>1, <2>1, <2>2
<1>3. CASE "TX" \notin status[e]
  BY <1>1, <1>3 DEF TxDone
<1> QED
  BY <1>2, <1>3

\* One list operation links or unlinks one packet.
LEMMA LinkTypes ==
  ASSUME alone \subseteq Buffers, NEW b \in Buffers, NEW list, Link(b, list)
  PROVE  alone' \subseteq Buffers
BY DEF Link

\* ... every step keeps them, ...
LEMMA TypeStep ==
  ASSUME SnullInv, NumberInv, NumberInv', TypeInv, [Next]_vars
  PROVE  TypeInv'
<1> USE DEF TypeInv, lists, chip, skbs, link, bounds
<1>0. /\ sent \in [Devs -> 0 .. MaxSent] /\ sent' \in [Devs -> 0 .. MaxSent]
      /\ MaxSent \in Nat /\ TypeInv
  BY SnullAssumption DEF NumberInv
<1>1. ASSUME NEW d \in Devs, Tx(d) PROVE TypeInv'
  <2>1. PICK n : n = sent[d] + 1
    OBVIOUS
  <2>2. /\ n \in 1 .. MaxSent /\ n \in 0 .. MaxSent
        /\ sent'[d] = n
    <3>1. sent' = [sent EXCEPT ![d] = sent[d] + 1] /\ sent[d] < MaxSent
      BY <1>1 DEF Tx
    <3>2. sent[d] \in 0 .. MaxSent /\ sent'[d] = sent[d] + 1
      BY <1>0, <3>1
    <3>3. n \in 1 .. MaxSent /\ n \in 0 .. MaxSent
      <4>1. MaxSent \in Nat /\ sent[d] \in 0 .. MaxSent /\ sent[d] < MaxSent
        BY <1>0, <3>1, <3>2
      <4> HIDE DEF TypeInv
      <4> QED
        BY <2>1, <4>1
    <3> QED
      BY <2>1, <3>2, <3>3
  <2>3. skb' = [skb EXCEPT ![d] = n] /\ live' = live \cup {<<d, n>>}
    BY <1>1, <2>2 DEF Tx
  <2>4. skb' \in [Devs -> 0 .. MaxSent] /\ live' \subseteq Devs \X (1 .. MaxSent)
    <3>1. skb \in [Devs -> 0 .. MaxSent] /\ live \subseteq Devs \X (1 .. MaxSent)
      BY <1>0
    <3>2. skb' \in [Devs -> 0 .. MaxSent]
      BY <2>2, <2>3, <3>1
    <3>3. <<d, n>> \in Devs \X (1 .. MaxSent)
      BY <2>2
    <3> QED
      BY <2>3, <3>1, <3>2, <3>3
  <2> QED
    BY <1>0, <1>1, <2>4 DEF Tx
<1>2. ASSUME NEW d \in Devs, GetTxBuffer(d) PROVE TypeInv'
  <2>1. stopped' \in [Devs -> BOOLEAN]
    <3>1. CASE ppool[d] = << >>
      BY <1>2, <3>1 DEF GetTxBuffer
    <3>2. CASE ppool[d] # << >>
      <4>1. stopped' = [stopped EXCEPT ![d] = stopped[d] \/ Tail(ppool[d]) = << >>]
        BY <1>2, <3>2 DEF GetTxBuffer, StopIfEmpty
      <4>2. PICK v \in BOOLEAN : v = (stopped[d] \/ Tail(ppool[d]) = << >>)
        OBVIOUS
      <4> QED
        BY <4>1, <4>2, FlagSet
    <3> QED
      BY <3>1, <3>2
  <2>2. faults' \subseteq {"null pointer", "use after free", "double free"}
    BY <1>2 DEF GetTxBuffer
  <2>3. UNCHANGED <<up, alone, rx_int_enabled, skb, tx_packets, live>>
    BY <1>2 DEF GetTxBuffer
  <2> QED
    BY <2>1, <2>2, <2>3
<1>3. ASSUME NEW d \in Devs, Enqueue(d) PROVE TypeInv'
  <2>1. ctx[d].pkt \in Buffers
    BY <1>3 DEF Enqueue, At, SnullInv, CtxInv
  <2>2. alone' \subseteq Buffers
    BY <1>3, <2>1, LinkTypes DEF Enqueue
  <2> QED
    BY <1>3, <2>2 DEF Enqueue
<1>4. ASSUME NEW d \in Devs, ReadDest(d) \/ WriteDest(d) \/ ReadOwn(d) PROVE TypeInv'
  BY <1>4 DEF ReadDest, WriteDest, ReadOwn
<1>5. ASSUME NEW d \in Devs, WriteOwn(d) PROVE TypeInv'
  <2>1. stopped' \in [Devs -> BOOLEAN]
    BY <1>5 DEF WriteOwn
  <2> QED
    BY <1>5, <2>1 DEF WriteOwn
<1>6. ASSUME NEW d \in Devs, RegularInterrupt(d) PROVE TypeInv'
  <2>1. PICK e \in Devs : e = ctx[d].on
    BY <1>6 DEF RegularInterrupt, At, SnullInv, CtxInv
  <2>2. TxDone(e) /\ UNCHANGED <<up, stopped, alone, rx_int_enabled, skb>>
    BY <1>6, <2>1 DEF RegularInterrupt
  <2> QED
    BY <2>2, TxDoneTypes
<1>7. ASSUME NEW d \in Devs, NapiInterrupt(d) PROVE TypeInv'
  <2>1. PICK e \in Devs : e = ctx[d].on
    BY <1>7 DEF NapiInterrupt, At, SnullInv, CtxInv
  <2>2. /\ TxDone(e) /\ UNCHANGED <<up, stopped, alone, skb>>
        /\ rx_int_enabled' = [rx_int_enabled EXCEPT ![e] = rx_int_enabled[e] /\ "RX" \notin status[e]]
    BY <1>7, <2>1 DEF NapiInterrupt
  <2>3. PICK v \in BOOLEAN : v = (rx_int_enabled[e] /\ "RX" \notin status[e])
    OBVIOUS
  <2>4. rx_int_enabled' \in [Devs -> BOOLEAN]
    BY <2>2, <2>3, FlagSet
  <2> QED
    BY <2>2, <2>4, TxDoneTypes
<1>8. ASSUME NEW d \in Devs, ReleaseBuffer(d) PROVE TypeInv'
  <2>1. ctx[d].pkt \in Buffers
    BY <1>8 DEF ReleaseBuffer, At, SnullInv, CtxInv
  <2>2. alone' \subseteq Buffers
    BY <1>8, <2>1, LinkTypes DEF ReleaseBuffer
  <2> QED
    BY <1>8, <2>2 DEF ReleaseBuffer
<1>9. ASSUME NEW d \in Devs, Recheck(d) \/ WakeQueue(d) PROVE TypeInv'
  <2>1. stopped' \in [Devs -> BOOLEAN]
    BY <1>9 DEF Recheck, WakeQueue
  <2> QED
    BY <1>9, <2>1 DEF Recheck, WakeQueue
<1>10. ASSUME NEW d \in Devs, Timeout(d) PROVE TypeInv'
  <2>1. CASE TxTimeout(d)
    BY <2>1 DEF TxTimeout
  <2>2. CASE TimeoutWake(d)
    <3>1. stopped' \in [Devs -> BOOLEAN]
      BY <2>2 DEF TimeoutWake
    <3> QED
      BY <2>2, <3>1 DEF TimeoutWake
  <2> QED
    BY <1>10, <2>1, <2>2 DEF Timeout
<1>11. ASSUME NEW d \in Devs, Admin(d) PROVE TypeInv'
  <2>1. up' \in [Devs -> BOOLEAN] /\ stopped' \in [Devs -> BOOLEAN]
    BY <1>11 DEF Admin, Release, Open
  <2> QED
    BY <1>11, <2>1 DEF Admin, Release, Open
<1>12. CASE UNCHANGED vars
  BY <1>12 DEF vars
<1> QED
  BY <1>1, <1>2, <1>3, <1>4, <1>5, <1>6, <1>7, <1>8, <1>9, <1>10, <1>11, <1>12
  DEF Next, Rest, Transmit, Interrupt

\* ... and so they hold for ever.
LEMMA TypeInvariance == Spec => []TypeInv
<1>1. Init => TypeInv
  BY TypeInit
<1>2. SnullInv /\ DeliveryInv /\ DeliveryInv' /\ TypeInv /\ [Next]_vars => TypeInv'
  BY TypeStep DEF DeliveryInv
<1> QED
  BY <1>1, <1>2, SnullInvariance, DeliveryInvariance, PTL DEF Spec

\* Every variable keeps its type, however the processors interleave; in particular no list
\* is ever longer than a pool.
THEOREM SnullTypeCorrect == Spec => []TypeOK
<1>1. SnullInv /\ DeliveryInv /\ TypeInv => TypeOK
  <2> SUFFICES ASSUME SnullInv, DeliveryInv, TypeInv PROVE TypeOK
    OBVIOUS
  <2>1. \A d \in Devs : Len(ppool[d]) <= PoolSize /\ Len(rx_queue[d]) <= PoolSize
    <3> SUFFICES ASSUME NEW d \in Devs
                 PROVE  Len(ppool[d]) <= PoolSize /\ Len(rx_queue[d]) <= PoolSize
      OBVIOUS
    <3>1. /\ ppool[d] \in Seq(Buffers) /\ rx_queue[d] \in Seq(Buffers)
          /\ Distinct(ppool[d]) /\ Distinct(rx_queue[d])
          /\ \A b \in Buffers : Listed(b, ppool[d]) => Owner(b) = d
          /\ \A b \in Buffers : Listed(b, rx_queue[d]) => Owner(b) = Twin[d]
      BY DEF SnullInv, ListInv
    <3> QED
      BY <3>1, ListBound
  <2>2. \A d \in Devs : /\ ctx[d].pkt \in Buffers \cup {NULL} /\ ctx[d].on \in Devs \cup {NULL}
                        /\ ctx[d].word \subseteq {"RX", "TX"}
    BY DEF SnullInv, CtxInv, Context
  <2> QED
    BY <2>1, <2>2 DEF SnullInv, CtxInv, ListInv, DeliveryInv, NumberInv, TypeInv, TypeOK
<1> QED
  BY <1>1, SnullInvariance, DeliveryInvariance, TypeInvariance, PTL

(***************************************************************************)
(* A device that is its own wire (vlc.c), running and interrupt driven.    *)
(* One processor carries a packet all the way, so that the state of the    *)
(* device follows from where that processor is.                            *)
(***************************************************************************)

SelfWired == \A d \in Devs : Twin[d] = d
\* Interrupts, not polling, and no device closed and opened again: a device that is opened
\* forgets what it owed before.
Steady == ~use_napi /\ opens = 0

\* The kernel waits for the skb of the transmission under way.
Owed(d)   == <<d, sent[d]>> \in live
Dry(d)    == stopped[d] => ppool[d] = << >>
Clear(d)  == rx_queue[d] = << >> /\ status[d] = {}
Rising(l) == \A i, j \in DOMAIN l : i < j => l[i][2] < l[j][2]

\* Nothing under way, or a simulated lockup: an interrupt that did not come.
Resting(d) ==
  /\ At(d, "idle") /\ rx_queue[d] = << >>
  /\ \/ status[d] = {} /\ ~Owed(d) /\ (up[d] => ~stopped[d])
     \/ status[d] = {"TX"} /\ Owed(d) /\ stopped[d]
\* The packet is filled and goes to the wire.
Sending(d) ==
  /\ up[d] /\ Owed(d) /\ Clear(d)
  /\ \/ At(d, "get") /\ ~stopped[d]
     \/ At(d, "enqueue") /\ content[ctx[d].pkt] = <<d, sent[d]>> /\ Dry(d)
\* It waits alone for the interrupt of the receiver.
Arriving(d) ==
  /\ up[d] /\ Owed(d) /\ Dry(d)
  /\ \E b \in Buffers : rx_queue[d] = <<b>> /\ content[b] = <<d, sent[d]>>
  /\ \/ At(d, "read dest") /\ status[d] = {}
     \/ At(d, "write dest") /\ status[d] = {} /\ ctx[d].word = {}
     \/ At(d, "interrupt") /\ status[d] = {"RX"} /\ ctx[d].on = d /\ ctx[d].back = "read own"
\* It goes back to the pool, and the queue runs again if it was stopped.
Returning(d) ==
  /\ up[d] /\ Owed(d) /\ Clear(d) /\ ctx[d].back = "read own" /\ Owner(ctx[d].pkt) = d
  /\ \/ At(d, "release") /\ Dry(d)
     \/ At(d, "recheck") /\ (stopped[d] => ctx[d].pkt \in alone)
     \/ At(d, "wake")
\* The interrupt of the sender is on its way.
Finishing(d) ==
  /\ up[d] /\ Owed(d) /\ ~stopped[d] /\ rx_queue[d] = << >>
  /\ \/ At(d, "read own") /\ status[d] = {}
     \/ At(d, "write own") /\ status[d] = {} /\ ctx[d].word = {}
     \/ At(d, "interrupt") /\ status[d] = {"TX"} /\ ctx[d].on = d /\ ctx[d].back = "idle"
\* The watchdog makes up for an interrupt that did not come.
Restarting(d) ==
  /\ up[d] /\ rx_queue[d] = << >>
  /\ \/ /\ At(d, "interrupt") /\ status[d] = {"TX"} /\ Owed(d)
        /\ ctx[d].on = d /\ ctx[d].back = "restart"
     \/ At(d, "restart") /\ status[d] = {} /\ ~Owed(d)

Phase(d) == \/ Resting(d) \/ Sending(d) \/ Arriving(d)
            \/ Returning(d) \/ Finishing(d) \/ Restarting(d)

OwnWire(d) ==
  /\ skb[d] = sent[d] /\ rx_int_enabled[d] = TRUE
  /\ \A s \in live : s[1] = d => s = <<d, sent[d]>>
  /\ Rising(got[d])
  /\ Phase(d)

WireInv == /\ opens \in Nat
           /\ Steady => faults = {} /\ \A d \in Devs : OwnWire(d)

\* A device wired to itself rests at the start.
LEMMA WireInit == Init => WireInv
<1>0. Init => faults = {} /\ opens \in Nat
  BY DEF Init, Quiet
<1> SUFFICES ASSUME Init, NEW d \in Devs PROVE OwnWire(d)
  BY <1>0 DEF WireInv
<1>1. /\ skb[d] = 0 /\ sent[d] = 0 /\ rx_int_enabled[d] = TRUE /\ live = {}
      /\ got[d] = << >> /\ rx_queue[d] = << >> /\ status[d] = {} /\ ~stopped[d]
      /\ ctx[d].pc = "idle"
  BY DEF Init, Quiet, Idle
<1>2. Rising(got[d])
  BY <1>1 DEF Rising
<1>3. Resting(d)
  BY <1>1 DEF Resting, At, Owed
<1> QED
  BY <1>1, <1>2, <1>3 DEF OwnWire, Phase

(***************************************************************************)
(* What the processor of one device leaves alone.                          *)
(***************************************************************************)

\* Nothing of device d has changed.
Untouched(d) ==
  /\ ctx'[d] = ctx[d] /\ status'[d] = status[d] /\ rx_int_enabled'[d] = rx_int_enabled[d]
  /\ rx_queue'[d] = rx_queue[d] /\ ppool'[d] = ppool[d]
  /\ stopped'[d] = stopped[d] /\ up'[d] = up[d]
  /\ skb'[d] = skb[d] /\ sent'[d] = sent[d] /\ got'[d] = got[d]
  /\ \A b \in Buffers : Owner(b) = d => /\ content'[b] = content[b]
                                        /\ b \in alone' <=> b \in alone
  /\ \A s : s[1] = d => (s \in live' <=> s \in live)

\* A step of another device leaves it where it is.
LEMMA UntouchedKeeps ==
  ASSUME SnullInv, NEW d \in Devs, Twin[d] = d, Untouched(d), OwnWire(d)
  PROVE  OwnWire(d)'
<1>1. Owed(d)' <=> Owed(d)
  <2>1. <<d, sent[d]>>[1] = d
    OBVIOUS
  <2> QED
    BY <2>1 DEF Untouched, Owed
<1>2. (Dry(d)' <=> Dry(d)) /\ (Clear(d)' <=> Clear(d))
  BY DEF Untouched, Dry, Clear
<1>3. \A pc : At(d, pc)' <=> At(d, pc)
  BY DEF Untouched, At
<1>4. Resting(d) => Resting(d)'
  BY <1>1, <1>3 DEF Untouched, Resting
<1>5. Sending(d) => Sending(d)'
  <2>1. ASSUME At(d, "enqueue") PROVE content'[ctx[d].pkt] = content[ctx[d].pkt]
    <3>1. ctx[d].pkt \in Buffers /\ Owner(ctx[d].pkt) = d
      BY <2>1 DEF At, SnullInv, CtxInv
    <3> QED
      BY <3>1 DEF Untouched
  <2> QED
    BY <1>1, <1>2, <1>3, <2>1 DEF Untouched, Sending
<1>6. Arriving(d) => Arriving(d)'
  <2>1. ASSUME NEW b \in Buffers, rx_queue[d] = <<b>> PROVE content'[b] = content[b]
    <3>1. Listed(b, rx_queue[d])
      BY <2>1 DEF Listed
    <3>2. Owner(b) = d
      BY <3>1 DEF SnullInv, ListInv
    <3> QED
      BY <3>2 DEF Untouched
  <2>2. Arriving(d) => \E b \in Buffers : rx_queue'[d] = <<b>> /\ content'[b] = <<d, sent'[d]>>
    BY <2>1 DEF Untouched, Arriving
  <2> QED
    BY <1>1, <1>2, <1>3, <2>2 DEF Untouched, Arriving
<1>7. Returning(d) => Returning(d)'
  <2>1. ASSUME At(d, "recheck"), Owner(ctx[d].pkt) = d
        PROVE  ctx[d].pkt \in alone' <=> ctx[d].pkt \in alone
    <3>1. ctx[d].pkt \in Buffers
      BY <2>1 DEF At, SnullInv, CtxInv
    <3> QED
      BY <2>1, <3>1 DEF Untouched
  <2> QED
    BY <1>1, <1>2, <1>3, <2>1 DEF Untouched, Returning
<1>8. Finishing(d) => Finishing(d)'
  BY <1>1, <1>3 DEF Untouched, Finishing
<1>9. Restarting(d) => Restarting(d)'
  BY <1>1, <1>3 DEF Untouched, Restarting
<1>10. Phase(d)'
  BY <1>4, <1>5, <1>6, <1>7, <1>8, <1>9 DEF OwnWire, Phase
<1> QED
  BY <1>10 DEF Untouched, OwnWire

\* A packet of another device is linked nowhere else.
LEMMA LinkElsewhere ==
  ASSUME NEW b \in Buffers, NEW list, Link(b, list), NEW d, Owner(b) # d
  PROVE  \A c \in Buffers : Owner(c) = d => (c \in alone' <=> c \in alone)
BY DEF Link

\* The processor of a device that is its own wire touches no other device.
LEMMA OthersUntouched ==
  ASSUME SnullInv, NumberInv, TypeInv, NEW e \in Devs, NEW d \in Devs, d # e,
         Twin[e] = e, OwnWire(e), ~use_napi, Step(e)
  PROVE  Untouched(d)
<1> USE DEF Untouched, lists, chip, skbs, link, bounds
<1>1. /\ ctx \in [Devs -> Context] /\ status \in [Devs -> SUBSET {"RX", "TX"}]
      /\ ppool \in [Devs -> Seq(Buffers)] /\ rx_queue \in [Devs -> Seq(Buffers)]
      /\ sent \in [Devs -> 0 .. MaxSent] /\ got \in [Devs -> Seq(Devs \X (1 .. MaxSent))]
      /\ up \in [Devs -> BOOLEAN] /\ stopped \in [Devs -> BOOLEAN]
      /\ skb \in [Devs -> 0 .. MaxSent]
  BY DEF SnullInv, CtxInv, ListInv, NumberInv, TypeInv
<1>2. CASE Tx(e)
  <2>1. \A s : s[1] = d => (s \in live' <=> s \in live)
    <3>1. live' = live \cup {<<e, sent'[e]>>} /\ <<e, sent'[e]>>[1] = e
      BY <1>2 DEF Tx
    <3> QED
      BY <3>1
  <2>2. ctx'[d] = ctx[d] /\ sent'[d] = sent[d] /\ skb'[d] = skb[d]
    BY <1>1, <1>2 DEF Tx, Goto
  <2> QED
    BY <1>2, <2>1, <2>2 DEF Tx
<1>3. CASE GetTxBuffer(e)
  <2>1. CASE ppool[e] = << >>
    BY <1>1, <1>3, <2>1 DEF GetTxBuffer, Goto
  <2>2. CASE ppool[e] # << >>
    <3>1. PICK h \in Buffers : h = Head(ppool[e]) /\ Listed(h, ppool[e])
      BY <1>1, <2>2, TailFacts
    <3>2. Owner(h) = e
      BY <3>1 DEF SnullInv, ListInv
    <3>3. \A b \in Buffers : Owner(b) = d => content'[b] = content[b]
      <4>1. content' = [content EXCEPT ![h] = <<e, sent[e]>>]
        BY <1>3, <2>2, <3>1 DEF GetTxBuffer
      <4> QED
        BY <3>2, <4>1 DEF NumberInv
    <3>4. ctx'[d] = ctx[d] /\ ppool'[d] = ppool[d] /\ stopped'[d] = stopped[d]
      BY <1>1, <1>3, <2>2 DEF GetTxBuffer, StopIfEmpty
    <3> QED
      BY <1>3, <3>3, <3>4 DEF GetTxBuffer
  <2> QED
    BY <2>1, <2>2
<1>4. CASE Enqueue(e)
  <2>1. ctx[e].pkt \in Buffers /\ Owner(ctx[e].pkt) = e
    BY <1>4 DEF Enqueue, At, SnullInv, CtxInv
  <2>2. \A b \in Buffers : Owner(b) = d => (b \in alone' <=> b \in alone)
    BY <1>4, <2>1, LinkElsewhere DEF Enqueue
  <2>3. ctx'[d] = ctx[d] /\ rx_queue'[d] = rx_queue[d]
    BY <1>1, <1>4 DEF Enqueue
  <2> QED
    BY <1>4, <2>2, <2>3 DEF Enqueue
<1>5. CASE ReadDest(e)
  BY <1>1, <1>5 DEF ReadDest, Goto
<1>6. CASE WriteDest(e)
  BY <1>1, <1>6 DEF WriteDest
<1>7. CASE ReadOwn(e)
  BY <1>1, <1>7 DEF ReadOwn
<1>8. CASE WriteOwn(e)
  <2>1. ctx'[d] = ctx[d] /\ stopped'[d] = stopped[d]
    BY <1>1, <1>8 DEF WriteOwn
  <2> QED
    BY <1>1, <1>8, <2>1 DEF WriteOwn
<1>9. CASE RegularInterrupt(e)
  <2>1. ctx[e].on = e
    BY <1>9 DEF RegularInterrupt, At, OwnWire, Phase, Resting, Sending, Arriving, Returning,
                Finishing, Restarting
  <2>2. \A s : s[1] = d => (s \in live' <=> s \in live)
    <3>1. live' = live \/ live' = live \ {<<e, skb[e]>>}
      BY <1>9, <2>1 DEF RegularInterrupt, TxDone, FreeSkb
    <3>2. <<e, skb[e]>>[1] = e
      OBVIOUS
    <3> QED
      BY <3>1, <3>2
  <2>3. status'[d] = status[d]
    BY <1>1, <1>9, <2>1 DEF RegularInterrupt, Cleared
  <2>4. ctx'[d] = ctx[d]
    BY <1>1, <1>9 DEF RegularInterrupt, Return
  <2>5. rx_queue'[d] = rx_queue[d] /\ got'[d] = got[d]
    BY <1>1, <1>9, <2>1 DEF RegularInterrupt, Unlinked, Rx
  <2> QED
    BY <1>9, <2>2, <2>3, <2>4, <2>5 DEF RegularInterrupt
<1>10. CASE NapiInterrupt(e)
  BY <1>10 DEF NapiInterrupt
<1>11. CASE ReleaseBuffer(e)
  <2>1. ctx[e].pkt \in Buffers /\ Owner(ctx[e].pkt) = e
    BY <1>11 DEF ReleaseBuffer, At, SnullInv, CtxInv, OwnWire, Phase, Resting, Sending, Arriving,
                 Returning, Finishing, Restarting
  <2>2. \A b \in Buffers : Owner(b) = d => (b \in alone' <=> b \in alone)
    BY <1>11, <2>1, LinkElsewhere DEF ReleaseBuffer
  <2>3. ctx'[d] = ctx[d] /\ ppool'[d] = ppool[d]
    BY <1>1, <1>11, <2>1 DEF ReleaseBuffer, Goto, Home
  <2> QED
    BY <1>11, <2>2, <2>3 DEF ReleaseBuffer
<1>11a. CASE Recheck(e)
  BY <1>1, <1>11a DEF Recheck, Goto, Return
<1>12. CASE WakeQueue(e)
  <2>1. Owner(ctx[e].pkt) = e
    BY <1>12 DEF WakeQueue, At, OwnWire, Phase, Resting, Sending, Arriving, Returning, Finishing,
                 Restarting
  <2>2. ctx'[d] = ctx[d] /\ stopped'[d] = stopped[d]
    BY <1>1, <1>12, <2>1 DEF WakeQueue, Return, Home
  <2> QED
    BY <1>12, <2>2 DEF WakeQueue
<1>13. CASE TxTimeout(e)
  BY <1>1, <1>13 DEF TxTimeout
<1>14. CASE TimeoutWake(e)
  BY <1>1, <1>14 DEF TimeoutWake
<1>15. CASE Release(e)
  BY <1>1, <1>15 DEF Release
<1>16. CASE Open(e)
  BY <1>1, <1>16 DEF Open
<1> QED
  BY <1>2, <1>3, <1>4, <1>5, <1>6, <1>7, <1>8, <1>9, <1>10, <1>11, <1>11a, <1>12,
     <1>13, <1>14, <1>15, <1>16 DEF Step, Transmit, Interrupt, Timeout, Admin

(***************************************************************************)
(* The way of a packet, step by step.                                      *)
(***************************************************************************)

\* A step that neither starts a transmission nor delivers anything.
LEMMA OnTheWay ==
  ASSUME NEW d \in Devs, OwnWire(d), Phase(d)',
         skb'[d] = skb[d], sent'[d] = sent[d], got'[d] = got[d],
         rx_int_enabled'[d] = rx_int_enabled[d], live' \subseteq live
  PROVE  OwnWire(d)'
BY DEF OwnWire

\* Where the processor is tells the phase.
LEMMA PhaseAt ==
  ASSUME NEW d \in Devs, OwnWire(d)
  PROVE  /\ At(d, "idle") => Resting(d)
         /\ At(d, "get") \/ At(d, "enqueue") => Sending(d)
         /\ At(d, "read dest") \/ At(d, "write dest") => Arriving(d)
         /\ At(d, "release") \/ At(d, "recheck") \/ At(d, "wake") => Returning(d)
         /\ At(d, "read own") \/ At(d, "write own") => Finishing(d)
         /\ At(d, "restart") => Restarting(d)
         /\ At(d, "interrupt") => Arriving(d) \/ Finishing(d) \/ Restarting(d)
BY DEF OwnWire, Phase, At, Resting, Sending, Arriving, Returning, Finishing, Restarting

\* snull_tx starts a packet on its way, ...
LEMMA TxOnWire ==
  ASSUME SnullInv, NumberInv, TypeInv, NEW d \in Devs, OwnWire(d), Tx(d)
  PROVE  OwnWire(d)' /\ faults' = faults
<1>1. /\ At(d, "idle") /\ up[d] /\ ~stopped[d] /\ faults' = faults
      /\ UNCHANGED <<link, lists, chip, got>>
  BY DEF Tx
<1>2. Resting(d) /\ status[d] = {} /\ ~Owed(d)
  BY <1>1, PhaseAt DEF Resting
<1>3. PICK n : n = sent'[d]
  OBVIOUS
<1>4. skb'[d] = n /\ live' = live \cup {<<d, n>>} /\ ctx'[d].pc = "get"
  <2>1. skb' = [skb EXCEPT ![d] = n] /\ live' = live \cup {<<d, n>>}
    BY <1>3 DEF Tx
  <2>2. skb'[d] = n
    BY <2>1 DEF TypeInv
  <2>3. PICK c : c = [ctx[d] EXCEPT !.pc = "get"]
    OBVIOUS
  <2>4. ctx' = [ctx EXCEPT ![d] = c]
    BY <2>3 DEF Tx, Goto
  <2>5. c.pc = "get"
    BY <2>3 DEF SnullInv, CtxInv, Context
  <2> QED
    BY <2>1, <2>2, <2>4, <2>5 DEF SnullInv, CtxInv
<1>5. \A s \in live' : s[1] = d => s = <<d, n>>
  BY <1>2, <1>4 DEF OwnWire, Owed
<1>6. Sending(d)'
  BY <1>1, <1>2, <1>3, <1>4 DEF Sending, Resting, Clear, Owed, At, link, lists, chip
<1> QED
  BY <1>1, <1>3, <1>4, <1>5, <1>6 DEF OwnWire, Phase, chip

\* When a transmission starts every packet of the device is in the pool.
LEMMA PoolIsFull ==
  ASSUME SnullInv, SelfWired, \A e \in Devs : OwnWire(e), NEW d \in Devs, At(d, "get")
  PROVE  ppool[d] # << >>
<1>1. PICK b \in Buffers : Owner(b) = d
  <2>1. <<d, 1>> \in Buffers /\ Owner(<<d, 1>>) = d
    BY SnullAssumption DEF Buffers, Owner
  <2> QED
    BY <2>1
<1>2. ~Queued(b)
  <2>1. rx_queue[d] = << >>
    BY PhaseAt DEF Sending, Clear
  <2> QED
    BY <1>1, <2>1 DEF Queued, Listed, SelfWired
<1>3. ASSUME NEW e \in Devs, Held(e, b) PROVE FALSE
  <2>1. Owner(b) = e
    <3>1. CASE ctx[e].pc = "enqueue"
      BY <1>3, <3>1 DEF Held, SnullInv, CtxInv
    <3>2. CASE ctx[e].pc = "release"
      BY <1>3, <3>2, PhaseAt DEF Held, At, Returning
    <3> QED
      BY <1>3, <3>1, <3>2 DEF Held
  <2> QED
    BY <1>1, <1>3, <2>1 DEF Held, At
<1>4. Pooled(b)
  BY <1>2, <1>3 DEF SnullInv, PlaceInv, OnePlace
<1> QED
  BY <1>1, <1>4 DEF Pooled, Listed

\* ... takes a buffer from the pool, ...
LEMMA GetOnWire ==
  ASSUME SnullInv, NumberInv, TypeInv, SelfWired, \A e \in Devs : OwnWire(e),
         NEW d \in Devs, GetTxBuffer(d)
  PROVE  OwnWire(d)' /\ faults' = faults
<1>1. At(d, "get") /\ UNCHANGED <<up, rx_queue, chip, skbs, got, bounds>>
  BY DEF GetTxBuffer
<1>2. ppool[d] # << >> /\ Sending(d) /\ ~stopped[d]
  BY <1>1, PoolIsFull, PhaseAt DEF Sending, At
<1>3. PICK h \in Buffers : h = Head(ppool[d])
  BY <1>2, TailFacts DEF SnullInv, ListInv
<1>4. PICK c : c = [ctx[d] EXCEPT !.pc = "enqueue", !.pkt = h]
  OBVIOUS
<1>5. /\ ctx' = [ctx EXCEPT ![d] = c]
      /\ content' = [content EXCEPT ![h] = <<d, sent[d]>>]
      /\ ppool' = [ppool EXCEPT ![d] = Tail(ppool[d])]
      /\ stopped' = [stopped EXCEPT ![d] = stopped[d] \/ Tail(ppool[d]) = << >>]
  BY <1>2, <1>3, <1>4 DEF GetTxBuffer, StopIfEmpty
<1>6. c.pc = "enqueue" /\ c.pkt = h
  BY <1>4 DEF SnullInv, CtxInv, Context
<1>7. ctx'[d] = c /\ content'[h] = <<d, sent[d]>> /\ ppool'[d] = Tail(ppool[d])
  BY <1>5 DEF SnullInv, CtxInv, ListInv, NumberInv
<1>8. Dry(d)'
  <2>1. stopped'[d] = (stopped[d] \/ Tail(ppool[d]) = << >>)
    BY <1>5 DEF TypeInv
  <2> QED
    BY <1>2, <1>7, <2>1 DEF Dry
<1>9. Sending(d)'
  BY <1>1, <1>2, <1>6, <1>7, <1>8 DEF Sending, At, Owed, Clear, chip, skbs, bounds
<1>10. faults' = faults
  BY <1>2 DEF GetTxBuffer, Sending, Owed
<1> QED
  BY <1>1, <1>9, <1>10, OnTheWay DEF Phase, chip, skbs, bounds

\* ... puts it into its own receive queue, ...
LEMMA EnqueueOnWire ==
  ASSUME SnullInv, TypeInv, SelfWired, NEW d \in Devs, OwnWire(d), Enqueue(d)
  PROVE  OwnWire(d)' /\ faults' = faults
<1>1. At(d, "enqueue") /\ UNCHANGED <<link, ppool, content, chip, skbs, got, faults, bounds>>
  BY DEF Enqueue
<1>2. Sending(d) /\ content[ctx[d].pkt] = <<d, sent[d]>> /\ Dry(d)
  BY <1>1, PhaseAt DEF Sending, At
<1>3. PICK h \in Buffers : h = ctx[d].pkt
  BY <1>1 DEF At, SnullInv, CtxInv
<1>4. PICK c : c = [ctx[d] EXCEPT !.pc = "read dest", !.pkt = NULL]
  OBVIOUS
<1>5. ctx' = [ctx EXCEPT ![d] = c] /\ rx_queue' = [rx_queue EXCEPT ![d] = Push(h, rx_queue[d])]
  BY <1>3, <1>4 DEF Enqueue, SelfWired
<1>6. c.pc = "read dest"
  BY <1>4 DEF SnullInv, CtxInv, Context
<1>7. ctx'[d] = c /\ rx_queue'[d] = <<h>>
  <2>1. Push(h, << >>) = <<h>>
    BY DEF Push
  <2> QED
    BY <1>2, <1>5, <2>1 DEF SnullInv, CtxInv, ListInv, Sending, Clear
<1>8. Arriving(d)'
  BY <1>1, <1>2, <1>3, <1>6, <1>7
  DEF Sending, Arriving, At, Owed, Clear, Dry, link, chip, skbs, bounds
<1> QED
  BY <1>1, <1>8, OnTheWay DEF Phase, chip, skbs, bounds

\* ... reads the status of the device it sends to, itself, ...
LEMMA ReadDestOnWire ==
  ASSUME SnullInv, SelfWired, NEW d \in Devs, OwnWire(d), ReadDest(d)
  PROVE  OwnWire(d)' /\ faults' = faults
<1>1. At(d, "read dest") /\ UNCHANGED <<link, lists, chip, skbs, got, faults, bounds>>
  BY DEF ReadDest
<1>2. Arriving(d) /\ status[d] = {}
  BY <1>1, PhaseAt DEF Arriving, At
<1>3. PICK c : c = [ctx[d] EXCEPT !.pc = "write dest", !.word = status[d]]
  OBVIOUS
<1>4. ctx' = [ctx EXCEPT ![d] = c]
  BY <1>3 DEF ReadDest, SelfWired, OwnWire
<1>5. c.pc = "write dest" /\ c.word = status[d] /\ ctx'[d] = c
  <2>1. ctx'[d] = c
    BY <1>4 DEF SnullInv, CtxInv
  <2>2. ctx[d] \in Context
    BY DEF SnullInv, CtxInv
  <2> QED
    BY <1>3, <2>1, <2>2 DEF Context
<1>6. Arriving(d)'
  BY <1>1, <1>2, <1>5 DEF Arriving, At, Owed, Dry, link, lists, chip, skbs, bounds
<1> QED
  BY <1>1, <1>6, OnTheWay DEF Phase, chip, skbs, bounds

\* ... and writes it back with the interrupt of an arrival.
LEMMA WriteDestOnWire ==
  ASSUME SnullInv, SelfWired, NEW d \in Devs, OwnWire(d), WriteDest(d)
  PROVE  OwnWire(d)' /\ faults' = faults
<1>1. /\ At(d, "write dest")
      /\ UNCHANGED <<link, lists, rx_int_enabled, skbs, got, faults, bounds>>
  BY DEF WriteDest
<1>2. Arriving(d) /\ status[d] = {} /\ ctx[d].word = {}
  BY <1>1, PhaseAt DEF Arriving, At
<1>3. PICK c : c = [ctx[d] EXCEPT !.pc = "interrupt", !.on = d, !.word = {}, !.back = "read own"]
  OBVIOUS
<1>4. ctx' = [ctx EXCEPT ![d] = c] /\ status'[d] = {"RX"}
  BY <1>2, <1>3 DEF WriteDest, SelfWired, SnullInv, CtxInv
<1>5. c.pc = "interrupt" /\ c.on = d /\ c.back = "read own" /\ ctx'[d] = c
  <2>1. ctx'[d] = c
    BY <1>4 DEF SnullInv, CtxInv
  <2>2. ctx[d] \in Context
    BY DEF SnullInv, CtxInv
  <2> QED
    BY <1>3, <2>1, <2>2 DEF Context
<1>6. Arriving(d)'
  BY <1>1, <1>2, <1>4, <1>5 DEF Arriving, At, Owed, Dry, link, lists, skbs, bounds
<1> QED
  BY <1>1, <1>6, OnTheWay DEF Phase, skbs, bounds

\* The transmission ends: it reads its status again.
LEMMA ReadOwnOnWire ==
  ASSUME SnullInv, NEW d \in Devs, OwnWire(d), ReadOwn(d)
  PROVE  OwnWire(d)' /\ faults' = faults
<1>1. At(d, "read own") /\ UNCHANGED <<link, lists, chip, skbs, got, faults, bounds>>
  BY DEF ReadOwn
<1>2. Finishing(d) /\ status[d] = {}
  BY <1>1, PhaseAt DEF Finishing, At
<1>3. PICK c : c = [ctx[d] EXCEPT !.pc = "write own", !.word = status[d]]
  OBVIOUS
<1>4. ctx' = [ctx EXCEPT ![d] = c]
  BY <1>3 DEF ReadOwn
<1>5. c.pc = "write own" /\ c.word = status[d] /\ ctx'[d] = c
  <2>1. ctx'[d] = c
    BY <1>4 DEF SnullInv, CtxInv
  <2>2. ctx[d] \in Context
    BY DEF SnullInv, CtxInv
  <2> QED
    BY <1>3, <2>1, <2>2 DEF Context
<1>6. Finishing(d)'
  BY <1>1, <1>2, <1>5 DEF Finishing, At, Owed, link, lists, chip, skbs, bounds
<1> QED
  BY <1>1, <1>6, OnTheWay DEF Phase, chip, skbs, bounds

\* The sender's interrupt comes, or the lockup stops the queue.
LEMMA WriteOwnOnWire ==
  ASSUME SnullInv, TypeInv, NEW d \in Devs, OwnWire(d), WriteOwn(d)
  PROVE  OwnWire(d)' /\ faults' = faults
<1>1. At(d, "write own") /\ UNCHANGED <<up, lists, rx_int_enabled, skbs, got, faults, bounds>>
  BY DEF WriteOwn
<1>2. Finishing(d) /\ status[d] = {} /\ ctx[d].word = {}
  BY <1>1, PhaseAt DEF Finishing, At
<1>3. status'[d] = {"TX"}
  BY <1>2 DEF WriteOwn, SnullInv, CtxInv
<1>4. CASE Lockup # 0 /\ (tx_packets[d] + 1) % Lockup = 0
  <2>1. ctx'[d].pc = "idle" /\ stopped'[d] = TRUE
    <3>1. ctx' = [ctx EXCEPT ![d] = Idle] /\ stopped' = [stopped EXCEPT ![d] = TRUE]
      BY <1>4 DEF WriteOwn
    <3>2. ctx'[d] = Idle
      BY <3>1 DEF SnullInv, CtxInv
    <3>3. stopped'[d] = TRUE
      BY <3>1 DEF TypeInv
    <3>4. Idle.pc = "idle"
      BY DEF Idle
    <3> QED
      BY <3>2, <3>3, <3>4
  <2>2. Resting(d)'
    BY <1>1, <1>2, <1>3, <2>1 DEF Finishing, Resting, At, Owed, lists, skbs, bounds
  <2> QED
    BY <1>1, <2>2, OnTheWay DEF Phase, skbs, bounds
<1>5. CASE ~(Lockup # 0 /\ (tx_packets[d] + 1) % Lockup = 0)
  <2>1. PICK c : c = [Idle EXCEPT !.pc = "interrupt", !.on = d]
    OBVIOUS
  <2>2. ctx' = [ctx EXCEPT ![d] = c] /\ stopped' = stopped
    BY <1>5, <2>1 DEF WriteOwn
  <2>3. c.pc = "interrupt" /\ c.on = d /\ c.back = "idle" /\ ctx'[d] = c
    BY <2>1, <2>2 DEF Idle, SnullInv, CtxInv
  <2>4. Finishing(d)'
    BY <1>1, <1>2, <1>3, <2>2, <2>3 DEF Finishing, At, Owed, lists, skbs, bounds
  <2> QED
    BY <1>1, <2>4, OnTheWay DEF Phase, skbs, bounds
<1> QED
  BY <1>4, <1>5

\* The number of the packet that arrives is higher than all those handed up before.
LEMMA RisesFurther ==
  ASSUME NEW list \in Seq(Devs \X (1 .. MaxSent)), Rising(list), NEW d, NEW n \in Int,
         \A x : Listed(x, list) => x[2] < n
  PROVE  Rising(Append(list, <<d, n>>))
<1> DEFINE longer == Append(list, <<d, n>>)
<1>1. Len(list) \in Nat /\ DOMAIN list = 1 .. Len(list)
  BY LenProperties
<1>2. /\ DOMAIN longer = 1 .. Len(list) + 1
      /\ \A i \in 1 .. Len(list) : longer[i] = list[i]
      /\ longer[Len(list) + 1] = <<d, n>>
  BY <1>1
<1>3. \A i \in 1 .. Len(list) : list[i][2] < n
  BY <1>1 DEF Listed
<1> HIDE DEF longer
<1>4. ASSUME NEW i \in DOMAIN longer, NEW j \in DOMAIN longer, i < j
      PROVE  longer[i][2] < longer[j][2]
  <2>1. CASE j = Len(list) + 1
    <3>1. i \in 1 .. Len(list)
      BY <1>1, <1>2, <1>4, <2>1
    <3> QED
      BY <1>2, <1>3, <2>1, <3>1
  <2>2. CASE j # Len(list) + 1
    <3>1. i \in 1 .. Len(list) /\ j \in 1 .. Len(list)
      BY <1>1, <1>2, <1>4, <2>2
    <3> QED
      BY <1>1, <1>2, <1>4, <3>1 DEF Rising
  <2> QED
    BY <2>1, <2>2
<1> QED
  BY <1>4 DEF Rising, longer

\* The interrupt of the receiver takes the one packet that waits.
LEMMA ArrivalOnWire ==
  ASSUME SnullInv, DeliveryInv, TypeInv, SelfWired, NEW d \in Devs, OwnWire(d),
         Arriving(d), RegularInterrupt(d)
  PROVE  OwnWire(d)' /\ faults' = faults
<1>1. /\ At(d, "interrupt") /\ status[d] = {"RX"} /\ ctx[d].on = d /\ ctx[d].back = "read own"
      /\ up[d] /\ Owed(d) /\ Dry(d)
  BY DEF RegularInterrupt, Arriving, At
<1>2. PICK b \in Buffers : rx_queue[d] = <<b>> /\ content[b] = <<d, sent[d]>>
  BY DEF Arriving
<1>3. /\ rx_queue[d] # << >> /\ Head(rx_queue[d]) = b /\ Tail(rx_queue[d]) = << >>
      /\ Listed(b, rx_queue[d])
  BY <1>2 DEF Listed
<1>4. Owner(b) = d
  BY <1>3 DEF SnullInv, ListInv, SelfWired
<1>5. PICK c : c = [ctx[d] EXCEPT !.pc = "release", !.pkt = b]
  OBVIOUS
<1>6. /\ ctx' = [ctx EXCEPT ![d] = c] /\ status' = [status EXCEPT ![d] = {}]
      /\ rx_queue' = [rx_queue EXCEPT ![d] = << >>]
      /\ got' = [got EXCEPT ![d] = Append(got[d], <<d, sent[d]>>)] \/ got' = got
      /\ UNCHANGED <<up, stopped, ppool, rx_int_enabled, skb, sent, live, faults>>
  <2>1. "RX" \in status[d] /\ "TX" \notin status[d]
    BY <1>1
  <2> QED
    BY <1>1, <1>2, <1>3, <1>5, <2>1 DEF RegularInterrupt, Cleared, TxDone, Unlinked, Rx, link
<1>7. c.pc = "release" /\ c.pkt = b /\ c.back = "read own" /\ ctx'[d] = c
  <2>1. ctx'[d] = c
    BY <1>6 DEF SnullInv, CtxInv
  <2>2. ctx[d] \in Context
    BY DEF SnullInv, CtxInv
  <2> QED
    BY <1>1, <1>5, <2>1, <2>2 DEF Context
<1>8. status'[d] = {} /\ rx_queue'[d] = << >>
  BY <1>6 DEF SnullInv, CtxInv, ListInv
<1>9. Returning(d)'
  BY <1>1, <1>4, <1>6, <1>7, <1>8 DEF Returning, At, Owed, Clear, Dry
<1>10. Rising(got'[d])
  <2>1. CASE got' = got
    BY <2>1 DEF OwnWire
  <2>2. CASE got' = [got EXCEPT ![d] = Append(got[d], <<d, sent[d]>>)]
    <3>1. /\ got[d] \in Seq(Devs \X (1 .. MaxSent)) /\ Rising(got[d])
          /\ got'[d] = Append(got[d], <<d, sent[d]>>)
          /\ sent[d] \in 0 .. MaxSent /\ MaxSent \in Nat
      BY <2>2, SnullAssumption DEF DeliveryInv, NumberInv, OwnWire
    <3>2. CarryInv(d) /\ Twin[d] = d
      BY DEF DeliveryInv, SelfWired
    <3>3. Past(d) = {d} \X (1 .. sent[d])
      BY <1>1 DEF Past, Handed, Making, At
    <3>4. ~Listed(<<d, sent[d]>>, got[d])
      BY <1>2, <1>3, <3>2 DEF CarryInv
    <3>5. ASSUME NEW x, Listed(x, got[d]) PROVE x[2] < sent[d]
      <4>1. x \in {d} \X (1 .. sent[d]) /\ x # <<d, sent[d]>>
        BY <3>2, <3>3, <3>4, <3>5 DEF CarryInv
      <4>2. PICK n \in 1 .. sent[d] : x = <<d, n>>
        BY <4>1
      <4> QED
        BY <3>1, <4>1, <4>2
    <3>6. sent[d] \in Int
      BY <3>1
    <3> QED
      BY <3>1, <3>5, <3>6, RisesFurther
  <2> QED
    BY <1>6, <2>1, <2>2
<1> QED
  BY <1>6, <1>9, <1>10 DEF OwnWire, Phase

\* The interrupt of the sender frees the skb that is owed, once.
LEMMA DoneOnWire ==
  ASSUME SnullInv, TypeInv, NEW d \in Devs, OwnWire(d), RegularInterrupt(d),
         Finishing(d) \/ Restarting(d)
  PROVE  OwnWire(d)' /\ faults' = faults
<1>1. /\ At(d, "interrupt") /\ status[d] = {"TX"} /\ ctx[d].on = d /\ up[d] /\ Owed(d)
      /\ rx_queue[d] = << >> /\ skb[d] = sent[d]
  BY DEF RegularInterrupt, Finishing, Restarting, At, OwnWire
<1>2. PICK c : c = [Idle EXCEPT !.pc = ctx[d].back]
  OBVIOUS
<1>3. /\ ctx' = [ctx EXCEPT ![d] = c] /\ status' = [status EXCEPT ![d] = {}]
      /\ live' = live \ {<<d, skb[d]>>} /\ faults' = faults
      /\ UNCHANGED <<up, stopped, rx_queue, rx_int_enabled, skb, sent, got>>
  <2>1. "RX" \notin status[d] /\ "TX" \in status[d] /\ <<d, skb[d]>> \in live
    BY <1>1 DEF Owed
  <2> QED
    BY <1>1, <1>2, <2>1 DEF RegularInterrupt, Return, Cleared, TxDone, FreeSkb, link
<1>4. ctx'[d] = c /\ c.pc = ctx[d].back /\ status'[d] = {}
  BY <1>2, <1>3 DEF SnullInv, CtxInv, Idle
<1>5. ~Owed(d)'
  BY <1>1, <1>3 DEF Owed
<1>6. CASE Finishing(d)
  <2>1. ctx[d].back = "idle" /\ ~stopped[d]
    BY <1>1, <1>6 DEF Finishing, At
  <2>2. Resting(d)'
    BY <1>1, <1>3, <1>4, <1>5, <2>1 DEF Resting, At
  <2> QED
    BY <1>3, <2>2, OnTheWay DEF Phase
<1>7. CASE Restarting(d)
  <2>1. ctx[d].back = "restart"
    BY <1>1, <1>7 DEF Restarting, At
  <2>2. Restarting(d)'
    BY <1>1, <1>3, <1>4, <1>5, <2>1 DEF Restarting, At
  <2> QED
    BY <1>3, <2>2, OnTheWay DEF Phase
<1> QED
  BY <1>6, <1>7

\* The buffer goes back into the pool.
LEMMA ReleaseBufferOnWire ==
  ASSUME SnullInv, TypeInv, NEW d \in Devs, OwnWire(d), ReleaseBuffer(d)
  PROVE  OwnWire(d)' /\ faults' = faults
<1>1. At(d, "release") /\ UNCHANGED <<link, rx_queue, content, chip, skbs, got, faults, bounds>>
  BY DEF ReleaseBuffer
<1>2. Returning(d) /\ Dry(d) /\ Owner(ctx[d].pkt) = d
  BY <1>1, PhaseAt DEF Returning, At
<1>3. PICK h \in Buffers : h = ctx[d].pkt
  BY <1>1 DEF At, SnullInv, CtxInv
<1>4. PICK c : c = [ctx[d] EXCEPT !.pc = "recheck"]
  OBVIOUS
<1>5. ctx' = [ctx EXCEPT ![d] = c] /\ Link(h, ppool[d])
  BY <1>2, <1>3, <1>4 DEF ReleaseBuffer, Goto, Home
<1>6. c.pc = "recheck" /\ c.pkt = h /\ c.back = "read own" /\ ctx'[d] = c
  <2>1. ctx'[d] = c
    BY <1>5 DEF SnullInv, CtxInv
  <2>2. ctx[d] \in Context /\ ctx[d].back = "read own"
    BY <1>2 DEF SnullInv, CtxInv, Returning
  <2> QED
    BY <1>3, <1>4, <2>1, <2>2 DEF Context
<1>7. stopped'[d] => h \in alone'
  BY <1>1, <1>2, <1>5 DEF Dry, Link, link
<1>8. Returning(d)'
  BY <1>1, <1>2, <1>3, <1>6, <1>7 DEF Returning, At, Owed, Clear, link, chip, skbs, bounds
<1> QED
  BY <1>1, <1>8, OnTheWay DEF Phase, chip, skbs, bounds

\* A queue that is stopped is found beside a pool with one packet, ...
LEMMA RecheckOnWire ==
  ASSUME SnullInv, TypeInv, NEW d \in Devs, OwnWire(d), Recheck(d)
  PROVE  OwnWire(d)' /\ faults' = faults
<1>1. At(d, "recheck") /\ UNCHANGED <<link, lists, chip, skbs, got, faults, bounds>>
  BY DEF Recheck
<1>2. Returning(d) /\ Owner(ctx[d].pkt) = d /\ (stopped[d] => ctx[d].pkt \in alone)
  BY <1>1, PhaseAt DEF Returning, At
<1>3. PICK c : c = IF stopped[d] THEN [ctx[d] EXCEPT !.pc = "wake"]
                                 ELSE [Idle EXCEPT !.pc = ctx[d].back]
  OBVIOUS
<1>4. ctx' = [ctx EXCEPT ![d] = c]
  BY <1>2, <1>3 DEF Recheck, Goto, Return, Home
<1>5. /\ ctx'[d] = c
      /\ stopped[d] => c.pc = "wake" /\ c.pkt = ctx[d].pkt /\ c.back = "read own"
      /\ ~stopped[d] => c.pc = "read own"
  BY <1>2, <1>3, <1>4 DEF SnullInv, CtxInv, Context, Idle, Returning
<1>6. stopped[d] => Returning(d)'
  BY <1>1, <1>2, <1>5 DEF Returning, At, Owed, Clear, link, lists, chip, skbs, bounds
<1>7. ~stopped[d] => Finishing(d)'
  BY <1>1, <1>2, <1>5 DEF Returning, Finishing, At, Owed, Clear, link, lists, chip, skbs, bounds
<1> QED
  BY <1>1, <1>6, <1>7, OnTheWay DEF Phase, chip, skbs, bounds

\* ... and is started again.
LEMMA WakeOnWire ==
  ASSUME SnullInv, TypeInv, NEW d \in Devs, OwnWire(d), WakeQueue(d)
  PROVE  OwnWire(d)' /\ faults' = faults
<1>1. At(d, "wake") /\ UNCHANGED <<up, lists, chip, skbs, got, faults, bounds>>
  BY DEF WakeQueue
<1>2. Returning(d) /\ Owner(ctx[d].pkt) = d
  BY <1>1, PhaseAt DEF Returning, At
<1>3. PICK c : c = [Idle EXCEPT !.pc = ctx[d].back]
  OBVIOUS
<1>4. ctx' = [ctx EXCEPT ![d] = c] /\ stopped' = [stopped EXCEPT ![d] = FALSE]
  BY <1>2, <1>3 DEF WakeQueue, Return, Home
<1>5. ctx'[d] = c /\ c.pc = "read own"
  BY <1>2, <1>3, <1>4 DEF SnullInv, CtxInv, Idle, Returning
<1>6. ~stopped'[d]
  BY <1>4 DEF TypeInv
<1>7. Finishing(d)'
  BY <1>1, <1>2, <1>5, <1>6
  DEF Returning, Finishing, At, Owed, Clear, lists, chip, skbs, bounds
<1> QED
  BY <1>1, <1>7, OnTheWay DEF Phase, chip, skbs, bounds

\* The watchdog calls for a transmission that has not ended.
LEMMA TimeoutOnWire ==
  ASSUME SnullInv, TypeInv, NEW d \in Devs, OwnWire(d), Timeout(d)
  PROVE  OwnWire(d)' /\ faults' = faults
<1>1. CASE TxTimeout(d)
  <2>1. /\ At(d, "idle") /\ up[d] /\ stopped[d]
        /\ UNCHANGED <<link, lists, rx_int_enabled, skbs, got, faults, sent>>
    BY <1>1 DEF TxTimeout
  <2>2. Resting(d) /\ Owed(d) /\ rx_queue[d] = << >>
    BY <2>1, PhaseAt DEF Resting
  <2>3. PICK c : c = [ctx[d] EXCEPT !.pc = "interrupt", !.on = d, !.back = "restart"]
    OBVIOUS
  <2>4. ctx' = [ctx EXCEPT ![d] = c] /\ status'[d] = {"TX"}
    BY <1>1, <2>3 DEF TxTimeout, SnullInv, CtxInv
  <2>5. ctx'[d] = c /\ c.pc = "interrupt" /\ c.on = d /\ c.back = "restart"
    <3>1. ctx'[d] = c
      BY <2>4 DEF SnullInv, CtxInv
    <3>2. ctx[d] \in Context
      BY DEF SnullInv, CtxInv
    <3> QED
      BY <2>3, <3>1, <3>2 DEF Context
  <2>6. Restarting(d)'
    BY <2>1, <2>2, <2>4, <2>5 DEF Restarting, At, Owed, link, lists, skbs
  <2> QED
    BY <2>1, <2>6, OnTheWay DEF Phase, skbs
<1>2. CASE TimeoutWake(d)
  <2>1. /\ At(d, "restart") /\ UNCHANGED <<up, lists, chip, skbs, got, faults, bounds>>
        /\ ctx' = [ctx EXCEPT ![d] = Idle] /\ stopped' = [stopped EXCEPT ![d] = FALSE]
    BY <1>2 DEF TimeoutWake
  <2>2. Restarting(d) /\ status[d] = {} /\ ~Owed(d) /\ rx_queue[d] = << >>
    BY <2>1, PhaseAt DEF Restarting, At
  <2>3. ctx'[d].pc = "idle" /\ ~stopped'[d]
    BY <2>1 DEF SnullInv, CtxInv, TypeInv, Idle
  <2>4. Resting(d)'
    BY <2>1, <2>2, <2>3 DEF Resting, At, Owed, lists, chip, skbs, bounds
  <2> QED
    BY <2>1, <2>4, OnTheWay DEF Phase, chip, skbs, bounds
<1> QED
  BY <1>1, <1>2 DEF Timeout

\* snull_release takes the device down.
LEMMA CloseOnWire ==
  ASSUME TypeInv, NEW d \in Devs, OwnWire(d), Release(d)
  PROVE  OwnWire(d)' /\ faults' = faults
<1>1. /\ At(d, "idle") /\ UNCHANGED <<lists, chip, skbs, ctx, got, faults, bounds>>
      /\ up' = [up EXCEPT ![d] = FALSE] /\ stopped' = [stopped EXCEPT ![d] = TRUE]
  BY DEF Release
<1>2. Resting(d)
  BY <1>1, PhaseAt
<1>3. ~up'[d] /\ stopped'[d]
  BY <1>1 DEF TypeInv
<1>4. Resting(d)'
  BY <1>1, <1>2, <1>3 DEF Resting, At, Owed, lists, chip, skbs, bounds
<1> QED
  BY <1>1, <1>4, OnTheWay DEF Phase, chip, skbs, bounds

\* Every step keeps a device wired to itself in one of its phases, ...
LEMMA WireStep ==
  ASSUME SnullInv, DeliveryInv, TypeInv, SelfWired, WireInv, [Next]_vars
  PROVE  WireInv'
<1>1. opens' \in Nat /\ (Steady' => Steady)
  <2>1. use_napi' = use_napi /\ (opens' = opens \/ opens' = opens + 1)
    BY DEF Next, Rest, vars, bounds, Transmit, Interrupt, Timeout, Admin, Tx, GetTxBuffer, Enqueue,
           ReadDest, WriteDest, ReadOwn, WriteOwn, RegularInterrupt, NapiInterrupt,
           ReleaseBuffer, Recheck, WakeQueue, TxTimeout, TimeoutWake, Release, Open
  <2> QED
    BY <2>1 DEF WireInv, Steady
<1>2. CASE ~Steady'
  BY <1>1, <1>2 DEF WireInv
<1>3. CASE Steady'
  <2>1. ~use_napi /\ faults = {} /\ \A d \in Devs : OwnWire(d)
    BY <1>1, <1>3 DEF WireInv, Steady
  <2>2. CASE UNCHANGED vars
    <3>1. ASSUME NEW d \in Devs PROVE OwnWire(d)'
      <4>1. Untouched(d)
        BY <2>2 DEF vars, Untouched, link, lists, chip, skbs, bounds
      <4> QED
        BY <2>1, <4>1, UntouchedKeeps DEF SelfWired
    <3> QED
      BY <1>1, <2>1, <2>2, <3>1 DEF WireInv, vars
  <2>3. ASSUME NEW e \in Devs, Step(e) PROVE WireInv'
    <3>1. OwnWire(e)' /\ faults' = faults
      <4>1. ~Open(e)
        <5>1. Open(e) => opens' = opens + 1
          BY DEF Open
        <5> QED
          BY <1>1, <1>3, <5>1 DEF Steady
      <4>2. ~NapiInterrupt(e)
        BY <2>1 DEF NapiInterrupt
      <4>3. ASSUME RegularInterrupt(e) PROVE OwnWire(e)' /\ faults' = faults
        <5>1. Arriving(e) \/ Finishing(e) \/ Restarting(e)
          BY <2>1, <4>3, PhaseAt DEF RegularInterrupt
        <5> QED
          BY <2>1, <4>3, <5>1, ArrivalOnWire, DoneOnWire
      <4> QED
        BY <2>1, <2>3, <4>1, <4>2, <4>3, TxOnWire, GetOnWire, EnqueueOnWire, ReadDestOnWire,
           WriteDestOnWire, ReadOwnOnWire, WriteOwnOnWire, ReleaseBufferOnWire,
           RecheckOnWire, WakeOnWire, TimeoutOnWire, CloseOnWire
        DEF DeliveryInv, Step, Transmit, Interrupt, Admin
    <3>2. ASSUME NEW d \in Devs, d # e PROVE OwnWire(d)'
      <4>1. Untouched(d)
        BY <2>1, <2>3, <3>2, OthersUntouched DEF DeliveryInv, SelfWired
      <4> QED
        BY <2>1, <4>1, UntouchedKeeps DEF SelfWired
    <3> QED
      BY <1>1, <2>1, <3>1, <3>2 DEF WireInv
  <2> QED
    BY <2>2, <2>3 DEF Next, Rest, Step
<1> QED
  BY <1>2, <1>3

\* ... and so it is in one of them for ever.
LEMMA WireInvariance ==
  ASSUME SelfWired
  PROVE  Spec => []WireInv
<1>1. Init => WireInv
  BY WireInit
<1>2. SnullInv /\ DeliveryInv /\ TypeInv /\ WireInv /\ [Next]_vars => WireInv'
  BY WireStep
<1> QED
  BY <1>1, <1>2, SnullInvariance, DeliveryInvariance, TypeInvariance, PTL DEF Spec

\* A device that is its own wire hands its packets up in the order it sent them, and owes
\* the kernel at most the skb under way, however often its interrupts lock up and the
\* watchdog makes up for it.
THEOREM OwnWireInOrder ==
  ASSUME SelfWired
  PROVE  Spec => [](Steady => InOrder)
<1>1. WireInv => (Steady => InOrder)
  BY DEF WireInv, OwnWire, InOrder, Rising
<1> QED
  BY <1>1, WireInvariance, PTL

\* It frees each skb once and none that is being transmitted, and the pool of its driver is
\* never empty when snull_get_tx_buffer takes a packet from it.
THEOREM OwnWireFreesOnce ==
  ASSUME SelfWired
  PROVE  Spec => [](Steady => FreedOnce /\ PoolNeverEmpty)
<1>1. WireInv => (Steady => FreedOnce /\ PoolNeverEmpty)
  BY DEF WireInv, FreedOnce, PoolNeverEmpty
<1> QED
  BY <1>1, WireInvariance, PTL

\* It leaves no packet on its receive queue when its processor has left the driver.
THEOREM OwnWireStrandsNone ==
  ASSUME SelfWired
  PROVE  Spec => [](Steady => NoneStranded)
<1>1. WireInv => (Steady => NoneStranded)
  BY PhaseAt DEF WireInv, NoneStranded, Resting
<1> QED
  BY <1>1, WireInvariance, PTL

-----------------------------------------------------------------------------
(***************************************************************************)
(* Flow control of the memory-backed drivers: snull_get_tx_buffer stops    *)
(* the queue of a device in one critical section and snull_release_buffer  *)
(* wakes it after another, on whichever processor returns the packet.      *)
(* Between the two, that processor holds a pointer to a packet which may   *)
(* have been sent again.                                                   *)
(***************************************************************************)

\* The processor of p has put a packet of d back and has not yet left snull_release_buffer.
Wakes(p, d) == (At(p, "recheck") \/ At(p, "wake")) /\ Owner(ctx[p].pkt) = d

\* It has looked at pkt->next and found it NULL, or will find it NULL if it looks now.
WillWake(p, d) ==
  /\ Wakes(p, d)
  /\ At(p, "recheck") => ctx[p].pkt \in alone /\ Listed(ctx[p].pkt, ppool[d])

\* Device d is sending a packet that will come back to its pool, unless the interrupt of
\* its twin loses its reason.
Bringing(d) ==
  \/ At(d, "enqueue")
  \/ At(d, "read dest") /\ rx_queue[Twin[d]] # << >>
  \/ At(d, "write dest") /\ rx_queue[Twin[d]] # << >>
  \/ /\ At(d, "interrupt") /\ ctx[d].on = Twin[d]
     /\ "RX" \in status[Twin[d]] /\ rx_queue[Twin[d]] # << >>
  \/ At(d, "release") /\ Owner(ctx[d].pkt) = d

\* The queue runs when snull_tx has been called, and is stopped when the pool is empty.
RunsOrDry(d) ==
  /\ At(d, "get") => ~stopped[d]
  /\ ppool[d] = << >> => stopped[d]

\* Until a processor that looks at pkt->next has woken the queue the pool is not empty: else
\* it could wake the queue for a packet that has been sent again.  While the processor of the
\* twin is there, nobody else clears the status word, so that what d sends comes back.
WakesWet(d) ==
  /\ Wakes(d, d) => ppool[d] # << >>
  /\ Twin[d] # d /\ Wakes(Twin[d], d) =>
       \/ Len(ppool[d]) > 1
       \/ Len(ppool[d]) = 1 /\ (Bringing(d) \/ (stopped[d] /\ ~Wakes(d, d)))

\* A queue that is stopped beside a pool with a packet has a processor that will wake it.
Explained(d) ==
  stopped[d] /\ ppool[d] # << >> /\ Lockup = 0 => \E p \in Devs : WillWake(p, d)

PoolInv(d) == RunsOrDry(d) /\ WakesWet(d) /\ Explained(d)

\* A processor returns packets of its own device and of its twin.
HandInv(d) ==
  /\ ctx[d].pc # "restart" /\ ctx[d].back # "restart"
  /\ At(d, "interrupt") => ctx[d].on \in {d, Twin[d]}
  /\ At(d, "release") \/ At(d, "recheck") \/ At(d, "wake") =>
       ~use_napi /\ Owner(ctx[d].pkt) \in {d, Twin[d]}

ModeInv ==
  /\ \A d \in Devs : HandInv(d)
  /\ ~use_napi => \A d \in Devs : rx_int_enabled[d] = TRUE

FlowState == /\ PoolNeverEmpty /\ ModeInv
             /\ \A d \in Devs : PoolInv(d)

FlowInv == /\ timeouts \in Nat /\ opens \in Nat
           /\ Undisturbed => FlowState

\* The queues are started and the pools full at the start.
LEMMA FlowInit == Init => FlowInv
<1>0. Init => timeouts \in Nat /\ opens \in Nat /\ PoolNeverEmpty
  BY DEF Init, Quiet, PoolNeverEmpty
<1>1. Init => ModeInv
  BY DEF Init, Quiet, ModeInv, HandInv, At, Idle
<1>2. ASSUME Init, NEW d \in Devs PROVE PoolInv(d)
  <2>1. /\ ~stopped[d] /\ ppool[d] = PoolOf(d, PoolSize)
        /\ \A p \in Devs : ctx[p].pc = "idle"
    BY <1>2 DEF Init, Quiet, Idle
  <2>2. ppool[d] # << >>
    <3>1. <<d, 1>> \in Buffers /\ Owner(<<d, 1>>) = d
      BY SnullAssumption DEF Buffers, Owner
    <3>2. Listed(<<d, 1>>, ppool[d])
      BY <2>1, <3>1, PoolFacts
    <3> QED
      BY <3>2 DEF Listed
  <2>3. \A p \in Devs : ~Wakes(p, d)
    BY <2>1 DEF Wakes, At
  <2> QED
    BY <2>1, <2>2, <2>3, BufferFacts DEF PoolInv, RunsOrDry, WakesWet, Explained
<1> QED
  BY <1>0, <1>1, <1>2 DEF FlowInv, FlowState

(***************************************************************************)
(* Steps that leave the pool of a device alone.                            *)
(***************************************************************************)

\* Such a step keeps what is known of the pool.
LEMMA PoolKept ==
  ASSUME NEW d \in Devs, PoolInv(d), ppool'[d] = ppool[d], stopped'[d] = stopped[d],
         At(d, "get")' => At(d, "get") \/ ~stopped[d],
         \A p \in Devs : /\ Wakes(p, d)' <=> Wakes(p, d)
                         /\ Wakes(p, d) => ctx'[p] = ctx[p],
         \A b : Listed(b, ppool[d]) /\ b \in alone => b \in alone',
         Twin[d] # d /\ Wakes(Twin[d], d) /\ Bringing(d) => Bringing(d)'
  PROVE  PoolInv(d)'
<1>1. RunsOrDry(d)'
  BY DEF PoolInv, RunsOrDry
<1>2. WakesWet(d)'
  BY BufferFacts DEF PoolInv, WakesWet
<1>3. Explained(d)'
  <2> SUFFICES ASSUME stopped'[d], ppool'[d] # << >>, Lockup = 0
               PROVE  \E p \in Devs : WillWake(p, d)'
    BY DEF Explained
  <2>1. PICK p \in Devs : WillWake(p, d)
    BY DEF PoolInv, Explained
  <2>2. Wakes(p, d)' /\ ctx'[p] = ctx[p]
    BY <2>1 DEF WillWake
  <2>3. At(p, "recheck")' => ctx[p].pkt \in alone' /\ Listed(ctx[p].pkt, ppool[d])
    BY <2>1, <2>2 DEF WillWake, At
  <2> QED
    BY <2>2, <2>3 DEF WillWake
<1> QED
  BY <1>1, <1>2, <1>3 DEF PoolInv

\* A processor that neither comes from nor goes to where a queue is woken.
LEMMA NobodyWakes ==
  ASSUME CtxInv, NEW e \in Devs, NEW c, ctx' = [ctx EXCEPT ![e] = c],
         ctx[e].pc \notin {"recheck", "wake"}, c.pc \notin {"recheck", "wake"}
  PROVE  /\ ctx'[e] = c
         /\ \A p \in Devs : p # e => ctx'[p] = ctx[p]
         /\ \A p, d \in Devs : /\ Wakes(p, d)' <=> Wakes(p, d)
                               /\ Wakes(p, d) => ctx'[p] = ctx[p]
BY DEF CtxInv, Wakes, At

\* A step of the processor of e that moves no packet in or out of a pool and wakes nobody.
LEMMA PoolsKept ==
  ASSUME SnullInv, \A d \in Devs : PoolInv(d), NEW e \in Devs, NEW c,
         ctx' = [ctx EXCEPT ![e] = c],
         ctx[e].pc \notin {"recheck", "wake"}, c.pc \notin {"recheck", "wake"},
         UNCHANGED <<ppool, stopped>>,
         c.pc = "get" => ~stopped[e],
         \A d \in Devs, b \in Buffers : Listed(b, ppool[d]) /\ b \in alone => b \in alone',
         \A d \in Devs : Twin[d] # d /\ Wakes(Twin[d], d) /\ Bringing(d) => Bringing(d)'
  PROVE  \A d \in Devs : PoolInv(d)'
<1> SUFFICES ASSUME NEW d \in Devs PROVE PoolInv(d)'
  OBVIOUS
<1>1. /\ ctx'[e] = c /\ \A p \in Devs : p # e => ctx'[p] = ctx[p]
      /\ \A p \in Devs : /\ Wakes(p, d)' <=> Wakes(p, d)
                         /\ Wakes(p, d) => ctx'[p] = ctx[p]
  BY NobodyWakes DEF SnullInv
<1>2. At(d, "get")' => At(d, "get") \/ ~stopped[d]
  BY <1>1 DEF At
<1>3. \A b : Listed(b, ppool[d]) /\ b \in alone => b \in alone'
  <2>1. \A b : Listed(b, ppool[d]) => b \in Buffers
    <3>1. ppool[d] \in Seq(Buffers)
      BY DEF SnullInv, ListInv
    <3>2. DOMAIN ppool[d] = 1 .. Len(ppool[d])
          /\ \A i \in 1 .. Len(ppool[d]) : ppool[d][i] \in Buffers
      BY <3>1, LenProperties, ElementOfSeq
    <3> QED
      BY <3>2 DEF Listed
  <2> QED
    BY <2>1
<1> QED
  BY <1>1, <1>2, <1>3, PoolKept

\* What d sends comes back as long as nothing of it is touched.
LEMMA BringingKept ==
  ASSUME NEW d, Bringing(d), ctx'[d] = ctx[d], rx_queue'[Twin[d]] = rx_queue[Twin[d]],
         status'[Twin[d]] = status[Twin[d]]
  PROVE  Bringing(d)'
BY DEF Bringing, At

\* A handler that moves on keeps to the mode of the module.
LEMMA ModeKept ==
  ASSUME SnullInv, ModeInv, NEW e \in Devs, NEW c, ctx' = [ctx EXCEPT ![e] = c],
         use_napi' = use_napi, ~use_napi => rx_int_enabled' = rx_int_enabled,
         c.pc # "restart", c.back # "restart",
         c.pc = "interrupt" => c.on \in {e, Twin[e]},
         c.pc \in {"release", "recheck", "wake"} => ~use_napi /\ Owner(c.pkt) \in {e, Twin[e]}
  PROVE  ModeInv'
<1>1. ctx'[e] = c /\ \A p \in Devs : p # e => ctx'[p] = ctx[p]
  BY DEF SnullInv, CtxInv
<1>2. HandInv(e)'
  BY <1>1 DEF HandInv, At
<1>3. \A p \in Devs : p # e => HandInv(p)'
  BY <1>1 DEF ModeInv, HandInv, At
<1> QED
  BY <1>2, <1>3 DEF ModeInv

(***************************************************************************)
(* The steps of a transmission.                                            *)
(***************************************************************************)

\* snull_tx is called for a queue that runs.
LEMMA TxFlows ==
  ASSUME SnullInv, FlowState, NEW e \in Devs, Tx(e)
  PROVE  FlowState'
<1>1. PICK c : c = [ctx[e] EXCEPT !.pc = "get"]
  OBVIOUS
<1>2. ctx[e] \in Context /\ ctx[e].pc = "idle" /\ ctx[e].back # "restart"
  BY DEF Tx, At, SnullInv, CtxInv, FlowState, ModeInv, HandInv
<1>3. c.pc = "get" /\ c.back = ctx[e].back
  BY <1>1, <1>2 DEF Context
<1>4. /\ ctx' = [ctx EXCEPT ![e] = c] /\ ~stopped[e]
      /\ UNCHANGED <<use_napi, ppool, rx_queue, alone, stopped, status, rx_int_enabled, faults>>
  BY <1>1 DEF Tx, Goto, link, lists, chip
<1>5. ModeInv'
  BY <1>2, <1>3, <1>4, ModeKept DEF FlowState
<1>6. \A d \in Devs : Bringing(d) => Bringing(d)'
  <2>1. ~Bringing(e)
    BY <1>2 DEF Bringing, At
  <2>2. \A d \in Devs : d # e => ctx'[d] = ctx[d]
    BY <1>4 DEF SnullInv, CtxInv
  <2> QED
    BY <1>4, <2>1, <2>2, BringingKept
<1>7. \A d \in Devs : PoolInv(d)'
  BY <1>2, <1>3, <1>4, <1>6, PoolsKept DEF FlowState, At
<1> QED
  BY <1>4, <1>5, <1>7 DEF FlowState, PoolNeverEmpty

\* snull_get_tx_buffer meets a packet, and stops the queue behind the last one.
LEMMA GetFlows ==
  ASSUME SnullInv, TypeInv, FlowState, NEW e \in Devs, GetTxBuffer(e)
  PROVE  FlowState'
<1>1. /\ At(e, "get") /\ ctx[e] \in Context /\ PoolInv(e) /\ HandInv(e)
      /\ UNCHANGED <<use_napi, rx_queue, alone, status, rx_int_enabled>>
  BY DEF GetTxBuffer, SnullInv, CtxInv, FlowState, ModeInv, chip
<1>2. ~stopped[e] /\ ppool[e] # << >>
  BY <1>1 DEF PoolInv, RunsOrDry
<1>3. ppool[e] \in Seq(Buffers) /\ Len(ppool[e]) \in Nat
  BY LenProperties DEF SnullInv, ListInv
<1>4. PICK h \in Buffers : h = Head(ppool[e])
  BY <1>2, <1>3, TailFacts
<1>5. PICK c : c = [ctx[e] EXCEPT !.pc = "enqueue", !.pkt = h]
  OBVIOUS
<1>6. c.pc = "enqueue" /\ c.back = ctx[e].back
  BY <1>1, <1>5 DEF Context
<1>7. /\ ctx' = [ctx EXCEPT ![e] = c]
      /\ ppool' = [ppool EXCEPT ![e] = Tail(ppool[e])]
      /\ stopped' = [stopped EXCEPT ![e] = stopped[e] \/ Tail(ppool[e]) = << >>]
      /\ faults' = faults \/ faults' = faults \cup {"use after free"}
  BY <1>2, <1>4, <1>5 DEF GetTxBuffer, StopIfEmpty
<1>8. /\ ctx'[e] = c /\ \A p \in Devs : p # e => ctx'[p] = ctx[p]
      /\ \A p, d \in Devs : /\ Wakes(p, d)' <=> Wakes(p, d)
                            /\ Wakes(p, d) => ctx'[p] = ctx[p]
  BY <1>1, <1>6, <1>7, NobodyWakes DEF SnullInv, At
<1>9. ModeInv'
  BY <1>1, <1>6, <1>7, ModeKept DEF FlowState, HandInv
<1>10. /\ ppool'[e] = Tail(ppool[e]) /\ Len(ppool'[e]) = Len(ppool[e]) - 1
       /\ stopped'[e] = (ppool'[e] = << >>)
  <2>1. ppool'[e] = Tail(ppool[e])
    BY <1>7 DEF SnullInv, ListInv
  <2>2. stopped'[e] = (stopped[e] \/ Tail(ppool[e]) = << >>)
    BY <1>7 DEF TypeInv
  <2>3. Len(Tail(ppool[e])) = Len(ppool[e]) - 1
    BY <1>2, <1>3, HeadTailProperties
  <2> QED
    BY <1>2, <2>1, <2>2, <2>3
<1>11. PoolInv(e)'
  <2>1. RunsOrDry(e)'
    BY <1>6, <1>8, <1>10 DEF RunsOrDry, At
  <2>2. WakesWet(e)'
    <3>1. ~Wakes(e, e)'
      BY <1>6, <1>8 DEF Wakes, At
    <3>2. ASSUME Twin[e] # e, Wakes(Twin[e], e)'
          PROVE  Len(ppool'[e]) > 1 \/ (Len(ppool'[e]) = 1 /\ Bringing(e)')
      <4>1. Wakes(Twin[e], e)
        BY <1>8, <3>2, BufferFacts
      <4>2. ~Bringing(e)
        BY <1>1 DEF Bringing, At
      <4>3. Len(ppool[e]) > 1
        BY <1>1, <1>2, <3>2, <4>1, <4>2 DEF PoolInv, WakesWet
      <4>4. Bringing(e)'
        BY <1>6, <1>8 DEF Bringing, At
      <4>5. \A n \in Nat, m \in Int : m = n - 1 /\ n > 1 => m > 1 \/ m = 1
        OBVIOUS
      <4>6. PICK n \in Nat, m \in Int : n = Len(ppool[e]) /\ m = Len(ppool'[e]) /\ m = n - 1
        BY <1>3, <1>10
      <4>7. n > 1
        BY <4>3, <4>6
      <4>8. m > 1 \/ m = 1
        BY <4>5, <4>6, <4>7
      <4> QED
        BY <4>4, <4>6, <4>8
    <3> QED
      BY <3>1, <3>2 DEF WakesWet
  <2>3. Explained(e)'
    BY <1>10 DEF Explained
  <2> QED
    BY <2>1, <2>2, <2>3 DEF PoolInv
<1>12. ASSUME NEW d \in Devs, d # e PROVE PoolInv(d)'
  <2>1. ppool'[d] = ppool[d] /\ stopped'[d] = stopped[d] /\ ctx'[d] = ctx[d]
    BY <1>7, <1>8, <1>12 DEF SnullInv, ListInv, TypeInv
  <2>2. Bringing(d) => Bringing(d)'
    BY <1>1, <2>1, BringingKept
  <2>3. PoolInv(d)
    BY DEF FlowState
  <2>4. At(d, "get")' => At(d, "get") \/ ~stopped[d]
    BY <2>1 DEF At
  <2> QED
    BY <1>1, <1>8, <2>1, <2>2, <2>3, <2>4, PoolKept
<1> QED
  BY <1>7, <1>9, <1>11, <1>12 DEF FlowState, PoolNeverEmpty

\* snull_enqueue_buf: only the packet in hand may become the last of a list.
LEMMA EnqueueFlows ==
  ASSUME SnullInv, FlowState, NEW e \in Devs, Enqueue(e)
  PROVE  FlowState'
<1>1. /\ ctx[e] \in Context /\ ctx[e].pc = "enqueue" /\ ctx[e].back # "restart"
      /\ UNCHANGED <<use_napi, stopped, ppool, status, rx_int_enabled, faults>>
  BY DEF Enqueue, At, SnullInv, CtxInv, FlowState, ModeInv, HandInv, link, chip
<1>2. PICK h \in Buffers : h = ctx[e].pkt
  BY <1>1 DEF SnullInv, CtxInv
<1>3. PICK c : c = [ctx[e] EXCEPT !.pc = "read dest", !.pkt = NULL]
  OBVIOUS
<1>4. c.pc = "read dest" /\ c.back = ctx[e].back
  BY <1>1, <1>3 DEF Context
<1>5. /\ ctx' = [ctx EXCEPT ![e] = c]
      /\ rx_queue' = [rx_queue EXCEPT ![Twin[e]] = Push(h, rx_queue[Twin[e]])]
      /\ Link(h, rx_queue[Twin[e]])
  BY <1>2, <1>3 DEF Enqueue
<1>6. /\ ctx'[e] = c /\ \A d \in Devs : d # e => ctx'[d] = ctx[d]
      /\ rx_queue'[Twin[e]] # << >>
      /\ \A d \in Devs : d # Twin[e] => rx_queue'[d] = rx_queue[d]
  <2>1. rx_queue'[Twin[e]] = Push(h, rx_queue[Twin[e]])
    BY <1>5, BufferFacts DEF SnullInv, ListInv
  <2>2. Listed(h, Push(h, rx_queue[Twin[e]]))
    BY PushFacts, BufferFacts DEF SnullInv, ListInv
  <2>3. Push(h, rx_queue[Twin[e]]) # << >>
    BY <2>2 DEF Listed
  <2> QED
    BY <1>5, <2>1, <2>3 DEF SnullInv, CtxInv, ListInv
<1>7. ModeInv'
  BY <1>1, <1>4, <1>5, ModeKept DEF FlowState
<1>8. \A d \in Devs, b \in Buffers : Listed(b, ppool[d]) /\ b \in alone => b \in alone'
  <2>1. Held(e, h)
    BY <1>1, <1>2 DEF Held
  <2>2. ~Pooled(h)
    BY <2>1 DEF SnullInv, PlaceInv, OnePlace
  <2>3. \A d \in Devs : ~Listed(h, ppool[d])
    BY <2>2 DEF SnullInv, ListInv, Pooled
  <2>4. \A b : b \in alone /\ b # h => b \in alone'
    BY <1>5 DEF Link
  <2> QED
    BY <2>3, <2>4
<1>9. ASSUME NEW d \in Devs, Bringing(d) PROVE Bringing(d)'
  <2>1. CASE d = e
    BY <1>4, <1>6, <2>1 DEF Bringing, At
  <2>2. CASE d # e
    <3>1. Twin[d] # Twin[e] /\ Twin[d] \in Devs
      BY <2>2, BufferFacts
    <3> QED
      BY <1>1, <1>6, <1>9, <2>2, <3>1, BringingKept
  <2> QED
    BY <2>1, <2>2
<1>10. \A d \in Devs : PoolInv(d)'
  BY <1>1, <1>4, <1>5, <1>8, <1>9, PoolsKept DEF FlowState, At
<1> QED
  BY <1>1, <1>7, <1>10 DEF FlowState, PoolNeverEmpty

\* The status word of the twin is read.
LEMMA ReadDestFlows ==
  ASSUME SnullInv, FlowState, NEW e \in Devs, ReadDest(e)
  PROVE  FlowState'
<1>1. /\ ctx[e] \in Context /\ ctx[e].pc = "read dest" /\ ctx[e].back # "restart"
      /\ UNCHANGED <<use_napi, stopped, ppool, rx_queue, alone, status, rx_int_enabled, faults>>
  BY DEF ReadDest, At, SnullInv, CtxInv, FlowState, ModeInv, HandInv, link, lists, chip
<1>2. PICK c : c = IF rx_int_enabled[Twin[e]]
                     THEN [ctx[e] EXCEPT !.pc = "write dest", !.word = status[Twin[e]]]
                     ELSE [ctx[e] EXCEPT !.pc = "read own"]
  OBVIOUS
<1>3. ctx' = [ctx EXCEPT ![e] = c]
  BY <1>2 DEF ReadDest, Goto
<1>4. /\ c.pc \in {"write dest", "read own"} /\ c.back = ctx[e].back
      /\ rx_int_enabled[Twin[e]] => c.pc = "write dest"
  BY <1>1, <1>2 DEF Context
<1>5. ModeInv'
  BY <1>1, <1>3, <1>4, ModeKept DEF FlowState
<1>6. /\ ctx'[e] = c /\ \A d \in Devs : d # e => ctx'[d] = ctx[d]
  BY <1>3 DEF SnullInv, CtxInv
<1>7. ASSUME NEW d \in Devs, Wakes(Twin[d], d), Bringing(d) PROVE Bringing(d)'
  <2>1. CASE d = e
    <3>1. ~use_napi
      BY <1>7, BufferFacts DEF Wakes, FlowState, ModeInv, HandInv
    <3>2. rx_int_enabled[Twin[e]]
      BY <3>1, BufferFacts DEF FlowState, ModeInv
    <3>3. rx_queue[Twin[e]] # << >>
      BY <1>1, <1>7, <2>1 DEF Bringing, At
    <3> QED
      BY <1>1, <1>4, <1>6, <2>1, <3>2, <3>3 DEF Bringing, At
  <2>2. CASE d # e
    BY <1>1, <1>6, <1>7, <2>2, BringingKept
  <2> QED
    BY <2>1, <2>2
<1>8. \A d \in Devs : PoolInv(d)'
  BY <1>1, <1>3, <1>4, <1>7, PoolsKept DEF FlowState, At
<1> QED
  BY <1>1, <1>5, <1>8 DEF FlowState, PoolNeverEmpty

\* The status word of the twin is written: its interrupt will take a packet.
LEMMA WriteDestFlows ==
  ASSUME SnullInv, FlowState, NEW e \in Devs, WriteDest(e)
  PROVE  FlowState'
<1>1. /\ ctx[e] \in Context /\ ctx[e].pc = "write dest"
      /\ status \in [Devs -> SUBSET {"RX", "TX"}]
      /\ UNCHANGED <<use_napi, stopped, ppool, rx_queue, alone, rx_int_enabled, faults>>
  BY DEF WriteDest, At, SnullInv, CtxInv, link, lists
<1>2. PICK c : c = [ctx[e] EXCEPT !.pc = "interrupt", !.on = Twin[e], !.word = {},
                                  !.back = "read own"]
  OBVIOUS
<1>3. /\ ctx' = [ctx EXCEPT ![e] = c]
      /\ status' = [status EXCEPT ![Twin[e]] = ctx[e].word \cup {"RX"}]
  BY <1>2 DEF WriteDest
<1>4. c.pc = "interrupt" /\ c.on = Twin[e] /\ c.back = "read own"
  BY <1>1, <1>2 DEF Context
<1>5. ModeInv'
  BY <1>1, <1>3, <1>4, ModeKept DEF FlowState
<1>6. /\ ctx'[e] = c /\ \A d \in Devs : d # e => ctx'[d] = ctx[d]
      /\ "RX" \in status'[Twin[e]]
      /\ \A d \in Devs : d # Twin[e] => status'[d] = status[d]
  BY <1>1, <1>3, BufferFacts DEF SnullInv, CtxInv
<1>7. ASSUME NEW d \in Devs, Bringing(d) PROVE Bringing(d)'
  <2>1. CASE d = e
    <3>1. rx_queue[Twin[e]] # << >>
      BY <1>1, <1>7, <2>1 DEF Bringing, At
    <3> QED
      BY <1>1, <1>4, <1>6, <2>1, <3>1 DEF Bringing, At
  <2>2. CASE d # e
    <3>1. Twin[d] # Twin[e] /\ Twin[d] \in Devs
      BY <2>2, BufferFacts
    <3> QED
      BY <1>1, <1>6, <1>7, <2>2, <3>1, BringingKept
  <2> QED
    BY <2>1, <2>2
<1>8. \A d \in Devs : PoolInv(d)'
  BY <1>1, <1>3, <1>4, <1>7, PoolsKept DEF FlowState, At
<1> QED
  BY <1>1, <1>5, <1>8 DEF FlowState, PoolNeverEmpty

\* The sender reads its own status word.
LEMMA ReadOwnFlows ==
  ASSUME SnullInv, FlowState, NEW e \in Devs, ReadOwn(e)
  PROVE  FlowState'
<1>1. /\ ctx[e] \in Context /\ ctx[e].pc = "read own" /\ ctx[e].back # "restart"
      /\ UNCHANGED <<use_napi, stopped, ppool, rx_queue, alone, status, rx_int_enabled, faults>>
  BY DEF ReadOwn, At, SnullInv, CtxInv, FlowState, ModeInv, HandInv, link, lists, chip
<1>2. PICK c : c = [ctx[e] EXCEPT !.pc = "write own", !.word = status[e]]
  OBVIOUS
<1>3. ctx' = [ctx EXCEPT ![e] = c]
  BY <1>2 DEF ReadOwn
<1>4. c.pc = "write own" /\ c.back = ctx[e].back
  BY <1>1, <1>2 DEF Context
<1>5. ModeInv'
  BY <1>1, <1>3, <1>4, ModeKept DEF FlowState
<1>6. \A d \in Devs : Bringing(d) => Bringing(d)'
  <2>1. ~Bringing(e)
    BY <1>1 DEF Bringing, At
  <2>2. \A d \in Devs : d # e => ctx'[d] = ctx[d]
    BY <1>3 DEF SnullInv, CtxInv
  <2> QED
    BY <1>1, <2>1, <2>2, BringingKept
<1>7. \A d \in Devs : PoolInv(d)'
  BY <1>1, <1>3, <1>4, <1>6, PoolsKept DEF FlowState, At
<1> QED
  BY <1>1, <1>5, <1>7 DEF FlowState, PoolNeverEmpty

\* The sender's own status word is written; a simulated lockup stops the queue.
LEMMA WriteOwnFlows ==
  ASSUME SnullInv, TypeInv, FlowState, NEW e \in Devs, WriteOwn(e)
  PROVE  FlowState'
<1>1. /\ ctx[e] \in Context /\ ctx[e].pc = "write own"
      /\ status \in [Devs -> SUBSET {"RX", "TX"}]
      /\ status' = [status EXCEPT ![e] = ctx[e].word \cup {"TX"}]
      /\ UNCHANGED <<use_napi, ppool, rx_queue, alone, rx_int_enabled, faults>>
  BY DEF WriteOwn, At, SnullInv, CtxInv, lists
<1>2. PICK c : c = IF Lockup # 0 /\ (tx_packets[e] + 1) % Lockup = 0 THEN Idle
                     ELSE [Idle EXCEPT !.pc = "interrupt", !.on = e]
  OBVIOUS
<1>3. /\ ctx' = [ctx EXCEPT ![e] = c]
      /\ stopped' = stopped \/ (Lockup # 0 /\ stopped' = [stopped EXCEPT ![e] = TRUE])
  BY <1>2 DEF WriteOwn
<1>4. c.pc \in {"idle", "interrupt"} /\ c.back = "idle" /\ (c.pc = "interrupt" => c.on = e)
  BY <1>2 DEF Idle
<1>5. ModeInv'
  BY <1>1, <1>3, <1>4, ModeKept DEF FlowState
<1>6. /\ ctx'[e] = c /\ \A d \in Devs : d # e => ctx'[d] = ctx[d]
      /\ \A d \in Devs : d # e => status'[d] = status[d]
  BY <1>1, <1>3 DEF SnullInv, CtxInv
<1>7. ASSUME NEW d \in Devs, Wakes(Twin[d], d), Bringing(d) PROVE Bringing(d)'
  <2>1. d # e /\ Twin[d] # e /\ Twin[d] \in Devs
    BY <1>1, <1>7, BufferFacts DEF Bringing, Wakes, At
  <2> QED
    BY <1>1, <1>6, <1>7, <2>1, BringingKept
<1>8. \A d \in Devs : PoolInv(d)'
  <2>1. CASE stopped' = stopped
    BY <1>1, <1>3, <1>4, <1>7, <2>1, PoolsKept DEF FlowState, At
  <2>2. CASE Lockup # 0 /\ stopped' = [stopped EXCEPT ![e] = TRUE]
    <3>1. \A d \in Devs : stopped'[d] = IF d = e THEN TRUE ELSE stopped[d]
      BY <2>2 DEF TypeInv
    <3>2. \A p, d \in Devs : Wakes(p, d)' <=> Wakes(p, d)
      BY <1>1, <1>3, <1>4, NobodyWakes DEF SnullInv, At
    <3> SUFFICES ASSUME NEW d \in Devs PROVE PoolInv(d)'
      OBVIOUS
    <3>3. PoolInv(d)
      BY DEF FlowState
    <3>4. RunsOrDry(d)'
      <4>1. At(d, "get")' => d # e /\ At(d, "get")
        BY <1>4, <1>6 DEF At
      <4> QED
        BY <1>1, <3>1, <3>3, <4>1 DEF PoolInv, RunsOrDry
    <3>5. WakesWet(d)'
      BY <1>1, <1>7, <3>1, <3>2, <3>3, BufferFacts DEF PoolInv, WakesWet
    <3>6. Explained(d)'
      BY <2>2 DEF Explained
    <3> QED
      BY <3>4, <3>5, <3>6 DEF PoolInv
  <2> QED
    BY <1>3, <2>1, <2>2
<1> QED
  BY <1>1, <1>5, <1>8 DEF FlowState, PoolNeverEmpty

(***************************************************************************)
(* The steps of the interrupt handlers.                                    *)
(***************************************************************************)

\* An interrupt handler never meets a null pointer.
LEMMA DoneHarmless ==
  ASSUME NEW e, TxDone(e), PoolNeverEmpty
  PROVE  PoolNeverEmpty'
<1>1. faults' = faults \/ faults' = faults \cup {"double free"}
  <2>1. CASE "TX" \in status[e]
    BY <2>1 DEF TxDone, FreeSkb
  <2>2. CASE "TX" \notin status[e]
    BY <2>2 DEF TxDone
  <2> QED
    BY <2>1, <2>2
<1>2. "null pointer" # "double free"
  OBVIOUS
<1> QED
  BY <1>1, <1>2 DEF PoolNeverEmpty

\* The packet taken off a receive queue belongs to the twin of the device interrupted.
LEMMA InterruptFlows ==
  ASSUME SnullInv, FlowState, NEW e \in Devs, RegularInterrupt(e)
  PROVE  FlowState'
<1>1. /\ ctx[e] \in Context /\ ctx[e].pc = "interrupt" /\ ~use_napi
      /\ ctx[e].on \in {e, Twin[e]} /\ ctx[e].back \in {"idle", "read own"}
      /\ UNCHANGED <<use_napi, ppool, stopped, alone, rx_int_enabled>>
  BY DEF RegularInterrupt, At, SnullInv, CtxInv, FlowState, ModeInv, HandInv, Context, link
<1>2. PICK f \in Devs : f = ctx[e].on /\ f \in {e, Twin[e]}
  BY <1>1, BufferFacts
<1>3. /\ status' = [status EXCEPT ![f] = {}] /\ TxDone(f)
  BY <1>2 DEF RegularInterrupt, Cleared
<1>4. \A d \in Devs : d # f => status'[d] = status[d]
  BY <1>3 DEF SnullInv, CtxInv
<1>5. CASE "RX" \in status[f] /\ rx_queue[f] # << >>
  <2>1. rx_queue[f] \in Seq(Buffers)
    BY DEF SnullInv, ListInv
  <2>2. PICK h \in Buffers : h = Head(rx_queue[f]) /\ Listed(h, rx_queue[f])
    BY <1>5, <2>1, TailFacts
  <2>3. Owner(h) = Twin[f]
    BY <2>2 DEF SnullInv, ListInv
  <2>4. PICK c : c = [ctx[e] EXCEPT !.pc = "release", !.pkt = h]
    OBVIOUS
  <2>5. /\ ctx' = [ctx EXCEPT ![e] = c]
        /\ rx_queue' = [rx_queue EXCEPT ![f] = Tail(rx_queue[f])]
    BY <1>2, <1>5, <2>2, <2>4 DEF RegularInterrupt, Unlinked
  <2>6. c.pc = "release" /\ c.pkt = h /\ c.back = ctx[e].back
    BY <1>1, <2>4 DEF Context
  <2>7. Owner(h) \in {e, Twin[e]}
    BY <1>2, <2>3, BufferFacts
  <2>8. ModeInv'
    BY <1>1, <2>5, <2>6, <2>7, ModeKept DEF FlowState
  <2>9. /\ ctx'[e] = c /\ \A d \in Devs : d # e => ctx'[d] = ctx[d]
        /\ \A d \in Devs : d # f => rx_queue'[d] = rx_queue[d]
    BY <2>5 DEF SnullInv, CtxInv, ListInv
  <2>10. ASSUME NEW d \in Devs, Twin[d] # d, Wakes(Twin[d], d), Bringing(d)
         PROVE  Bringing(d)'
    <3>1. Twin[d] # e /\ Twin[d] \in Devs
      BY <1>1, <2>10, BufferFacts DEF Wakes, At
    <3>2. CASE d = e
      <4>1. f = Twin[e]
        BY <1>1, <1>2, <2>10, <3>2 DEF Bringing, At
      <4>2. Owner(h) = e
        BY <2>3, <4>1, BufferFacts
      <4> QED
        BY <2>6, <2>9, <3>2, <4>2 DEF Bringing, At
    <3>3. CASE d # e
      <4>1. Twin[d] # f
        BY <1>2, <3>1, <3>3, BufferFacts
      <4> QED
        BY <1>4, <2>9, <2>10, <3>1, <3>3, <4>1, BringingKept
    <3> QED
      BY <3>2, <3>3
  <2>11. \A d \in Devs : PoolInv(d)'
    BY <1>1, <2>5, <2>6, <2>10, PoolsKept DEF FlowState, At
  <2> QED
    BY <1>3, <2>8, <2>11, DoneHarmless DEF FlowState
<1>6. CASE ~("RX" \in status[f] /\ rx_queue[f] # << >>)
  <2>1. PICK c : c = [Idle EXCEPT !.pc = ctx[e].back]
    OBVIOUS
  <2>2. ctx' = [ctx EXCEPT ![e] = c] /\ UNCHANGED rx_queue
    BY <1>2, <1>6, <2>1 DEF RegularInterrupt, Return
  <2>3. c.pc \in {"idle", "read own"} /\ c.back = "idle"
    BY <1>1, <2>1 DEF Idle
  <2>4. ModeInv'
    BY <1>1, <2>2, <2>3, ModeKept DEF FlowState
  <2>5. ctx'[e] = c /\ \A d \in Devs : d # e => ctx'[d] = ctx[d]
    BY <2>2 DEF SnullInv, CtxInv
  <2>6. ASSUME NEW d \in Devs, Twin[d] # d, Wakes(Twin[d], d), Bringing(d)
        PROVE  Bringing(d)'
    <3>1. Twin[d] # e /\ Twin[d] \in Devs
      BY <1>1, <2>6, BufferFacts DEF Wakes, At
    <3>2. d # e
      BY <1>1, <1>2, <1>6, <2>6 DEF Bringing, At
    <3>3. Twin[d] # f
      BY <1>2, <3>1, <3>2, BufferFacts
    <3> QED
      BY <1>4, <2>2, <2>5, <2>6, <3>1, <3>2, <3>3, BringingKept
  <2>7. \A d \in Devs : PoolInv(d)'
    BY <1>1, <2>2, <2>3, <2>6, PoolsKept DEF FlowState, At
  <2> QED
    BY <1>3, <2>4, <2>7, DoneHarmless DEF FlowState
<1> QED
  BY <1>5, <1>6

\* With use_napi no packet is ever taken off a receive queue.
LEMMA NapiFlows ==
  ASSUME SnullInv, FlowState, NEW e \in Devs, NapiInterrupt(e)
  PROVE  FlowState'
<1>1. /\ ctx[e] \in Context /\ ctx[e].pc = "interrupt" /\ use_napi
      /\ ctx[e].back \in {"idle", "read own"} /\ TxDone(ctx[e].on)
      /\ UNCHANGED <<use_napi, ppool, stopped, alone>>
  BY DEF NapiInterrupt, At, SnullInv, CtxInv, FlowState, ModeInv, HandInv, Context, link, lists
<1>2. PICK c : c = [Idle EXCEPT !.pc = ctx[e].back]
  OBVIOUS
<1>3. ctx' = [ctx EXCEPT ![e] = c]
  BY <1>2 DEF NapiInterrupt, Return
<1>4. c.pc \in {"idle", "read own"} /\ c.back = "idle"
  BY <1>1, <1>2 DEF Idle
<1>5. ModeInv'
  BY <1>1, <1>3, <1>4, ModeKept DEF FlowState
<1>6. \A p, d \in Devs : ~Wakes(p, d)
  BY <1>1 DEF Wakes, FlowState, ModeInv, HandInv
<1>7. \A d \in Devs : PoolInv(d)'
  BY <1>1, <1>3, <1>4, <1>6, BufferFacts, PoolsKept DEF FlowState, At
<1> QED
  BY <1>1, <1>5, <1>7, DoneHarmless DEF FlowState

\* snull_release_buffer, up to the unlock.
LEMMA ReleaseFlows ==
  ASSUME SnullInv, FlowState, NEW e \in Devs, ReleaseBuffer(e)
  PROVE  FlowState'
<1>1. /\ ctx[e] \in Context /\ ctx[e].pc = "release" /\ ~use_napi /\ ctx[e].back # "restart"
      /\ Owner(ctx[e].pkt) \in {e, Twin[e]} /\ ctx[e].pkt \in Buffers
      /\ UNCHANGED <<use_napi, stopped, rx_queue, status, rx_int_enabled, faults>>
  BY DEF ReleaseBuffer, At, SnullInv, CtxInv, FlowState, ModeInv, HandInv, link, chip
<1>2. PICK h \in Buffers : h = ctx[e].pkt
  BY <1>1
<1>3. PICK o \in Devs : o = Owner(h) /\ o \in {e, Twin[e]}
  BY <1>1, <1>2, BufferFacts
<1>4. PICK c : c = [ctx[e] EXCEPT !.pc = "recheck"]
  OBVIOUS
<1>5. c.pc = "recheck" /\ c.pkt = h /\ c.back = ctx[e].back
  BY <1>1, <1>2, <1>4 DEF Context
<1>6. /\ ctx' = [ctx EXCEPT ![e] = c] /\ Link(h, ppool[o])
      /\ ppool' = [ppool EXCEPT ![o] = Push(h, ppool[o])]
  BY <1>2, <1>3, <1>4 DEF ReleaseBuffer, Goto, Home
<1>7. ModeInv'
  BY <1>1, <1>2, <1>5, <1>6, ModeKept DEF FlowState
<1>8. ctx'[e] = c /\ \A d \in Devs : d # e => ctx'[d] = ctx[d]
  BY <1>6 DEF SnullInv, CtxInv
<1>9. /\ Wakes(e, o)' /\ \A d \in Devs : d # o => ~Wakes(e, d)'
      /\ \A d \in Devs : ~Wakes(e, d)
      /\ \A p, d \in Devs : p # e => /\ Wakes(p, d)' <=> Wakes(p, d)
                                     /\ ctx'[p] = ctx[p]
  BY <1>1, <1>3, <1>5, <1>8 DEF Wakes, At
<1>10. \A d \in Devs : \A b : Listed(b, ppool[d]) => b # h
  <2>1. Held(e, h)
    BY <1>1, <1>2 DEF Held
  <2>2. ~Pooled(h)
    BY <2>1 DEF SnullInv, PlaceInv, OnePlace
  <2> QED
    BY <2>2 DEF SnullInv, ListInv, Pooled
<1>11. \A d \in Devs : \A b : Listed(b, ppool[d]) /\ b \in alone => b \in alone'
  BY <1>6, <1>10 DEF Link
<1>12. PoolInv(o)'
  <2>1. ppool[o] \in Seq(Buffers) /\ Len(ppool[o]) \in Nat
        /\ (ppool[o] = << >> <=> Len(ppool[o]) = 0)
    BY LenProperties, EmptySeq DEF SnullInv, ListInv
  <2>2. ppool'[o] = Push(h, ppool[o])
    BY <1>6 DEF SnullInv, ListInv
  <2>3. \A b : Listed(b, ppool'[o]) <=> b = h \/ Listed(b, ppool[o])
    BY <2>1, <2>2, PushFacts
  <2>4. Len(ppool'[o]) = Len(ppool[o]) + 1
    <3>1. <<h>> \in Seq(Buffers) /\ Len(<<h>>) = 1
      OBVIOUS
    <3>2. Len(<<h>> \o ppool[o]) = Len(<<h>>) + Len(ppool[o])
      BY <2>1, <3>1, ConcatProperties
    <3> QED
      BY <2>1, <2>2, <3>1, <3>2 DEF Push
  <2>5. ppool'[o] # << >>
    BY <2>3 DEF Listed
  <2>6. PoolInv(o)
    BY DEF FlowState
  <2>7. RunsOrDry(o)'
    <3>1. At(o, "get")' => At(o, "get")
      BY <1>5, <1>8 DEF At
    <3> QED
      BY <1>1, <2>5, <2>6, <3>1 DEF PoolInv, RunsOrDry
  <2>8. WakesWet(o)'
    <3> SUFFICES ASSUME Twin[o] # o, Wakes(Twin[o], o)'
                 PROVE  \/ Len(ppool'[o]) > 1
                        \/ Len(ppool'[o]) = 1 /\ (Bringing(o)' \/ (stopped'[o] /\ ~Wakes(o, o)'))
      BY <2>5 DEF WakesWet
    <3>1. CASE ppool[o] # << >>
      BY <2>1, <2>4, <3>1
    <3>2. CASE ppool[o] = << >>
      <4>1. stopped[o] /\ ~Wakes(o, o)
        BY <2>6, <3>2 DEF PoolInv, RunsOrDry, WakesWet
      <4>2. e # o
        <5>1. ~Wakes(Twin[o], o)
          BY <2>1, <2>6, <3>2 DEF PoolInv, WakesWet
        <5> QED
          BY <1>9, <5>1, BufferFacts
      <4>3. ~Wakes(o, o)'
        BY <1>9, <4>1, <4>2
      <4>4. Len(ppool'[o]) = 1
        BY <2>1, <2>4, <3>2
      <4> QED
        BY <1>1, <4>1, <4>3, <4>4
    <3> QED
      BY <3>1, <3>2
  <2>9. Explained(o)'
    <3> SUFFICES ASSUME stopped'[o], Lockup = 0 PROVE \E p \in Devs : WillWake(p, o)'
      BY DEF Explained
    <3>1. CASE ppool[o] = << >>
      <4>1. h \in alone'
        BY <1>6, <3>1 DEF Link
      <4> QED
        BY <1>5, <1>8, <1>9, <2>3, <4>1 DEF WillWake
    <3>2. CASE ppool[o] # << >>
      <4>1. PICK p \in Devs : WillWake(p, o)
        BY <1>1, <2>6, <3>2 DEF PoolInv, Explained
      <4>2. p # e /\ Wakes(p, o)' /\ ctx'[p] = ctx[p]
        BY <1>9, <4>1 DEF WillWake
      <4>3. At(p, "recheck")' => ctx[p].pkt \in alone' /\ Listed(ctx[p].pkt, ppool'[o])
        BY <1>11, <2>3, <4>1, <4>2 DEF WillWake, At
      <4> QED
        BY <4>2, <4>3 DEF WillWake
    <3> QED
      BY <3>1, <3>2
  <2> QED
    BY <2>7, <2>8, <2>9 DEF PoolInv
<1>13. ASSUME NEW d \in Devs, d # o PROVE PoolInv(d)'
  <2>1. ppool'[d] = ppool[d] /\ PoolInv(d)
    BY <1>6, <1>13 DEF SnullInv, ListInv, FlowState
  <2>2. \A p \in Devs : /\ Wakes(p, d)' <=> Wakes(p, d)
                        /\ Wakes(p, d) => ctx'[p] = ctx[p]
    BY <1>9, <1>13
  <2>3. Bringing(d) => Bringing(d)'
    <3>1. CASE d = e
      <4>1. ~Bringing(e)
        BY <1>1, <1>2, <1>3, <1>13, <3>1 DEF Bringing, At
      <4> QED
        BY <3>1, <4>1
    <3>2. CASE d # e
      BY <1>1, <1>8, <3>2, BringingKept
    <3> QED
      BY <3>1, <3>2
  <2>4. At(d, "get")' => At(d, "get")
    BY <1>5, <1>8 DEF At
  <2> QED
    BY <1>1, <1>11, <2>1, <2>2, <2>3, <2>4, PoolKept
<1> QED
  BY <1>1, <1>7, <1>12, <1>13 DEF FlowState, PoolNeverEmpty

\* snull_release_buffer, after the unlock: whoever leaves without waking the queue has found
\* it running, or its packet no longer the last of a list.
LEMMA RecheckFlows ==
  ASSUME SnullInv, TypeInv, FlowState, NEW e \in Devs, Recheck(e)
  PROVE  FlowState'
<1>1. /\ ctx[e] \in Context /\ ctx[e].pc = "recheck" /\ ~use_napi
      /\ ctx[e].back \in {"idle", "read own"}
      /\ Owner(ctx[e].pkt) \in {e, Twin[e]} /\ ctx[e].pkt \in Buffers
      /\ UNCHANGED <<use_napi, ppool, stopped, rx_queue, alone, status, rx_int_enabled, faults>>
  BY DEF Recheck, At, SnullInv, CtxInv, FlowState, ModeInv, HandInv, Context, link, lists, chip
<1>2. PICK h \in Buffers : h = ctx[e].pkt
  BY <1>1
<1>3. PICK o \in Devs : o = Owner(h) /\ o \in {e, Twin[e]}
  BY <1>1, <1>2, BufferFacts
<1>4. PICK c : c = IF stopped[o] /\ h \in alone THEN [ctx[e] EXCEPT !.pc = "wake"]
                                                ELSE [Idle EXCEPT !.pc = ctx[e].back]
  OBVIOUS
<1>5. /\ c.pc \in {"wake", "idle", "read own"} /\ c.back \in {"idle", "read own"}
      /\ c.pc = "wake" <=> stopped[o] /\ h \in alone
      /\ c.pc = "wake" => c.pkt = h
  BY <1>1, <1>2, <1>4 DEF Idle, Context
<1>6. ctx' = [ctx EXCEPT ![e] = c]
  BY <1>2, <1>3, <1>4 DEF Recheck, Goto, Return, Home
<1>7. ModeInv'
  BY <1>1, <1>2, <1>5, <1>6, ModeKept DEF FlowState
<1>8. ctx'[e] = c /\ \A d \in Devs : d # e => ctx'[d] = ctx[d]
  BY <1>6 DEF SnullInv, CtxInv
<1>9. /\ Wakes(e, o) /\ \A d \in Devs : d # o => ~Wakes(e, d) /\ ~Wakes(e, d)'
      /\ c.pc = "wake" => WillWake(e, o)'
      /\ \A p, d \in Devs : p # e => /\ Wakes(p, d)' <=> Wakes(p, d)
                                     /\ ctx'[p] = ctx[p]
  BY <1>1, <1>2, <1>3, <1>5, <1>8 DEF WillWake, Wakes, At
<1>10. \A d \in Devs : Bringing(d) => Bringing(d)'
  BY <1>1, <1>8, BringingKept DEF Bringing, At
<1>11. \A d \in Devs : At(d, "get")' => At(d, "get")
  BY <1>5, <1>8 DEF At
<1>12. PoolInv(o)'
  <2>1. PoolInv(o)
    BY DEF FlowState
  <2>2. RunsOrDry(o)'
    BY <1>1, <1>11, <2>1 DEF PoolInv, RunsOrDry
  <2>3. WakesWet(o)'
    <3>1. \A p \in Devs : Wakes(p, o)' => Wakes(p, o)
      BY <1>9
    <3> QED
      BY <1>1, <1>10, <2>1, <3>1, BufferFacts DEF PoolInv, WakesWet
  <2>4. Explained(o)'
    <3> SUFFICES ASSUME stopped[o], ppool[o] # << >>, Lockup = 0, c.pc # "wake"
                 PROVE  \E p \in Devs : WillWake(p, o)'
      BY <1>1, <1>9 DEF Explained
    <3>1. PICK p \in Devs : WillWake(p, o)
      BY <2>1 DEF PoolInv, Explained
    <3>2. p # e
      BY <1>1, <1>2, <1>5, <3>1 DEF WillWake, At
    <3>3. Wakes(p, o)' /\ ctx'[p] = ctx[p]
      BY <1>9, <3>1, <3>2 DEF WillWake
    <3> QED
      BY <1>1, <3>1, <3>3 DEF WillWake, At
  <2> QED
    BY <2>2, <2>3, <2>4 DEF PoolInv
<1>13. ASSUME NEW d \in Devs, d # o PROVE PoolInv(d)'
  <2>1. PoolInv(d)
    BY DEF FlowState
  <2>2. \A p \in Devs : /\ Wakes(p, d)' <=> Wakes(p, d)
                        /\ Wakes(p, d) => ctx'[p] = ctx[p]
    BY <1>9, <1>13
  <2> QED
    BY <1>1, <1>10, <1>11, <2>1, <2>2, PoolKept
<1> QED
  BY <1>1, <1>7, <1>12, <1>13 DEF FlowState, PoolNeverEmpty

\* snull_release_buffer wakes the queue: the pool has had a packet ever since.
LEMMA WakeFlows ==
  ASSUME SnullInv, TypeInv, FlowState, NEW e \in Devs, WakeQueue(e)
  PROVE  FlowState'
<1>1. /\ ctx[e] \in Context /\ ctx[e].pc = "wake" /\ ~use_napi
      /\ ctx[e].back \in {"idle", "read own"}
      /\ Owner(ctx[e].pkt) \in {e, Twin[e]} /\ ctx[e].pkt \in Buffers
      /\ UNCHANGED <<use_napi, ppool, rx_queue, alone, status, rx_int_enabled, faults>>
  BY DEF WakeQueue, At, SnullInv, CtxInv, FlowState, ModeInv, HandInv, Context, lists, chip
<1>2. PICK h \in Buffers : h = ctx[e].pkt
  BY <1>1
<1>3. PICK o \in Devs : o = Owner(h) /\ o \in {e, Twin[e]}
  BY <1>1, <1>2, BufferFacts
<1>4. PICK c : c = [Idle EXCEPT !.pc = ctx[e].back]
  OBVIOUS
<1>5. c.pc \in {"idle", "read own"} /\ c.back = "idle"
  BY <1>1, <1>4 DEF Idle
<1>6. /\ ctx' = [ctx EXCEPT ![e] = c]
      /\ stopped' = [stopped EXCEPT ![o] = FALSE]
  BY <1>2, <1>3, <1>4 DEF WakeQueue, Return, Home
<1>7. ModeInv'
  BY <1>1, <1>5, <1>6, ModeKept DEF FlowState
<1>8. ctx'[e] = c /\ \A d \in Devs : d # e => ctx'[d] = ctx[d]
  BY <1>6 DEF SnullInv, CtxInv
<1>9. /\ Wakes(e, o) /\ \A d \in Devs : d # o => ~Wakes(e, d)
      /\ \A d \in Devs : ~Wakes(e, d)'
      /\ \A p, d \in Devs : p # e => /\ Wakes(p, d)' <=> Wakes(p, d)
                                     /\ ctx'[p] = ctx[p]
  BY <1>1, <1>2, <1>3, <1>5, <1>8 DEF Wakes, At
<1>10. /\ ~stopped'[o]
       /\ \A d \in Devs : d # o => stopped'[d] = stopped[d]
  BY <1>6 DEF TypeInv
<1>11. \A d \in Devs : d # e /\ Bringing(d) => Bringing(d)'
  BY <1>1, <1>8, BringingKept
<1>12. ~Bringing(e)
  BY <1>1 DEF Bringing, At
<1>13. PoolInv(o)'
  <2>1. PoolInv(o)
    BY DEF FlowState
  <2>2. RunsOrDry(o)'
    <3>1. ppool[o] # << >>
      <4>1. CASE o = e
        BY <1>9, <2>1, <4>1 DEF PoolInv, WakesWet
      <4>2. CASE o # e
        <5>1. Twin[o] = e
          BY <1>3, <4>2, BufferFacts
        <5>2. Len(ppool[o]) > 1 \/ Len(ppool[o]) = 1
          BY <1>9, <2>1, <4>2, <5>1 DEF PoolInv, WakesWet
        <5>3. Len(<< >>) = 0
          OBVIOUS
        <5> QED
          BY <5>2, <5>3
      <4> QED
        BY <4>1, <4>2
    <3>2. At(o, "get")' => At(o, "get")
      BY <1>5, <1>8 DEF At
    <3> QED
      BY <1>1, <1>10, <2>1, <3>1, <3>2 DEF PoolInv, RunsOrDry
  <2>3. WakesWet(o)'
    <3>1. Wakes(o, o)' => ppool'[o] # << >>
      BY <1>1, <1>9, <2>1 DEF PoolInv, WakesWet
    <3>2. ASSUME Twin[o] # o, Wakes(Twin[o], o)' PROVE Len(ppool'[o]) > 1
      <4>1. Twin[o] # e /\ Wakes(Twin[o], o)
        BY <1>9, <3>2, BufferFacts
      <4>2. o = e
        BY <1>3, <4>1, BufferFacts
      <4>3. Wakes(o, o) /\ ~Bringing(o)
        BY <1>9, <1>12, <4>2
      <4> QED
        BY <1>1, <2>1, <3>2, <4>1, <4>3 DEF PoolInv, WakesWet
    <3> QED
      BY <3>1, <3>2 DEF WakesWet
  <2>4. Explained(o)'
    BY <1>10 DEF Explained
  <2> QED
    BY <2>2, <2>3, <2>4 DEF PoolInv
<1>14. ASSUME NEW d \in Devs, d # o PROVE PoolInv(d)'
  <2>1. PoolInv(d)
    BY DEF FlowState
  <2>2. \A p \in Devs : /\ Wakes(p, d)' <=> Wakes(p, d)
                        /\ Wakes(p, d) => ctx'[p] = ctx[p]
    BY <1>9, <1>14
  <2>3. Bringing(d) => Bringing(d)'
    BY <1>11, <1>12
  <2>4. At(d, "get")' => At(d, "get")
    BY <1>5, <1>8 DEF At
  <2> QED
    BY <1>1, <1>10, <1>14, <2>1, <2>2, <2>3, <2>4, PoolKept
<1> QED
  BY <1>1, <1>7, <1>13, <1>14 DEF FlowState, PoolNeverEmpty

(***************************************************************************)
(* The theorem.                                                            *)
(***************************************************************************)

\* Every step keeps the flow control right.
LEMMA FlowStep ==
  ASSUME SnullInv, TypeInv, FlowInv, [Next]_vars
  PROVE  FlowInv'
<1>1. timeouts \in Nat /\ opens \in Nat
  BY DEF FlowInv
<1>2. CASE UNCHANGED vars
  <2>1. /\ UNCHANGED <<timeouts, opens, up, stopped, ppool, rx_queue, alone, status,
                       rx_int_enabled, ctx, faults, use_napi>>
    BY <1>2 DEF vars, bounds, link, lists, chip
  <2>2. FlowState => FlowState'
    BY <2>1 DEF FlowState, PoolNeverEmpty, ModeInv, HandInv, PoolInv, RunsOrDry, WakesWet,
                Explained, WillWake, Wakes, Bringing, At
  <2> QED
    BY <1>1, <2>1, <2>2 DEF FlowInv, Undisturbed
<1>3. ASSUME NEW e \in Devs, Step(e) PROVE FlowInv'
  <2>1. CASE TxTimeout(e) \/ Open(e)
    <3>1. \/ timeouts' = timeouts + 1 /\ opens' = opens
          \/ opens' = opens + 1 /\ timeouts' = timeouts
      BY <2>1 DEF TxTimeout, Open
    <3>2. timeouts' \in Nat /\ opens' \in Nat /\ (timeouts' # 0 \/ opens' # 0)
      BY <1>1, <3>1
    <3> QED
      BY <3>2 DEF FlowInv, Undisturbed
  <2>2. CASE Release(e)
    <3>1. timeouts' = timeouts /\ opens' = opens /\ ~up'[e]
      BY <2>2 DEF Release, bounds, TypeInv
    <3> QED
      BY <1>1, <3>1 DEF FlowInv, Undisturbed
  <2>3. CASE TimeoutWake(e)
    <3>1. UNCHANGED <<timeouts, opens, up>> /\ At(e, "restart")
      BY <2>3 DEF TimeoutWake, bounds
    <3>2. ~FlowState
      BY <3>1 DEF FlowState, ModeInv, HandInv, At
    <3> QED
      BY <1>1, <3>1, <3>2 DEF FlowInv, Undisturbed
  <2>4. CASE Transmit(e) \/ Interrupt(e)
    <3>1. UNCHANGED <<timeouts, opens, up>>
      BY <2>4 DEF Transmit, Interrupt, Tx, GetTxBuffer, Enqueue, ReadDest, WriteDest, ReadOwn,
         WriteOwn, RegularInterrupt, NapiInterrupt, ReleaseBuffer, Recheck, WakeQueue,
         bounds, link
    <3>2. FlowState => FlowState'
      BY <2>4, TxFlows, GetFlows, EnqueueFlows, ReadDestFlows, WriteDestFlows, ReadOwnFlows,
         WriteOwnFlows, InterruptFlows, NapiFlows, ReleaseFlows, RecheckFlows, WakeFlows
      DEF Transmit, Interrupt
    <3> QED
      BY <1>1, <3>1, <3>2 DEF FlowInv, Undisturbed
  <2> QED
    BY <1>3, <2>1, <2>2, <2>3, <2>4 DEF Step, Timeout, Admin
<1> QED
  BY <1>2, <1>3 DEF Next, Rest, Step

\* Until the watchdog or snull_open interferes, snull_get_tx_buffer never meets an empty
\* pool: the queue is stopped whenever the pool is empty.  And unless an interrupt locks up
\* it is stopped for no other reason than a packet that is being returned.  The processors
\* of the two devices may interleave in any way between the critical sections.
THEOREM FlowControlled == Spec => []FlowControl
<1>1. Init => FlowInv
  BY FlowInit
<1>2. SnullInv /\ TypeInv /\ FlowInv /\ [Next]_vars => FlowInv'
  BY FlowStep
<1>3. FlowInv => FlowControl
  BY DEF FlowInv, FlowState, PoolInv, RunsOrDry, Explained, WillWake, Wakes, FlowControl
<1> QED
  BY <1>1, <1>2, <1>3, SnullInvariance, TypeInvariance, PTL DEF Spec

=============================================================================

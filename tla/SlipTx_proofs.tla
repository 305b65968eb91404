--------------------------- MODULE SlipTx_proofs ---------------------------
(***************************************************************************)
(* Theorems about SlipTx for every value of its constants.                 *)
(***************************************************************************)
EXTENDS SlipTx, SequenceTheorems, TLAPS

(***************************************************************************)
(* Facts about the operators the model is built from.                      *)
(***************************************************************************)

\* The driver takes no more than it is offered and no more than it has room for.
LEMMA LesserBounds ==
  ASSUME NEW a \in Nat, NEW b \in Nat
  PROVE  Lesser(a, b) \in Nat /\ Lesser(a, b) <= a /\ Lesser(a, b) <= b
BY DEF Lesser

\* An encoded packet that sl_encaps lets through fits the allocation made for the MTU,
\* in either encoding: slip_esc at worst doubles it and adds two bytes.
LEMMA EncodedFits ==
  ASSUME NEW p \in Packets, NEW m \in Nat, p.len <= m
  PROVE  Encoded(p) \in Nat /\ Encoded(p) <= BufLen(m) + Slack
<1>1. p.len \in Nat /\ p.out \in Nat /\ p.esc \in Nat /\ p.out <= p.len /\ p.esc <= p.out
  BY PacketAssumption
<1>2. EscLen(p) \in Nat /\ EscLen(p) <= 2 * m + 4
  BY <1>1 DEF EscLen
<1>3. Esc6Len(p) \in Nat /\ Esc6Len(p) <= 2 * m + 4
  BY <1>1 DEF Esc6Len
<1>4. 2 * m <= BufLen(m) /\ BufLen(m) \in Nat
  BY SizeAssumption DEF BufLen
<1> QED
  BY <1>2, <1>3, <1>4, SizeAssumption DEF Encoded

\* The encoding is a sequence of tokens of the announced length.
LEMMA FrameIsSeq ==
  ASSUME NEW k \in Nat, NEW n \in Nat
  PROVE  Frame(k, n) \in Seq(Token) /\ Len(Frame(k, n)) = n
BY DEF Frame, Token

\* A stretch of a sequence of tokens that lies inside it.
LEMMA SliceOfTokens ==
  ASSUME NEW s \in Seq(Token), NEW h \in Nat, NEW n \in Nat, h + n <= Len(s)
  PROVE  SubSeq(s, h + 1, h + n) \in Seq(Token) /\ Len(SubSeq(s, h + 1, h + n)) = n
<1>1. \A i \in h + 1 .. h + n : s[i] \in Token
  BY ElementOfSeq, LenProperties
<1>2. Len(s) \in Nat
  BY LenProperties
<1>3. /\ SubSeq(s, h + 1, h + n) \in Seq(Token)
      /\ Len(SubSeq(s, h + 1, h + n))
           = IF h + 1 <= h + n THEN (h + n) - (h + 1) + 1 ELSE 0
  BY <1>1, SubSeqProperties
<1> QED
  BY <1>3

\* A write moves a prefix of the bytes it is given to the line.
LEMMA WriteTypes ==
  ASSUME NEW bytes \in Seq(Token), TypeOK, TtyWrite(bytes)
  PROVE  /\ actual' \in Nat /\ actual' <= Len(bytes)
         /\ fifo' \in 0 .. Room
         /\ wire' \in Seq(Token)
         /\ irq' = irq /\ waker' = waker
<1>1. Len(bytes) \in Nat /\ Room - fifo \in Nat
  BY LenProperties, SizeAssumption DEF TypeOK
<1>2. /\ Lesser(Len(bytes), Room - fifo) \in Nat
      /\ Lesser(Len(bytes), Room - fifo) <= Len(bytes)
      /\ Lesser(Len(bytes), Room - fifo) <= Room - fifo
  BY <1>1, LesserBounds
<1>3. SubSeq(bytes, 1, Lesser(Len(bytes), Room - fifo)) \in Seq(Token)
  <2>1. SubSeq(bytes, 0 + 1, 0 + Lesser(Len(bytes), Room - fifo)) \in Seq(Token)
    BY <1>1, <1>2, SliceOfTokens
  <2> QED
    BY <2>1, <1>2
<1>4. wire \o SubSeq(bytes, 1, Lesser(Len(bytes), Room - fifo)) \in Seq(Token)
  BY <1>3, ConcatProperties DEF TypeOK
<1> QED
  BY <1>1, <1>2, <1>4, SizeAssumption DEF TtyWrite, TypeOK

(***************************************************************************)
(* The inductive invariant.                                                *)
(***************************************************************************)

\* Who holds sl->lock is where its program counter says it is.
LockInv ==
  /\ lock = "xmit" <=> xmit # "idle"
  /\ lock = "work" <=> work = "update"
  /\ lock = "oops" => link # "down"
  /\ link = "down" => xmit = "idle"

\* How far slip_close has come, and what can no longer happen.
CloseInv ==
  /\ tty <=> life = "open"
  /\ life \in {"flushed", "gone"} /\ ~late => ~pending /\ work = "idle"
  /\ waker = "sl" => late \/ life = "open"
  /\ Serialised => ~late
  /\ life = "gone" => link = "down"

\* Where the pointers of struct slip may point.
BufferInv ==
  /\ buffsize = BufLen(mtu)
  /\ Len(xbuff) <= buffsize + Slack
  /\ lock # "xmit" /\ life # "gone" => xhead + xleft <= Len(xbuff)
  /\ xmit = "done" => actual <= Len(xbuff)
  /\ work = "update" => actual <= xleft

Inv == TypeOK /\ LockInv /\ CloseInv /\ BufferInv

\* The first byte given up belongs to a frame.
LEMMA GiveUpType ==
  ASSUME TypeOK, xleft > 0 => xhead + 1 <= Len(xbuff), GiveUp
  PROVE  cut' \subseteq Nat
<1>1. CASE xleft > 0
  <2>1. xbuff[xhead + 1] \in Token
    BY <1>1, ElementOfSeq, LenProperties DEF TypeOK
  <2> QED
    BY <2>1, <1>1 DEF GiveUp, TypeOK, Token
<1>2. CASE ~(xleft > 0)
  BY <1>2 DEF GiveUp, TypeOK
<1> QED
  BY <1>1, <1>2

\* The invariant holds at the start, ...
LEMMA InitInv == Init => Inv
<1> SUFFICES ASSUME Init PROVE Inv
  OBVIOUS
<1>1. TypeOK
  <2>1. << >> \in Seq(Token)
    BY EmptySeq
  <2>2. BufLen(InitMtu) \in Nat
    BY SizeAssumption DEF BufLen
  <2>3. /\ tty \in BOOLEAN /\ stopped \in BOOLEAN /\ wakeup \in BOOLEAN
        /\ pending \in BOOLEAN /\ irq \in BOOLEAN
        /\ overtaken \in BOOLEAN /\ recount \in BOOLEAN /\ late \in BOOLEAN
    BY DEF Init
  <2> QED
    BY <2>1, <2>2, <2>3, SizeAssumption, BoundAssumption DEF Init, TypeOK
<1>2. LockInv /\ CloseInv
  BY DEF Init, LockInv, CloseInv
<1>3. BufferInv
  BY SizeAssumption DEF Init, BufferInv, BufLen
<1> QED
  BY <1>1, <1>2, <1>3 DEF Inv

\* sl_xmit keeps the invariant.
LEMMA XmitInv == ASSUME Inv, Xmit PROVE Inv'
<1> USE DEF Inv, admin, buffer, driver, stats, races, bounds
<1>1. CASE XmitFree
  BY <1>1, BoundAssumption DEF XmitFree, Offered, TypeOK, LockInv, CloseInv, BufferInv
<1>2. ASSUME NEW p \in Packets, XmitOversize(p) PROVE Inv'
  <2>1. TypeOK'
    <3>1. stopped' \in BOOLEAN
      BY <1>2 DEF XmitOversize
    <3> QED
      BY <3>1, <1>2, BoundAssumption DEF XmitOversize, Offered, TypeOK
  <2>2. LockInv'
    BY <1>2 DEF XmitOversize, Offered, TypeOK, LockInv
  <2>3. CloseInv'
    BY <1>2 DEF XmitOversize, Offered, TypeOK, CloseInv
  <2>4. BufferInv'
    BY <1>2, SizeAssumption DEF XmitOversize, Offered, TypeOK, LockInv, CloseInv, BufferInv
  <2> QED
    BY <2>1, <2>2, <2>3, <2>4
<1>3. ASSUME NEW p \in Packets, XmitEncode(p) PROVE Inv'
  <2>1. frames' \in Nat /\ Encoded(p) \in Nat /\ Encoded(p) <= BufLen(mtu) + Slack
    BY <1>3, EncodedFits, PacketAssumption DEF XmitEncode, Offered, TypeOK
  <2>2. xbuff' \in Seq(Token) /\ Len(xbuff') = Encoded(p)
    BY <1>3, <2>1, FrameIsSeq DEF XmitEncode
  <2>3. TypeOK'
    BY <1>3, <2>2, BoundAssumption DEF XmitEncode, Offered, TypeOK
  <2>4. LockInv' /\ CloseInv'
    BY <1>3 DEF XmitEncode, Offered, LockInv, CloseInv
  <2>5. BufferInv'
    BY <1>3, <2>1, <2>2 DEF XmitEncode, Offered, BufferInv, LockInv
  <2> QED
    BY <2>3, <2>4, <2>5
<1>4. CASE XmitWrite
  <2>1. actual' \in Nat /\ actual' <= Len(xbuff) /\ fifo' \in 0 .. Room
          /\ wire' \in Seq(Token) /\ irq' = irq /\ waker' = waker
    BY <1>4, WriteTypes DEF XmitWrite, TypeOK
  <2>2. TypeOK'
    BY <1>4, <2>1 DEF XmitWrite, TypeOK
  <2>3. LockInv'
    BY <1>4, <2>1 DEF XmitWrite, LockInv
  <2>4. CloseInv'
    BY <1>4, <2>1 DEF XmitWrite, TtyWrite, CloseInv
  <2>5. BufferInv'
    BY <1>4, <2>1 DEF XmitWrite, LockInv, BufferInv
  <2> QED
    BY <2>2, <2>3, <2>4, <2>5
<1>5. CASE XmitFinish
  <2>1. Len(xbuff) \in Nat
    BY LenProperties DEF TypeOK
  <2> QED
    BY <1>5, <2>1 DEF XmitFinish, TypeOK, LockInv, CloseInv, BufferInv
<1> QED
  BY <1>1, <1>2, <1>3, <1>4, <1>5 DEF Xmit

\* slip_transmit keeps the invariant.
LEMMA WorkInv == ASSUME Inv, Work PROVE Inv'
<1> USE DEF Inv, admin, buffer, driver, stats, races, bounds
<1>1. CASE WorkRun
  <2>1. TypeOK'
    <3>1. pending' \in BOOLEAN /\ stopped' \in BOOLEAN
      BY <1>1 DEF WorkRun, TypeOK
    <3> QED
      BY <1>1, <3>1 DEF WorkRun, TypeOK
  <2>2. LockInv'
    BY <1>1 DEF WorkRun, LockInv
  <2>3. CloseInv'
    BY <1>1 DEF WorkRun, CloseInv
  <2>4. BufferInv'
    BY <1>1 DEF WorkRun, BufferInv
  <2> QED
    BY <2>1, <2>2, <2>3, <2>4
<1>2. CASE WorkReturn
  BY <1>2 DEF WorkReturn, TypeOK, LockInv, CloseInv, BufferInv
<1>3. CASE WorkEmpty
  <2>1. TypeOK'
    <3>1. wakeup' \in BOOLEAN
      BY <1>3 DEF WorkEmpty
    <3> QED
      BY <3>1, <1>3, BoundAssumption DEF WorkEmpty, TypeOK
  <2>2. LockInv'
    BY <1>3 DEF WorkEmpty, TypeOK, LockInv
  <2>3. CloseInv'
    BY <1>3 DEF WorkEmpty, TypeOK, CloseInv
  <2>4. BufferInv'
    BY <1>3, SizeAssumption DEF WorkEmpty, TypeOK, LockInv, CloseInv, BufferInv
  <2> QED
    BY <2>1, <2>2, <2>3, <2>4
<1>4. CASE WorkWake
  <2>1. TypeOK'
    <3>1. pending' \in BOOLEAN /\ stopped' \in BOOLEAN
      BY <1>4 DEF WorkWake, TypeOK
    <3> QED
      BY <1>4, <3>1 DEF WorkWake, TypeOK
  <2>2. LockInv'
    BY <1>4 DEF WorkWake, LockInv
  <2>3. CloseInv'
    BY <1>4 DEF WorkWake, CloseInv
  <2>4. BufferInv'
    BY <1>4 DEF WorkWake, BufferInv
  <2> QED
    BY <2>1, <2>2, <2>3, <2>4
<1>5. CASE WorkWrite
  <2>1. Unsent \in Seq(Token) /\ Len(Unsent) = xleft
    BY <1>5, SliceOfTokens DEF WorkWrite, TypeOK, BufferInv, CloseInv, Unsent
  <2>2. actual' \in Nat /\ actual' <= xleft /\ fifo' \in 0 .. Room
          /\ wire' \in Seq(Token) /\ irq' = irq /\ waker' = waker
    BY <1>5, <2>1, WriteTypes DEF WorkWrite
  <2>3. TypeOK'
    BY <1>5, <2>2 DEF WorkWrite, TypeOK
  <2>4. LockInv'
    BY <1>5, <2>2 DEF WorkWrite, LockInv
  <2>5. CloseInv'
    BY <1>5, <2>2 DEF WorkWrite, TtyWrite, CloseInv
  <2>6. BufferInv'
    BY <1>5, <2>2 DEF WorkWrite, LockInv, BufferInv
  <2> QED
    BY <2>3, <2>4, <2>5, <2>6
<1>6. CASE WorkUpdate
  BY <1>6 DEF WorkUpdate, TypeOK, LockInv, CloseInv, BufferInv
<1> QED
  BY <1>1, <1>2, <1>3, <1>4, <1>5, <1>6 DEF Work

\* The tty driver and the watchdog keep the invariant.
LEMMA EnvironmentInv ==
  ASSUME Inv, Drain \/ Wakeup \/ Timeout \/ TimeoutOops PROVE Inv'
<1> USE DEF Inv, admin, buffer, driver, stats, races, bounds
<1>1. ASSUME NEW k \in 1 .. Room, TtyDrain(k) PROVE Inv'
  BY <1>1, SizeAssumption DEF TtyDrain, TypeOK, LockInv, CloseInv, BufferInv
<1>2. CASE TtyWakeup
  <2>1. TypeOK'
    <3>1. irq' \in BOOLEAN /\ pending' \in BOOLEAN
      BY <1>2 DEF TtyWakeup, TypeOK
    <3> QED
      BY <1>2, <3>1 DEF TtyWakeup, TypeOK
  <2>2. LockInv' /\ BufferInv'
    BY <1>2 DEF TtyWakeup, LockInv, BufferInv
  <2>3. CloseInv'
    BY <1>2 DEF TtyWakeup, CloseInv
  <2> QED
    BY <2>1, <2>2, <2>3
<1>5. CASE ScheduleWork
  <2>1. TypeOK'
    <3>1. irq' \in BOOLEAN /\ pending' \in BOOLEAN
      BY <1>5 DEF ScheduleWork, TypeOK
    <3> QED
      BY <1>5, <3>1 DEF ScheduleWork, TypeOK
  <2>2. LockInv' /\ BufferInv'
    BY <1>5 DEF ScheduleWork, LockInv, BufferInv
  <2>3. CloseInv'
    BY <1>5 DEF ScheduleWork, CloseInv
  <2> QED
    BY <2>1, <2>2, <2>3
<1>3. CASE Timeout
  <2>1. Len(xbuff) \in Nat
    BY LenProperties DEF TypeOK
  <2>2. xleft > 0 => xhead + 1 <= Len(xbuff)
    BY <1>3, <2>1 DEF Timeout, WatchdogFires, TypeOK, CloseInv, BufferInv
  <2>3. cut' \subseteq Nat
    BY <1>3, <2>2, GiveUpType DEF Timeout
  <2>4. TypeOK'
    <3>1. wakeup' \in BOOLEAN /\ stopped' \in BOOLEAN
      BY <1>3 DEF Timeout
    <3> QED
      BY <3>1, <1>3, <2>1, <2>3, BoundAssumption DEF Timeout, WatchdogFires, TypeOK
  <2>5. LockInv'
    BY <1>3, <2>1, <2>3 DEF Timeout, WatchdogFires, TypeOK, LockInv
  <2>6. CloseInv'
    BY <1>3, <2>1, <2>3 DEF Timeout, WatchdogFires, TypeOK, CloseInv
  <2>7. BufferInv'
    BY <1>3, <2>1, <2>3, SizeAssumption DEF Timeout, WatchdogFires, TypeOK, LockInv, CloseInv, BufferInv
  <2> QED
    BY <2>4, <2>5, <2>6, <2>7
<1>4. CASE TimeoutOops
  BY <1>4, BoundAssumption
  DEF TimeoutOops, WatchdogFires, TypeOK, LockInv, CloseInv, BufferInv
<1> QED
  BY <1>1, <1>2, <1>3, <1>4, <1>5 DEF Drain, Wakeup

\* Opening, closing and resizing the device keep the invariant.
LEMMA AdminInv == ASSUME Inv, Admin PROVE Inv'
<1> USE DEF Inv, admin, buffer, driver, stats, races, bounds
<1>0. Len(xbuff) \in Nat
  BY LenProperties DEF TypeOK
<1>1. CASE DevClose
  BY <1>1 DEF DevClose, TypeOK, LockInv, CloseInv, BufferInv
<1>2. CASE SlClose
  <2>1. xleft > 0 => xhead + 1 <= Len(xbuff)
    BY <1>2, <1>0 DEF SlClose, TypeOK, CloseInv, BufferInv
  <2>2. cut' \subseteq Nat
    BY <1>2, <2>1, GiveUpType DEF SlClose
  <2>3. TypeOK'
    <3>1. wakeup' \in BOOLEAN /\ stopped' \in BOOLEAN
      BY <1>2 DEF SlClose, TypeOK
    <3>2. /\ UNCHANGED <<tty, life, lock, xmit, work, pending, actual, mtu, buffsize, xbuff>>
          /\ UNCHANGED <<xhead, frames, txPackets, txDropped>>
          /\ UNCHANGED <<driver, races, bounds>> /\ xleft' = 0 /\ link' = "down"
      BY <1>2 DEF SlClose
    <3> QED
      BY <2>2, <3>1, <3>2 DEF TypeOK
  <2>4. LockInv'
    BY <1>0, <1>2, <2>2 DEF SlClose, TypeOK, LockInv
  <2>5. CloseInv'
    BY <1>0, <1>2, <2>2 DEF SlClose, TypeOK, CloseInv
  <2>6. BufferInv'
    BY <1>0, <1>2, <2>2, SizeAssumption DEF SlClose, TypeOK, LockInv, CloseInv, BufferInv
  <2> QED
    BY <2>3, <2>4, <2>5, <2>6
<1>3. CASE SlOpen
  <2>1. TypeOK'
    <3>1. stopped' \in BOOLEAN
      BY <1>3 DEF SlOpen, TypeOK
    <3> QED
      BY <3>1, <1>3, BoundAssumption DEF SlOpen, TypeOK
  <2>2. LockInv'
    BY <1>3 DEF SlOpen, TypeOK, LockInv
  <2>3. CloseInv'
    BY <1>3 DEF SlOpen, TypeOK, CloseInv
  <2>4. BufferInv'
    BY <1>3, SizeAssumption DEF SlOpen, TypeOK, LockInv, CloseInv, BufferInv
  <2> QED
    BY <2>1, <2>2, <2>3, <2>4
<1>4. ASSUME NEW m \in Mtus, ChangeMtu(m) PROVE Inv'
  <2>1. BufLen(m) \in Nat /\ m \in Nat /\ Slack = 4
    BY SizeAssumption DEF BufLen
  <2>2. Unsent \in Seq(Token) /\ Len(Unsent) = xleft
    BY <1>4, SliceOfTokens DEF ChangeMtu, TypeOK, BufferInv, CloseInv, Unsent
  <2>3. CASE xleft <= BufLen(m)
    <3>1. TypeOK'
      <4>1. /\ xbuff' \in Seq(Token) /\ xleft' \in Nat /\ cut' \subseteq Nat
            /\ mtu' \in Nat /\ buffsize' \in Nat /\ xhead' \in Nat
            /\ txDropped' \in Nat /\ mtuChanges' \in 0 .. MaxMtuChanges
        <5>1. xbuff' = Unsent /\ xleft' = xleft /\ cut' = cut /\ txDropped' = txDropped
          BY <1>4, <2>3 DEF ChangeMtu
        <5>2. mtu' = m /\ buffsize' = BufLen(m) /\ xhead' = 0
              /\ mtuChanges' = mtuChanges + 1 /\ mtuChanges < MaxMtuChanges
          BY <1>4 DEF ChangeMtu
        <5> QED
          BY <2>1, <2>2, <5>1, <5>2, BoundAssumption DEF TypeOK
      <4> QED
        BY <1>4, <4>1 DEF ChangeMtu, TypeOK
    <3>2. LockInv'
      BY <1>4, <2>1, <2>2, <2>3 DEF ChangeMtu, TypeOK, LockInv
    <3>3. CloseInv'
      BY <1>4, <2>1, <2>2, <2>3 DEF ChangeMtu, TypeOK, CloseInv
    <3>4. BufferInv'
      <4>1. /\ xbuff' = Unsent /\ xleft' = xleft /\ xhead' = 0
            /\ mtu' = m /\ buffsize' = BufLen(m)
        BY <1>4, <2>3 DEF ChangeMtu
      <4>2. xmit' = "idle" /\ work' # "update" /\ xleft \in Nat
        BY <1>4 DEF ChangeMtu, LockInv, TypeOK
      <4>3. buffsize' = BufLen(mtu')
        BY <4>1
      <4>4. Len(xbuff') = xleft /\ xleft <= BufLen(m) + Slack /\ 0 + xleft <= xleft
        BY <2>1, <2>2, <2>3, <4>1, <4>2
      <4> QED
        BY <4>1, <4>2, <4>3, <4>4 DEF BufferInv
    <3> QED
      BY <3>1, <3>2, <3>3, <3>4
  <2>4. CASE ~(xleft <= BufLen(m))
    <3>1. xleft > 0 => xhead + 1 <= Len(xbuff)
      BY <1>4, <1>0 DEF ChangeMtu, TypeOK, CloseInv, BufferInv
    <3>2. cut' \subseteq Nat
      BY <1>4, <2>4, <3>1, GiveUpType DEF ChangeMtu
    <3>3. xbuff' = << >> /\ xbuff' \in Seq(Token) /\ Len(xbuff') = 0
      BY <1>4, <2>4, EmptySeq DEF ChangeMtu
    <3>4. TypeOK'
      BY <1>4, <2>1, <2>4, <3>2, <3>3, BoundAssumption DEF ChangeMtu, TypeOK
    <3>5. LockInv'
      BY <1>4, <2>1, <2>4, <3>2, <3>3 DEF ChangeMtu, TypeOK, LockInv
    <3>6. CloseInv'
      BY <1>4, <2>1, <2>4, <3>2, <3>3 DEF ChangeMtu, TypeOK, CloseInv
    <3>7. BufferInv'
      BY <1>4, <2>1, <2>4, <3>2, <3>3, SizeAssumption DEF ChangeMtu, TypeOK, LockInv, CloseInv, BufferInv
    <3> QED
      BY <3>4, <3>5, <3>6, <3>7
  <2> QED
    BY <2>3, <2>4
<1> QED
  BY <1>1, <1>2, <1>3, <1>4 DEF Admin

\* The steps of slip_close keep the invariant.
LEMMA HangupInv == ASSUME Inv, Hangup PROVE Inv'
<1> USE DEF Inv, admin, buffer, driver, stats, races, bounds
<1>1. CASE Detach
  <2>1. TypeOK'
    <3>1. tty' \in BOOLEAN
      BY <1>1 DEF Detach
    <3> QED
      BY <3>1, <1>1, BoundAssumption DEF Detach, TypeOK
  <2>2. LockInv'
    BY <1>1 DEF Detach, TypeOK, LockInv
  <2>3. CloseInv'
    BY <1>1 DEF Detach, TypeOK, CloseInv
  <2>4. BufferInv'
    BY <1>1, SizeAssumption DEF Detach, TypeOK, LockInv, CloseInv, BufferInv
  <2> QED
    BY <2>1, <2>2, <2>3, <2>4
<1>2. CASE FlushWork
  BY <1>2 DEF FlushWork, TypeOK, LockInv, CloseInv, BufferInv
<1>3. CASE Unregister
  <2>1. xbuff' \in Seq(Token) /\ Len(xbuff') = 0
    BY <1>3, EmptySeq DEF Unregister
  <2>2. BufLen(mtu) + Slack >= 0
    BY SizeAssumption DEF BufLen, TypeOK
  <2> QED
    BY <1>3, <2>1, <2>2 DEF Unregister, TypeOK, LockInv, CloseInv, BufferInv
<1> QED
  BY <1>1, <1>2, <1>3 DEF Hangup

\* ... and every step keeps it.
LEMMA NextInv == Inv /\ [Next]_vars => Inv'
<1> SUFFICES ASSUME Inv, [Next]_vars PROVE Inv'
  OBVIOUS
<1>1. CASE Next /\ ~Rest
  BY <1>1, XmitInv, WorkInv, EnvironmentInv, AdminInv, HangupInv DEF Next
<1>2. CASE Rest \/ UNCHANGED vars
  <2> USE <1>2 DEF Rest, vars, admin, buffer, driver, stats, races, bounds
  <2>1. TypeOK'
    BY <1>2 DEF Inv, TypeOK
  <2>2. LockInv'
    BY <1>2 DEF Inv, TypeOK, LockInv
  <2>3. CloseInv'
    BY <1>2 DEF Inv, TypeOK, CloseInv
  <2>4. BufferInv'
    BY <1>2 DEF Inv, BufferInv, BufLen
  <2> QED
    BY <2>1, <2>2, <2>3, <2>4 DEF Inv
<1> QED
  BY <1>1, <1>2

\* The inductive invariant: the lock, the buffer and the count agree at every point of a write.
THEOREM Invariance == Spec => []Inv
BY InitInv, NextInv, PTL DEF Spec

\* Every variable keeps its type: in particular the unsent count and the free room of
\* the driver never go negative.
THEOREM TypeCorrect == Spec => []TypeOK
BY Invariance, PTL DEF Inv

\* Whatever the packets, MTUs, encodings, wakeups, timeouts and hangups, the encoded
\* frame fits the allocation and the transmitter never reads behind its end.
THEOREM XbuffSafe == Spec => []XbuffFits
<1>1. Inv => XbuffFits
  BY DEF Inv, BufferInv, XbuffFits
<1> QED
  BY Invariance, <1>1, PTL

\* The timers and ioctls of SlipSmart, which hold the lock as "smart", are not part of SlipTx.
NotSmart == lock # "smart"

\* No step of the transmit half takes the lock for them.
LEMMA NotSmartStep == ASSUME NotSmart, [Next]_vars PROVE NotSmart'
<1> USE DEF NotSmart, admin, buffer, driver, stats, races, bounds
<1>1. CASE Xmit
  BY <1>1 DEF Xmit, XmitFree, XmitOversize, XmitEncode, XmitWrite, XmitFinish
<1>2. CASE Work
  BY <1>2 DEF Work, WorkRun, WorkReturn, WorkEmpty, WorkWake, WorkWrite, WorkUpdate
<1>3. CASE Drain \/ Wakeup \/ Timeout \/ TimeoutOops
  BY <1>3 DEF Drain, TtyDrain, Wakeup, TtyWakeup, ScheduleWork, Timeout, TimeoutOops
<1>4. CASE Admin
  BY <1>4 DEF Admin, DevClose, SlClose, SlOpen, ChangeMtu
<1>5. CASE Hangup
  BY <1>5 DEF Hangup, Detach, FlushWork, Unregister
<1>6. CASE Rest \/ UNCHANGED vars
  BY <1>6 DEF Rest, vars
<1> QED
  BY <1>1, <1>2, <1>3, <1>4, <1>5, <1>6 DEF Next

\* Once the buffers are freed no work item is queued or running, nobody holds the lock and
\* no wakeup is on its way to queue the work item, for every schedule in which no wakeup
\* held struct slip when slip_close began: flush_work after the detach is then enough.
THEOREM FreeSafe == Spec => []OnlyLateWork
<1>1. Init => NotSmart
  BY DEF Init, NotSmart
<1>2. NotSmart /\ [Next]_vars => NotSmart'
  BY NotSmartStep
<1>3. Inv /\ NotSmart => OnlyLateWork
  BY DEF Inv, TypeOK, LockInv, CloseInv, NotSmart, NoWorkAfterFree, OnlyLateWork
<1> QED
  BY Invariance, <1>1, <1>2, <1>3, PTL DEF Spec

\* What the comment of slip_close asks of the tty layer is enough: if slip_close is
\* serialised against slip_write_wakeup, nothing is left of the work after the free.
THEOREM SerialisedFreeSafe ==
  ASSUME Serialised
  PROVE  Spec => []NoWorkAfterFree
<1>1. Inv /\ OnlyLateWork => NoWorkAfterFree
  BY DEF Inv, CloseInv, OnlyLateWork
<1> QED
  BY Invariance, FreeSafe, <1>1, PTL

-----------------------------------------------------------------------------
(***************************************************************************)
(* What the transmit half of a channel puts on the line, for every value   *)
(* of its constants.  Every step of SlipTx is first shown to be a step of  *)
(* FrameLine or a stutter, except that a new frame may overwrite the rest  *)
(* of the last; the order of the bytes follows from the line alone, and    *)
(* the wholeness of the frames from when such an overwriting can happen.   *)
(***************************************************************************)

(***************************************************************************)
(* Stretches of a sequence of tokens.                                      *)
(***************************************************************************)

\* Dropping the first bytes of a stretch leaves a shorter stretch with the same end.
LEMMA SliceOfSlice ==
  ASSUME NEW s \in Seq(Token), NEW a \in Nat, NEW b \in Nat, a <= b, b <= Len(s),
         NEW k \in Nat, k <= b - a
  PROVE  SubSeq(SubSeq(s, a + 1, b), k + 1, b - a) = SubSeq(s, a + k + 1, b)
<1>1. Len(s) \in Nat
  BY LenProperties
<1>2. \A i \in a + 1 .. b : s[i] \in Token
  BY <1>1, ElementOfSeq
<1> DEFINE t == SubSeq(s, a + 1, b)
<1>3. /\ t \in Seq(Token) /\ Len(t) = b - a
      /\ \A i \in 1 .. b - a : t[i] = s[a + i]
  <2>1. /\ t \in Seq(Token)
        /\ Len(t) = IF a + 1 <= b THEN b - (a + 1) + 1 ELSE 0
        /\ \A i \in 1 .. b - (a + 1) + 1 : t[i] = s[a + 1 + i - 1]
    BY <1>1, <1>2, SubSeqProperties
  <2> QED
    BY <2>1
<1> HIDE DEF t
<1>4. \A i \in k + 1 .. b - a : t[i] \in Token
  BY <1>2, <1>3
<1>5. /\ SubSeq(t, k + 1, b - a) \in Seq(Token)
      /\ Len(SubSeq(t, k + 1, b - a)) = IF k + 1 <= b - a THEN b - a - (k + 1) + 1 ELSE 0
      /\ \A i \in 1 .. b - a - (k + 1) + 1 : SubSeq(t, k + 1, b - a)[i] = t[k + 1 + i - 1]
  <2>1. k + 1 \in Int /\ b - a \in Int
    OBVIOUS
  <2> QED
    BY <1>4, <2>1, SubSeqProperties, SMT
<1>6. /\ SubSeq(s, a + k + 1, b) \in Seq(Token)
      /\ Len(SubSeq(s, a + k + 1, b))
           = IF a + k + 1 <= b THEN b - (a + k + 1) + 1 ELSE 0
      /\ \A i \in 1 .. b - (a + k + 1) + 1 :
           SubSeq(s, a + k + 1, b)[i] = s[a + k + 1 + i - 1]
  BY <1>2, SubSeqProperties
<1>7. Len(SubSeq(t, k + 1, b - a)) = Len(SubSeq(s, a + k + 1, b))
  BY <1>5, <1>6
<1>8. \A i \in 1 .. Len(SubSeq(t, k + 1, b - a)) :
        SubSeq(t, k + 1, b - a)[i] = SubSeq(s, a + k + 1, b)[i]
  BY <1>3, <1>5, <1>6
<1>9. SubSeq(t, k + 1, b - a) = SubSeq(s, a + k + 1, b)
  BY <1>5, <1>6, <1>7, <1>8, SeqEqual
<1> QED
  BY <1>9 DEF t

\* The whole of a sequence, and none of it.
LEMMA SliceEnds ==
  ASSUME NEW s \in Seq(Token)
  PROVE  /\ SubSeq(s, 1, Len(s)) = s
         /\ SubSeq(s, 1, 0) = << >>
         /\ s \o << >> = s
BY SubSeqFull, SubSeqEmpty, ConcatEmptySeq

(***************************************************************************)
(* The steps of the line.                                                  *)
(***************************************************************************)

\* A device that is down has nothing to send and nobody writes for it.
DownInv == link = "down" => xleft = 0 /\ lock \in {"free", "smart"}

LineInv == Inv /\ DownInv

\* It is so at the start, ...
LEMMA DownInit == Init => DownInv
BY DEF Init, DownInv

\* ... and every step keeps it so.
LEMMA DownStep == ASSUME LineInv, [Next]_vars PROVE DownInv'
<1> USE DEF LineInv, DownInv, admin, buffer, driver, stats, races, bounds
<1>1. CASE Xmit
  BY <1>1 DEF Xmit, XmitFree, XmitOversize, XmitEncode, XmitWrite, XmitFinish, Offered,
              Inv, LockInv
<1>2. CASE Work
  BY <1>2 DEF Work, WorkRun, WorkReturn, WorkEmpty, WorkWake, WorkWrite, WorkUpdate,
              Inv, LockInv
<1>3. CASE Drain \/ Wakeup \/ Timeout \/ TimeoutOops
  BY <1>3 DEF Drain, TtyDrain, Wakeup, TtyWakeup, ScheduleWork, Timeout, TimeoutOops, WatchdogFires
<1>4. CASE Admin
  <2>1. CASE DevClose \/ SlClose \/ SlOpen
    BY <1>4, <2>1 DEF DevClose, SlClose, SlOpen, Inv, TypeOK
  <2>2. ASSUME NEW m \in Mtus, ChangeMtu(m) PROVE DownInv'
    BY <2>2 DEF ChangeMtu
  <2> QED
    BY <1>4, <2>1, <2>2 DEF Admin
<1>5. CASE Hangup
  BY <1>5 DEF Hangup, Detach, FlushWork, Unregister
<1>6. CASE Rest \/ UNCHANGED vars
  BY <1>6 DEF Rest, vars
<1> QED
  BY <1>1, <1>2, <1>3, <1>4, <1>5, <1>6 DEF Next

\* The transmitter's bytes are in the buffer: what is to be sent is a stretch of xbuff.
LEMMA ToSendType ==
  ASSUME LineInv
  PROVE  ToSend \in Seq(Token) /\ Len(ToSend) \in Nat
<1> USE DEF LineInv, Inv
<1>1. Len(xbuff) \in Nat
  BY LenProperties DEF TypeOK
<1>2. ToSend \in Seq(Token)
  <2>1. CASE xmit = "write"
    BY <2>1 DEF ToSend, TypeOK
  <2>2. CASE xmit = "done"
    <3>1. actual \in Nat /\ actual <= Len(xbuff)
      BY <2>2 DEF TypeOK, BufferInv
    <3>2. SubSeq(xbuff, actual + 1, actual + (Len(xbuff) - actual)) \in Seq(Token)
      BY <1>1, <3>1, SliceOfTokens DEF TypeOK
    <3> QED
      BY <1>1, <2>2, <3>1, <3>2 DEF ToSend
  <2>3. CASE xmit = "idle" /\ xleft = 0
    <3>1. work = "update" => actual = 0
      BY <2>3 DEF BufferInv, TypeOK
    <3>2. Unsent = << >>
      BY <2>3, SubSeqEmpty DEF Unsent, TypeOK
    <3>3. ToSend = << >>
      BY <2>3, <3>1, <3>2 DEF ToSend, Unsent, TypeOK
    <3> QED
      BY <3>3, EmptySeq
  <2>4. CASE xmit = "idle" /\ xleft # 0
    <3>1. xhead + xleft <= Len(xbuff)
      BY <2>4 DEF LockInv, CloseInv, BufferInv, DownInv
    <3>2. Unsent \in Seq(Token)
      BY <3>1, SliceOfTokens DEF Unsent, TypeOK
    <3>3. CASE work = "update"
      <4>1. actual \in Nat /\ actual <= xleft
        BY <3>3 DEF BufferInv, TypeOK
      <4>2. SubSeq(xbuff, (xhead + actual) + 1, (xhead + actual) + (xleft - actual))
              \in Seq(Token)
        BY <1>1, <3>1, <4>1, SliceOfTokens DEF TypeOK
      <4> QED
        BY <2>4, <3>3, <4>1, <4>2 DEF ToSend, TypeOK
    <3> QED
      BY <2>4, <3>2, <3>3 DEF ToSend
  <2> QED
    BY <2>1, <2>2, <2>3, <2>4 DEF TypeOK
<1> QED
  BY <1>2, LenProperties

\* The queue is awake and a frame is started, although bytes of the last may be left.
Overwrite(n) ==
  /\ Offered
  /\ ToSend' = Frame(frames', n)
  /\ UNCHANGED <<wire, cut>>

LineStep ==
  \/ UNCHANGED Promise!vars
  \/ Promise!Refuse
  \/ \E p \in Packets : Overwrite(Encoded(p))
  \/ Promise!Advance

\* A write takes a prefix of what is to be sent to the line.
LEMMA WriteSends ==
  ASSUME LineInv, TtyWrite(ToSend), UNCHANGED <<frames, cut>>,
         ToSend' = SubSeq(ToSend, actual' + 1, Len(ToSend))
  PROVE  LineStep
<1>1. ToSend \in Seq(Token) /\ Len(ToSend) \in Nat /\ wire \in Seq(Token)
  BY ToSendType DEF LineInv, Inv, TypeOK
<1>2. actual' \in Nat /\ actual' <= Len(ToSend)
  BY <1>1, WriteTypes DEF LineInv, Inv
<1>3. wire' = wire \o SubSeq(ToSend, 1, actual')
  BY DEF TtyWrite
<1>4. CASE actual' = 0
  <2>1. wire' = wire /\ ToSend' = ToSend
    BY <1>1, <1>3, <1>4, SliceEnds
  <2> QED
    BY <2>1 DEF LineStep, Promise!vars
<1>5. CASE actual' # 0
  <2>1. PICK k \in 1 .. Len(ToSend) : k = actual'
    BY <1>1, <1>2, <1>5
  <2>2. Promise!Send(k)
    BY <1>1, <1>2, <1>3, <2>1 DEF Promise!Send
  <2> QED
    BY <2>2 DEF LineStep, Promise!Advance
<1> QED
  BY <1>4, <1>5

\* The unsent bytes are given up, and the frame they belong to is remembered.
LEMMA GiveUpGivesUp ==
  ASSUME LineInv, lock = "free", life # "gone", GiveUp, ToSend' = << >>,
         UNCHANGED <<wire, frames>>
  PROVE  LineStep
<1> USE DEF LineInv, Inv
<1>0. Len(xbuff) \in Nat /\ ToSend = Unsent
  BY LenProperties DEF TypeOK, LockInv, ToSend
<1>1. CASE xleft > 0
  <2>1. /\ \A i \in xhead + 1 .. xhead + xleft : xbuff[i] \in Token
        /\ xhead \in Nat /\ xleft \in Nat
    BY <1>0, ElementOfSeq DEF TypeOK, BufferInv
  <2>2. /\ Len(Unsent) = IF xhead + 1 <= xhead + xleft
                           THEN (xhead + xleft) - (xhead + 1) + 1 ELSE 0
        /\ \A i \in 1 .. (xhead + xleft) - (xhead + 1) + 1 :
             Unsent[i] = xbuff[xhead + 1 + i - 1]
    BY <2>1, SubSeqProperties DEF Unsent
  <2>3. Len(Unsent) = xleft /\ Unsent[1] = xbuff[xhead + 1]
    <3>1. 1 \in 1 .. (xhead + xleft) - (xhead + 1) + 1 /\ xhead + 1 + 1 - 1 = xhead + 1
      BY <1>1, <2>1
    <3>2. Unsent[1] = xbuff[xhead + 1]
      BY <2>2, <3>1
    <3>3. Len(Unsent) = xleft
      BY <1>1, <2>1, <2>2
    <3> QED
      BY <3>2, <3>3
  <2>4. ToSend # << >> /\ cut' = cut \cup {ToSend[1].frame}
    BY <1>0, <1>1, <2>3, EmptySeq DEF GiveUp
  <2> QED
    BY <2>4 DEF LineStep, Promise!Advance, Promise!GiveUp
<1>2. CASE ~(xleft > 0)
  <2>1. ToSend = << >> /\ cut' = cut
    BY <1>0, <1>2, SubSeqEmpty DEF GiveUp, Unsent, TypeOK
  <2> QED
    BY <2>1 DEF LineStep, Promise!vars
<1> QED
  BY <1>1, <1>2

\* sl_xmit starts a frame and sends of it what the driver takes.
LEMMA XmitLine == ASSUME LineInv, Xmit PROVE LineStep
<1> USE DEF LineInv, Inv, buffer, driver, stats, Promise!vars
<1>1. CASE XmitFree \/ (\E p \in Packets : XmitOversize(p))
  <2>1. UNCHANGED <<wire, cut, ToSend>> /\ frames' = frames + 1
    BY <1>1 DEF XmitFree, XmitOversize, Offered, ToSend, Unsent
  <2> QED
    BY <2>1 DEF LineStep, Promise!Refuse
<1>2. ASSUME NEW p \in Packets, XmitEncode(p) PROVE LineStep
  BY <1>2 DEF XmitEncode, LineStep, Overwrite, ToSend
<1>3. CASE XmitWrite
  <2>1. /\ ToSend = xbuff /\ TtyWrite(ToSend) /\ UNCHANGED <<frames, cut>>
        /\ ToSend' = SubSeq(ToSend, actual' + 1, Len(ToSend))
    BY <1>3 DEF XmitWrite, ToSend
  <2> QED
    BY <2>1, WriteSends
<1>4. CASE XmitFinish
  <2>1. Len(xbuff) \in Nat
    BY LenProperties DEF TypeOK
  <2>2. ToSend = SubSeq(xbuff, actual + 1, Len(xbuff))
    BY <1>4 DEF XmitFinish, ToSend
  <2>3. ToSend' = SubSeq(xbuff, actual + 1, actual + (Len(xbuff) - actual))
    BY <1>4 DEF XmitFinish, ToSend, Unsent, LockInv
  <2>4. ToSend' = ToSend
    BY <2>1, <2>2, <2>3 DEF TypeOK
  <2> QED
    BY <1>4, <2>4 DEF XmitFinish, LineStep
<1> QED
  BY <1>1, <1>2, <1>3, <1>4 DEF Xmit

\* slip_transmit sends on from where the last write ended.
LEMMA WorkLine == ASSUME LineInv, Work PROVE LineStep
<1> USE DEF LineInv, Inv, buffer, driver, stats, Promise!vars
<1>1. CASE WorkRun \/ WorkReturn \/ WorkEmpty \/ WorkWake
  BY <1>1 DEF WorkRun, WorkReturn, WorkEmpty, WorkWake, LineStep, ToSend, Unsent
<1>2. CASE WorkWrite
  <2>1. xmit = "idle" /\ xmit' = "idle" /\ ToSend = Unsent
    BY <1>2 DEF WorkWrite, LockInv, ToSend
  <2>2. TtyWrite(ToSend) /\ UNCHANGED <<frames, cut>>
    BY <1>2, <2>1 DEF WorkWrite
  <2>3. ToSend' = SubSeq(xbuff, xhead + actual' + 1, xhead + xleft)
    BY <1>2, <2>1 DEF WorkWrite, ToSend
  <2>4. /\ xhead + xleft <= Len(xbuff) /\ Len(xbuff) \in Nat
        /\ xhead \in Nat /\ xleft \in Nat
    BY <1>2, LenProperties DEF WorkWrite, TypeOK, CloseInv, BufferInv
  <2>5. Unsent \in Seq(Token) /\ Len(Unsent) = xleft
    BY <2>4, SliceOfTokens DEF Unsent, TypeOK
  <2>6. actual' \in Nat /\ actual' <= xleft
    BY <2>1, <2>2, <2>5, WriteTypes
  <2>7. PICK k : k = actual'
    OBVIOUS
  <2>8. SubSeq(Unsent, k + 1, xleft) = SubSeq(xbuff, xhead + k + 1, xhead + xleft)
    <3>1. PICK b \in Nat : b = xhead + xleft
      BY <2>4
    <3>2. /\ xbuff \in Seq(Token) /\ xhead <= b /\ b <= Len(xbuff)
          /\ k \in Nat /\ k <= b - xhead /\ b - xhead = xleft
      BY <2>4, <2>6, <2>7, <3>1 DEF TypeOK
    <3>3. SubSeq(SubSeq(xbuff, xhead + 1, b), k + 1, b - xhead)
            = SubSeq(xbuff, xhead + k + 1, b)
      BY <2>4, <3>2, SliceOfSlice
    <3> QED
      BY <3>1, <3>2, <3>3 DEF Unsent
  <2>9. ToSend' = SubSeq(ToSend, actual' + 1, Len(ToSend))
    BY <2>1, <2>3, <2>5, <2>7, <2>8
  <2> QED
    BY <2>2, <2>9, WriteSends
<1>3. CASE WorkUpdate
  <2>1. xmit = "idle"
    BY <1>3 DEF WorkUpdate, LockInv
  <2>2. ToSend = SubSeq(xbuff, xhead + actual + 1, xhead + xleft)
    BY <1>3, <2>1 DEF WorkUpdate, ToSend
  <2>3. ToSend' = SubSeq(xbuff, (xhead + actual) + 1, (xhead + actual) + (xleft - actual))
    BY <1>3, <2>1 DEF WorkUpdate, ToSend, Unsent
  <2>4. ToSend' = ToSend
    BY <2>2, <2>3 DEF TypeOK
  <2> QED
    BY <1>3, <2>4 DEF WorkUpdate, LineStep
<1> QED
  BY <1>1, <1>2, <1>3 DEF Work

\* The driver, the watchdog, the administrator and slip_close move no bytes of a frame;
\* at most they give up what is left of it.
LEMMA OthersLine ==
  ASSUME LineInv, Drain \/ Wakeup \/ Timeout \/ TimeoutOops \/ Admin \/ Hangup
  PROVE  LineStep
<1> USE DEF LineInv, Inv, admin, buffer, driver, stats, Promise!vars
<1>1. CASE Drain \/ Wakeup
  BY <1>1 DEF Drain, TtyDrain, Wakeup, TtyWakeup, ScheduleWork, LineStep, ToSend, Unsent
<1>2. CASE Timeout
  <2>1. lock = "free" /\ life # "gone" /\ GiveUp /\ UNCHANGED <<wire, frames>>
    BY <1>2 DEF Timeout, WatchdogFires, CloseInv
  <2>2. ToSend' = << >>
    BY <1>2, SubSeqEmpty DEF Timeout, WatchdogFires, ToSend, Unsent, LockInv, TypeOK
  <2> QED
    BY <2>1, <2>2, GiveUpGivesUp
<1>3. CASE TimeoutOops
  BY <1>3 DEF TimeoutOops, LineStep, ToSend, Unsent
<1>4. CASE DevClose \/ SlOpen
  BY <1>4 DEF DevClose, SlOpen, LineStep, ToSend, Unsent
<1>5. CASE SlClose
  <2>1. lock = "free" /\ life # "gone" /\ GiveUp /\ UNCHANGED <<wire, frames>>
    BY <1>5 DEF SlClose, CloseInv
  <2>2. ToSend' = << >>
    BY <1>5, SubSeqEmpty DEF SlClose, ToSend, Unsent, LockInv, TypeOK
  <2> QED
    BY <2>1, <2>2, GiveUpGivesUp
<1>6. ASSUME NEW m \in Mtus, ChangeMtu(m) PROVE LineStep
  <2>1. /\ lock = "free" /\ life # "gone" /\ UNCHANGED <<wire, frames>>
        /\ xmit = "idle" /\ work # "update" /\ xmit' = "idle" /\ work' # "update"
        /\ xhead' = 0
    BY <1>6 DEF ChangeMtu, LockInv
  <2>2. ToSend = Unsent /\ ToSend' = SubSeq(xbuff', 0 + 1, 0 + xleft')
    BY <2>1 DEF ToSend, Unsent
  <2>3. Unsent \in Seq(Token) /\ Len(Unsent) = xleft
    BY <2>1, SliceOfTokens DEF Unsent, TypeOK, BufferInv
  <2>4. CASE xleft <= BufLen(m)
    <3>1. xbuff' = Unsent /\ xleft' = xleft /\ cut' = cut
      BY <1>6, <2>4 DEF ChangeMtu
    <3>2. ToSend' = Unsent
      BY <2>2, <2>3, <3>1, SliceEnds DEF TypeOK
    <3> QED
      BY <2>1, <2>2, <3>1, <3>2 DEF LineStep
  <2>5. CASE ~(xleft <= BufLen(m))
    <3>1. GiveUp /\ xbuff' = << >> /\ xleft' = 0
      BY <1>6, <2>5 DEF ChangeMtu
    <3>2. ToSend' = << >>
      BY <2>2, <3>1, SubSeqEmpty
    <3> QED
      BY <2>1, <3>1, <3>2, GiveUpGivesUp
  <2> QED
    BY <2>4, <2>5
<1>7. CASE Detach \/ FlushWork
  BY <1>7 DEF Detach, FlushWork, LineStep, ToSend, Unsent
<1>8. CASE Unregister
  <2>1. /\ xleft = 0 /\ xmit = "idle" /\ work # "update"
        /\ UNCHANGED <<xleft, xhead, xmit, work, wire, frames, cut>>
    BY <1>8 DEF Unregister, DownInv, LockInv
  <2>2. ToSend = << >> /\ ToSend' = << >>
    BY <2>1, SubSeqEmpty DEF ToSend, Unsent, TypeOK
  <2> QED
    BY <2>1, <2>2 DEF LineStep
<1> QED
  BY <1>1, <1>2, <1>3, <1>4, <1>5, <1>6, <1>7, <1>8 DEF Admin, Hangup

\* Every step of the transmit half is a step of the line.
LEMMA LineSteps == ASSUME LineInv, [Next]_vars PROVE LineStep
<1>1. CASE Xmit \/ Work
  BY <1>1, XmitLine, WorkLine
<1>2. CASE Drain \/ Wakeup \/ Timeout \/ TimeoutOops \/ Admin \/ Hangup
  BY <1>2, OthersLine
<1>3. CASE Rest \/ UNCHANGED vars
  BY <1>3 DEF Rest, vars, buffer, driver, stats, LineStep, Promise!vars, ToSend, Unsent
<1> QED
  BY <1>1, <1>2, <1>3 DEF Next

(***************************************************************************)
(* The order of the bytes, for any driver: what is to be sent is the end   *)
(* of one frame, and it goes on where the line stopped or is a new frame.  *)
(***************************************************************************)

\* The rest of one frame, up to its last byte.
RestInv ==
  \A i \in 1 .. Len(ToSend) :
    /\ ToSend[i].frame = ToSend[1].frame
    /\ ToSend[i].frame <= frames
    /\ ToSend[i].of = ToSend[1].of
    /\ ToSend[i].pos + (Len(ToSend) - i) = ToSend[1].of

WireBelow == \A i \in 1 .. Len(wire) : wire[i].frame <= frames

Follows(a, b) ==
  \/ b.frame = a.frame /\ b.pos = a.pos + 1
  \/ b.frame > a.frame /\ b.pos = 1

Joined == wire # << >> /\ ToSend # << >> => Follows(wire[Len(wire)], ToSend[1])

OrderInv == RestInv /\ WireBelow /\ WireInOrder /\ Joined

\* What a write leaves on the line and in the buffer, byte by byte.
LEMMA SendShape ==
  ASSUME NEW w \in Seq(Token), NEW l \in Seq(Token), NEW k \in 1 .. Len(l)
  PROVE  /\ Len(w \o SubSeq(l, 1, k)) = Len(w) + k
         /\ \A i \in 1 .. Len(w) : (w \o SubSeq(l, 1, k))[i] = w[i]
         /\ \A i \in 1 .. k : (w \o SubSeq(l, 1, k))[Len(w) + i] = l[i]
         /\ SubSeq(l, k + 1, Len(l)) \in Seq(Token)
         /\ Len(SubSeq(l, k + 1, Len(l))) = Len(l) - k
         /\ \A i \in 1 .. Len(l) - k : SubSeq(l, k + 1, Len(l))[i] = l[k + i]
<1>1. Len(l) \in Nat /\ Len(w) \in Nat
  BY LenProperties
<1>2. \A i \in 1 .. Len(l) : l[i] \in Token
  BY <1>1, ElementOfSeq
<1> DEFINE h == SubSeq(l, 1, k)
<1>3. h \in Seq(Token) /\ Len(h) = k /\ \A i \in 1 .. k : h[i] = l[i]
  <2>1. \A i \in 1 .. k : l[i] \in Token
    BY <1>1, <1>2
  <2>2. /\ h \in Seq(Token) /\ Len(h) = IF 1 <= k THEN k - 1 + 1 ELSE 0
        /\ \A i \in 1 .. k - 1 + 1 : h[i] = l[1 + i - 1]
    BY <2>1, SubSeqProperties
  <2> QED
    BY <2>2
<1> HIDE DEF h
<1>4. /\ Len(w \o h) = Len(w) + k
      /\ \A i \in 1 .. Len(w) + k :
           (w \o h)[i] = IF i <= Len(w) THEN w[i] ELSE h[i - Len(w)]
  BY <1>3, ConcatProperties
<1>5. \A i \in 1 .. Len(w) : (w \o h)[i] = w[i]
  BY <1>1, <1>4
<1>6. \A i \in 1 .. k : (w \o h)[Len(w) + i] = l[i]
  BY <1>1, <1>3, <1>4
<1>7. \A i \in k + 1 .. Len(l) : l[i] \in Token
  BY <1>1, <1>2
<1>8. /\ SubSeq(l, k + 1, Len(l)) \in Seq(Token)
      /\ Len(SubSeq(l, k + 1, Len(l)))
           = IF k + 1 <= Len(l) THEN Len(l) - (k + 1) + 1 ELSE 0
      /\ \A i \in 1 .. Len(l) - (k + 1) + 1 :
           SubSeq(l, k + 1, Len(l))[i] = l[k + 1 + i - 1]
  BY <1>1, <1>7, SubSeqProperties
<1>9. /\ Len(SubSeq(l, k + 1, Len(l))) = Len(l) - k
      /\ \A i \in 1 .. Len(l) - k : SubSeq(l, k + 1, Len(l))[i] = l[k + i]
  BY <1>1, <1>8
<1> QED
  BY <1>4, <1>5, <1>6, <1>8, <1>9 DEF h

\* A byte of a frame that is being sent is followed by the next one.
LEMMA RestFollows ==
  ASSUME LineInv, RestInv, NEW i \in 1 .. Len(ToSend), i < Len(ToSend)
  PROVE  /\ ToSend[i + 1].frame = ToSend[i].frame
         /\ ToSend[i + 1].pos = ToSend[i].pos + 1
         /\ ToSend[i + 1].of = ToSend[i].of
<1>1. ToSend \in Seq(Token) /\ Len(ToSend) \in Nat
  BY ToSendType
<1>2. i + 1 \in 1 .. Len(ToSend)
  BY <1>1
<1>3. ToSend[i] \in Token /\ ToSend[i + 1] \in Token /\ ToSend[1] \in Token
  BY <1>1, <1>2, ElementOfSeq
<1>4. /\ ToSend[i + 1].pos + (Len(ToSend) - (i + 1)) = ToSend[1].of
      /\ ToSend[i].pos + (Len(ToSend) - i) = ToSend[1].of
      /\ ToSend[i + 1].frame = ToSend[1].frame /\ ToSend[i].frame = ToSend[1].frame
      /\ ToSend[i + 1].of = ToSend[1].of /\ ToSend[i].of = ToSend[1].of
  BY <1>2 DEF RestInv
<1>5. ToSend[i + 1].pos \in Nat /\ ToSend[i].pos \in Nat /\ ToSend[1].of \in Nat
  BY <1>3 DEF Token
<1>6. \A x, y, f, m, k \in Nat : x + (m - (k + 1)) = f /\ y + (m - k) = f => x = y + 1
  OBVIOUS
<1>7. PICK m \in Nat : m = Len(ToSend)
  BY <1>1
<1>8. PICK x \in Nat : x = ToSend[i + 1].pos
  BY <1>5
<1>9. PICK y \in Nat : y = ToSend[i].pos
  BY <1>5
<1>10. PICK f \in Nat : f = ToSend[1].of
  BY <1>5
<1>11. x + (m - (i + 1)) = f /\ y + (m - i) = f
  BY <1>4, <1>7, <1>8, <1>9, <1>10
<1>12. i \in Nat
  BY <1>1
<1>13. x = y + 1
  BY <1>6, <1>11, <1>12
<1> QED
  BY <1>4, <1>8, <1>9, <1>13

\* A step of the line keeps the tokens of the wire in order.
LEMMA OrderStep ==
  ASSUME LineInv, LineInv', OrderInv, LineStep
  PROVE  OrderInv'
<1> USE DEF OrderInv
<1>1. /\ ToSend \in Seq(Token) /\ Len(ToSend) \in Nat
      /\ wire \in Seq(Token) /\ Len(wire) \in Nat
      /\ frames \in Nat /\ frames' \in Nat
  <2>1. wire \in Seq(Token) /\ frames \in Nat /\ frames' \in Nat
    BY BoundAssumption DEF LineInv, Inv, TypeOK
  <2> QED
    BY <2>1, ToSendType, LenProperties
<1>2. /\ \A i \in 1 .. Len(ToSend) : ToSend[i] \in Token
      /\ \A i \in 1 .. Len(wire) : wire[i] \in Token
  BY <1>1, ElementOfSeq
<1>3. CASE UNCHANGED Promise!vars
  BY <1>3 DEF Promise!vars, RestInv, WireBelow, WireInOrder, Joined
<1>4. CASE Promise!Refuse
  <2>1. UNCHANGED <<wire, ToSend, cut>> /\ frames' = frames + 1
    BY <1>4 DEF Promise!Refuse
  <2>2. RestInv'
    <3>1. \A i \in 1 .. Len(ToSend) : ToSend[i].frame \in Nat
      BY <1>2 DEF Token
    <3> QED
      BY <1>1, <2>1, <3>1 DEF RestInv
  <2>3. WireBelow'
    <3>1. \A i \in 1 .. Len(wire) : wire[i].frame \in Nat
      BY <1>2 DEF Token
    <3> QED
      BY <1>1, <2>1, <3>1 DEF WireBelow
  <2>4. WireInOrder' /\ Joined'
    BY <2>1 DEF WireInOrder, Joined
  <2> QED
    BY <2>2, <2>3, <2>4
<1>5. ASSUME NEW p \in Packets, Overwrite(Encoded(p)) PROVE OrderInv'
  <2>1. Encoded(p) \in Nat
    BY EncodedFits, PacketAssumption
  <2>2. PICK n \in Nat : n = Encoded(p)
    BY <2>1
  <2>3. /\ wire' = wire /\ frames' = frames + 1
        /\ ToSend' = [i \in 1 .. n |-> [frame |-> frames', pos |-> i, of |-> n]]
    BY <1>5, <2>2 DEF Overwrite, Offered, Frame
  <2>4. Len(ToSend') = n
    BY <2>2, <2>3
  <2>5. \A i \in 1 .. n : ToSend'[i] = [frame |-> frames', pos |-> i, of |-> n]
    BY <2>3
  <2>6. \A i \in 1 .. Len(wire) : wire[i].frame \in Nat /\ wire[i].frame <= frames
    BY <1>2 DEF Token, WireBelow
  <2>7. RestInv'
    <3>1. ASSUME NEW i \in 1 .. n
          PROVE  /\ ToSend'[i].frame = ToSend'[1].frame
                 /\ ToSend'[i].frame <= frames'
                 /\ ToSend'[i].of = ToSend'[1].of
                 /\ ToSend'[i].pos + (n - i) = ToSend'[1].of
      <4>1. 1 \in 1 .. n
        BY <3>1
      <4>2. /\ ToSend'[i].frame = frames' /\ ToSend'[i].pos = i /\ ToSend'[i].of = n
            /\ ToSend'[1].frame = frames' /\ ToSend'[1].of = n
        <5>1. /\ ToSend'[i] = [frame |-> frames', pos |-> i, of |-> n]
              /\ ToSend'[1] = [frame |-> frames', pos |-> 1, of |-> n]
          BY <2>5, <3>1, <4>1, Zenon
        <5> QED
          BY <5>1
      <4>3. i + (n - i) = n
        BY <3>1
      <4> QED
        BY <1>1, <4>2, <4>3
    <3> QED
      BY <2>4, <3>1 DEF RestInv
  <2>8. WireBelow' /\ WireInOrder'
    BY <1>1, <2>3, <2>6 DEF WireBelow, WireInOrder
  <2>9. Joined'
    <3>1. SUFFICES ASSUME wire # << >>, ToSend' # << >>
                   PROVE  Follows(wire[Len(wire)], ToSend'[1])
      BY <2>3 DEF Joined
    <3>2. Len(wire) \in 1 .. Len(wire)
      BY <1>1, <3>1, EmptySeq
    <3>3. n # 0
      BY <2>3, <3>1
    <3>4. ToSend'[1].frame = frames + 1 /\ ToSend'[1].pos = 1
      BY <2>3, <2>5, <3>3
    <3> QED
      BY <1>1, <2>6, <3>2, <3>4 DEF Follows
  <2> QED
    BY <2>7, <2>8, <2>9
<1>6. CASE Promise!GiveUp
  <2>1. ToSend' = << >> /\ UNCHANGED <<wire, frames>>
    BY <1>6 DEF Promise!GiveUp
  <2>2. Len(ToSend') = 0
    BY <2>1
  <2> QED
    BY <2>1, <2>2 DEF RestInv, WireBelow, WireInOrder, Joined
<1>7. ASSUME NEW k \in 1 .. Len(ToSend), Promise!Send(k) PROVE OrderInv'
  <2>1. /\ wire' = wire \o SubSeq(ToSend, 1, k)
        /\ ToSend' = SubSeq(ToSend, k + 1, Len(ToSend))
        /\ frames' = frames
    BY <1>7 DEF Promise!Send
  <2>2. /\ Len(wire') = Len(wire) + k
        /\ \A i \in 1 .. Len(wire) : wire'[i] = wire[i]
        /\ \A i \in 1 .. k : wire'[Len(wire) + i] = ToSend[i]
        /\ ToSend' \in Seq(Token) /\ Len(ToSend') = Len(ToSend) - k
        /\ \A i \in 1 .. Len(ToSend) - k : ToSend'[i] = ToSend[k + i]
    BY <1>1, <2>1, SendShape
  <2>3. ToSend[1] \in Token /\ 1 \in 1 .. Len(ToSend)
    BY <1>1, <1>2
  <2>4. RestInv'
    <3>1. SUFFICES ASSUME NEW i \in 1 .. Len(ToSend) - k
                   PROVE  /\ ToSend'[i].frame = ToSend'[1].frame
                          /\ ToSend'[i].frame <= frames
                          /\ ToSend'[i].of = ToSend'[1].of
                          /\ ToSend'[i].pos + (Len(ToSend') - i) = ToSend'[1].of
      BY <2>1, <2>2 DEF RestInv
    <3>2. ToSend'[i] = ToSend[k + i] /\ ToSend'[1] = ToSend[k + 1]
      <4>1. 1 \in 1 .. Len(ToSend) - k
        BY <1>1
      <4> QED
        BY <2>2, <4>1
    <3>3. k + i \in 1 .. Len(ToSend) /\ k + 1 \in 1 .. Len(ToSend)
      BY <1>1
    <3>4. /\ ToSend[k + i].frame = ToSend[k + 1].frame
          /\ ToSend[k + i].frame <= frames
          /\ ToSend[k + i].of = ToSend[1].of /\ ToSend[k + 1].of = ToSend[1].of
          /\ ToSend[k + i].pos + (Len(ToSend) - (k + i)) = ToSend[1].of
      BY <3>3 DEF RestInv
    <3>5. Len(ToSend) - (k + i) = Len(ToSend') - i
      BY <1>1, <2>2
    <3> QED
      BY <3>2, <3>4, <3>5
  <2>5. WireBelow'
    <3>1. SUFFICES ASSUME NEW j \in 1 .. Len(wire) + k PROVE wire'[j].frame <= frames
      BY <2>1, <2>2 DEF WireBelow
    <3>2. CASE j <= Len(wire)
      <4>1. j \in 1 .. Len(wire)
        BY <1>1, <3>2
      <4> QED
        BY <2>2, <4>1 DEF WireBelow
    <3>3. CASE ~(j <= Len(wire))
      <4>1. PICK i \in 1 .. k : j = Len(wire) + i
        <5>1. j - Len(wire) \in 1 .. k /\ j = Len(wire) + (j - Len(wire))
          BY <1>1, <3>3
        <5> QED
          BY <5>1
      <4>2. i \in 1 .. Len(ToSend)
        BY <1>1
      <4> QED
        BY <2>2, <4>1, <4>2 DEF RestInv
    <3> QED
      BY <3>2, <3>3
  <2>6. WireInOrder'
    <3>1. SUFFICES \A j \in 1 .. Len(wire) + k - 1 : Follows(wire'[j], wire'[j + 1])
      BY <2>2 DEF WireInOrder, Follows
    <3> TAKE j \in 1 .. Len(wire) + k - 1
    <3>2. CASE j < Len(wire)
      <4>1. /\ j \in 1 .. Len(wire) /\ j + 1 \in 1 .. Len(wire)
            /\ j \in 1 .. Len(wire) - 1
        BY <1>1, <3>2
      <4>2. wire'[j] = wire[j] /\ wire'[j + 1] = wire[j + 1]
        BY <2>2, <4>1
      <4> QED
        BY <4>1, <4>2 DEF WireInOrder, Follows
    <3>3. CASE j = Len(wire)
      <4>1. j \in 1 .. Len(wire) /\ 1 \in 1 .. k /\ wire # << >> /\ ToSend # << >>
        BY <1>1, <3>3
      <4>2. wire'[j] = wire[Len(wire)] /\ wire'[j + 1] = ToSend[1]
        BY <2>2, <3>3, <4>1
      <4> QED
        BY <4>1, <4>2 DEF Joined
    <3>4. CASE j > Len(wire)
      <4>1. PICK i \in 1 .. k - 1 : j = Len(wire) + i
        <5>1. j - Len(wire) \in 1 .. k - 1 /\ j = Len(wire) + (j - Len(wire))
          BY <1>1, <3>4
        <5> QED
          BY <5>1
      <4>2. /\ i \in 1 .. Len(ToSend) /\ i < Len(ToSend)
            /\ i \in 1 .. k /\ i + 1 \in 1 .. k /\ j + 1 = Len(wire) + (i + 1)
        BY <1>1, <4>1
      <4>3. wire'[j] = ToSend[i] /\ wire'[j + 1] = ToSend[i + 1]
        BY <2>2, <4>1, <4>2
      <4> QED
        BY <4>2, <4>3, RestFollows DEF Follows
    <3> QED
      BY <1>1, <3>2, <3>3, <3>4
  <2>7. Joined'
    <3>1. SUFFICES ASSUME ToSend' # << >> PROVE Follows(wire'[Len(wire')], ToSend'[1])
      BY DEF Joined
    <3>3. k < Len(ToSend)
      BY <1>1, <2>2, <3>1, EmptySeq
    <3>4. wire'[Len(wire')] = ToSend[k]
      BY <1>1, <2>2
    <3>5. ToSend'[1] = ToSend[k + 1]
      BY <1>1, <2>2, <3>3
    <3> QED
      BY <3>3, <3>4, <3>5, RestFollows DEF Follows
  <2> QED
    BY <2>4, <2>5, <2>6, <2>7
<1> QED
  BY <1>3, <1>4, <1>5, <1>6, <1>7 DEF LineStep, Promise!Advance

\* The invariant of the line holds for ever.
LEMMA LineInvariance == Spec => []LineInv
<1>1. Init => LineInv
  BY InitInv, DownInit DEF LineInv
<1>2. LineInv /\ [Next]_vars => LineInv'
  BY NextInv, DownStep DEF LineInv
<1> QED
  BY <1>1, <1>2, PTL DEF Spec

\* At the start nothing is sent and nothing is to be sent.
LEMMA EmptyLine == Init => wire = << >> /\ ToSend = << >> /\ Len(ToSend) = 0
BY SubSeqEmpty, SizeAssumption DEF Init, ToSend, Unsent

\* For any driver, watchdog and sequence of MTU changes, opens and closes, the bytes on
\* the line are those of the frames in order: none is sent twice, and inside a frame none
\* is left out.
THEOREM LineInOrder == Spec => []WireInOrder
<1>1. Init => OrderInv
  BY EmptyLine DEF OrderInv, RestInv, WireBelow, WireInOrder, Joined
<1>2. LineInv /\ LineInv' /\ OrderInv /\ [Next]_vars => OrderInv'
  BY LineSteps, OrderStep
<1>3. OrderInv => WireInOrder
  BY DEF OrderInv
<1> QED
  BY <1>1, <1>2, <1>3, LineInvariance, PTL DEF Spec

(***************************************************************************)
(* Overruns, whole frames and the step of the refinement, for any driver:  *)
(* all hold until sl_xmit begins a frame while slip_transmit, which has    *)
(* found the buffer empty and dropped the lock, has yet to call sl_unlock. *)
(***************************************************************************)

\* An awake queue has an empty buffer, and so has a work item about to wake it.
AwakeInv ==
  ~overtaken =>
    /\ work = "wake" => xleft = 0 /\ xmit = "idle"
    /\ ~stopped => xleft = 0 /\ xmit = "idle"

\* It is so at the start, ...
LEMMA AwakeInit == Init => AwakeInv
BY DEF Init, AwakeInv

\* ... and every step keeps it so.
LEMMA AwakeStep == ASSUME LineInv, AwakeInv, [Next]_vars PROVE AwakeInv'
<1> USE DEF AwakeInv, LineInv, Inv, admin, buffer, driver, stats, races, bounds
<1>1. CASE XmitFree \/ (\E p \in Packets : XmitOversize(p))
  BY <1>1 DEF XmitFree, XmitOversize, Offered
<1>2. ASSUME NEW p \in Packets, XmitEncode(p) PROVE AwakeInv'
  BY <1>2 DEF XmitEncode, Offered
<1>3. CASE XmitWrite
  BY <1>3 DEF XmitWrite, TtyWrite
<1>4. CASE XmitFinish
  BY <1>4 DEF XmitFinish
<1>5. CASE WorkRun \/ WorkReturn
  BY <1>5 DEF WorkRun, WorkReturn
<1>6. CASE WorkEmpty
  BY <1>6 DEF WorkEmpty, LockInv, TypeOK
<1>7. CASE WorkWake
  BY <1>7 DEF WorkWake
<1>8. CASE WorkWrite
  BY <1>8 DEF WorkWrite, TtyWrite, LockInv
<1>9. CASE WorkUpdate
  BY <1>9 DEF WorkUpdate, LockInv, BufferInv, TypeOK
<1>10. CASE Drain \/ Wakeup
  BY <1>10 DEF Drain, TtyDrain, Wakeup, TtyWakeup, ScheduleWork
<1>11. CASE Timeout \/ TimeoutOops
  BY <1>11 DEF Timeout, TimeoutOops, WatchdogFires
<1>12. CASE DevClose \/ SlClose
  BY <1>12 DEF DevClose, SlClose
<1>13. CASE SlOpen
  BY <1>13 DEF SlOpen, DownInv, LockInv
<1>14. ASSUME NEW m \in Mtus, ChangeMtu(m) PROVE AwakeInv'
  BY <1>14 DEF ChangeMtu
<1>15. CASE Hangup
  BY <1>15 DEF Hangup, Detach, FlushWork, Unregister
<1>16. CASE Rest \/ UNCHANGED vars
  BY <1>16 DEF Rest, vars
<1> QED
  BY <1>1, <1>2, <1>3, <1>4, <1>5, <1>6, <1>7, <1>8, <1>9, <1>10, <1>11, <1>12, <1>13,
     <1>14, <1>15, <1>16
  DEF Next, Xmit, Work, Admin

\* The queue's flag follows the buffer until it is overtaken, with any driver.
LEMMA AwakeInvariance == Spec => []AwakeInv
<1> QED
  BY AwakeInit, AwakeStep, LineInvariance, PTL DEF Spec

\* With any tty driver, watchdog and administrator, sl_xmit is called on a buffer with
\* unsent bytes only after it has slipped in between the spin_unlock and the sl_unlock of
\* slip_transmit: that window is the only way to an overrun.
THEOREM OverrunFree == Spec => []OverrunOnlyByRace
<1>1. AwakeInv => OverrunOnlyByRace
  BY DEF AwakeInv, NoOverrun, OverrunOnlyByRace
<1> QED
  BY <1>1, AwakeInvariance, PTL

\* When sl_xmit starts a frame and does not slip in, nothing is left of the last one.
LEMMA StartsAfresh ==
  ASSUME LineInv, AwakeInv, Offered, ~overtaken
  PROVE  ToSend = << >>
<1>1. xmit = "idle" /\ work # "update" /\ ~stopped
  BY DEF Offered, LineInv, Inv, LockInv
<1>2. xleft = 0
  BY <1>1 DEF AwakeInv
<1> QED
  BY <1>1, <1>2, SubSeqEmpty DEF ToSend, Unsent, LineInv, Inv, TypeOK

\* No step takes back that sl_xmit has slipped in.
LEMMA OvertakenStays == ASSUME [Next]_vars, overtaken PROVE overtaken'
<1> USE DEF admin, buffer, driver, stats, races, bounds
<1>1. CASE Xmit
  BY <1>1 DEF Xmit, XmitFree, XmitOversize, XmitEncode, XmitWrite, XmitFinish
<1>2. CASE Work
  BY <1>2 DEF Work, WorkRun, WorkReturn, WorkEmpty, WorkWake, WorkWrite, WorkUpdate
<1>3. CASE Drain \/ Wakeup \/ Timeout \/ TimeoutOops
  BY <1>3 DEF Drain, TtyDrain, Wakeup, TtyWakeup, ScheduleWork, Timeout, TimeoutOops
<1>4. CASE Admin
  BY <1>4 DEF Admin, DevClose, SlClose, SlOpen, ChangeMtu
<1>5. CASE Hangup
  BY <1>5 DEF Hangup, Detach, FlushWork, Unregister
<1>6. CASE Rest \/ UNCHANGED vars
  BY <1>6 DEF Rest, vars
<1> QED
  BY <1>1, <1>2, <1>3, <1>4, <1>5, <1>6 DEF Next

\* Until then every step is one that FrameLine allows, or leaves the line alone.
LEMMA StepPromised ==
  ASSUME LineInv, AwakeInv, [Next]_vars, ~overtaken'
  PROVE  [Promise!Next]_(Promise!vars)
<1>1. ~overtaken
  BY OvertakenStays
<1>2. ASSUME NEW p \in Packets, Overwrite(Encoded(p)) PROVE Promise!Accept(Encoded(p))
  BY <1>1, <1>2, StartsAfresh DEF Overwrite, Offered, Frame, Promise!Accept
<1> QED
  BY <1>2, LineSteps DEF LineStep, Promise!Next

\* For every tty driver, watchdog and administrator the transmit half implements FrameLine
\* step by step until sl_xmit slips in: buffers, locks, wakeups and closings add no other
\* behaviour to a line that takes one frame at a time.
THEOREM StepsImplementFrameLine == Spec => StepsOfFrameLine
<1>1. Init => Promise!Init
  BY EmptyLine DEF Init, Promise!Init
<1>2. LineInv /\ AwakeInv /\ [Next]_vars
        => [Promise!Next \/ overtaken']_(Promise!vars)
  BY StepPromised
<1> QED
  BY <1>1, <1>2, LineInvariance, AwakeInvariance, PTL DEF Spec, StepsOfFrameLine

Finished(a) == a.pos = a.of \/ a.frame \in cut

\* The frame the line stopped in has ended, was cut, or is what is to be sent next.
LastInv ==
  wire # << >> =>
    \/ Finished(wire[Len(wire)])
    \/ /\ ToSend # << >>
       /\ ToSend[1].frame = wire[Len(wire)].frame

\* A frame that is followed by another one has ended or was cut.
EndedInv ==
  \A i \in 1 .. Len(wire) - 1 :
    wire[i].frame # wire[i + 1].frame =>
      wire[i].pos = wire[i].of \/ wire[i].frame \in cut

WholeInv == EndedInv /\ LastInv

\* A step of the line leaves the frames whole that nobody cuts.
LEMMA WholeStep ==
  ASSUME LineInv, LineInv', RestInv, WholeInv, [Promise!Next]_(Promise!vars)
  PROVE  WholeInv'
<1> USE DEF WholeInv
<1>1. /\ ToSend \in Seq(Token) /\ Len(ToSend) \in Nat
      /\ wire \in Seq(Token) /\ Len(wire) \in Nat
  <2>1. wire \in Seq(Token)
    BY DEF LineInv, Inv, TypeOK
  <2> QED
    BY <2>1, ToSendType, LenProperties
<1>2. CASE UNCHANGED <<wire, ToSend, cut>>
  BY <1>2 DEF EndedInv, LastInv, Finished
<1>3. ASSUME NEW n, Promise!Accept(n) PROVE WholeInv'
  BY <1>3 DEF Promise!Accept, EndedInv, LastInv, Finished
<1>4. CASE Promise!GiveUp
  BY <1>4 DEF Promise!GiveUp, EndedInv, LastInv, Finished
<1>5. ASSUME NEW k \in 1 .. Len(ToSend), Promise!Send(k) PROVE WholeInv'
  <2>1. /\ wire' = wire \o SubSeq(ToSend, 1, k)
        /\ ToSend' = SubSeq(ToSend, k + 1, Len(ToSend))
        /\ cut' = cut
    BY <1>5 DEF Promise!Send
  <2>2. /\ Len(wire') = Len(wire) + k
        /\ \A i \in 1 .. Len(wire) : wire'[i] = wire[i]
        /\ \A i \in 1 .. k : wire'[Len(wire) + i] = ToSend[i]
        /\ Len(ToSend') = Len(ToSend) - k
        /\ \A i \in 1 .. Len(ToSend) - k : ToSend'[i] = ToSend[k + i]
    BY <1>1, <2>1, SendShape
  <2>3. EndedInv'
    <3>1. SUFFICES \A j \in 1 .. Len(wire) + k - 1 :
                     wire'[j].frame # wire'[j + 1].frame => Finished(wire'[j])
      <4>1. /\ Len(wire') - 1 = Len(wire) + k - 1
            /\ cut' = cut
        BY <2>1, <2>2, <1>1
      <4> QED
        BY <4>1, Zenon DEF EndedInv, Finished
    <3> TAKE j \in 1 .. Len(wire) + k - 1
    <3>2. CASE j < Len(wire)
      <4>1. /\ j \in 1 .. Len(wire) /\ j + 1 \in 1 .. Len(wire)
            /\ j \in 1 .. Len(wire) - 1
        BY <1>1, <3>2
      <4>2. wire'[j] = wire[j] /\ wire'[j + 1] = wire[j + 1]
        BY <2>2, <4>1
      <4> QED
        BY <4>1, <4>2 DEF EndedInv, Finished
    <3>3. CASE j = Len(wire)
      <4>1. j \in 1 .. Len(wire) /\ 1 \in 1 .. k /\ wire # << >>
        BY <1>1, <3>3
      <4>2. wire'[j] = wire[Len(wire)] /\ wire'[j + 1] = ToSend[1]
        BY <2>2, <3>3, <4>1
      <4> QED
        BY <4>1, <4>2 DEF LastInv
    <3>4. CASE j > Len(wire)
      <4>1. PICK i \in 1 .. k - 1 : j = Len(wire) + i
        <5>1. j - Len(wire) \in 1 .. k - 1 /\ j = Len(wire) + (j - Len(wire))
          BY <1>1, <3>4
        <5> QED
          BY <5>1
      <4>2. /\ i \in 1 .. Len(ToSend) /\ i < Len(ToSend)
            /\ i \in 1 .. k /\ i + 1 \in 1 .. k /\ j + 1 = Len(wire) + (i + 1)
        BY <1>1, <4>1
      <4>3. wire'[j] = ToSend[i] /\ wire'[j + 1] = ToSend[i + 1]
        BY <2>2, <4>1, <4>2
      <4> QED
        BY <4>2, <4>3, RestFollows
    <3> QED
      BY <1>1, <3>2, <3>3, <3>4
  <2>4. LastInv'
    <3>1. wire'[Len(wire')] = ToSend[k]
      BY <1>1, <2>2
    <3>2. CASE k < Len(ToSend)
      <4>1. ToSend'[1] = ToSend[k + 1] /\ ToSend' # << >>
        BY <1>1, <2>2, <3>2
      <4>2. ToSend[k + 1].frame = ToSend[k].frame
        BY <3>2, RestFollows
      <4> QED
        BY <3>1, <4>1, <4>2 DEF LastInv
    <3>3. CASE k = Len(ToSend)
      <4>1. /\ ToSend[k].pos + (Len(ToSend) - k) = ToSend[1].of
            /\ ToSend[k].of = ToSend[1].of
        BY DEF RestInv
      <4>2. ToSend[k] \in Token /\ ToSend[k].pos \in Nat
        <5>1. ToSend[k] \in Token
          BY <1>1, ElementOfSeq
        <5> QED
          BY <5>1 DEF Token
      <4>3. ToSend[k].pos = ToSend[k].of
        BY <1>1, <3>3, <4>1, <4>2
      <4> QED
        BY <2>1, <3>1, <4>3 DEF LastInv, Finished
    <3> QED
      BY <1>1, <3>2, <3>3
  <2> QED
    BY <2>3, <2>4
<1> QED
  BY <1>2, <1>3, <1>4, <1>5
  DEF Promise!Next, Promise!Refuse, Promise!Advance, Promise!vars

\* With any tty driver a frame ends early on the line only when its rest was given up, by
\* the watchdog, by sl_close or by an MTU too small for it, until sl_xmit slips in.
THEOREM FramesWhole == Spec => []WholeUnlessCut
<1>1. Init => OrderInv /\ WholeInv
  BY EmptyLine
  DEF OrderInv, RestInv, WireBelow, WireInOrder, Joined, WholeInv, EndedInv, LastInv
<1>2. LineInv /\ LineInv' /\ OrderInv /\ [Next]_vars => OrderInv'
  BY LineSteps, OrderStep
<1>3. /\ LineInv /\ LineInv' /\ AwakeInv /\ OrderInv /\ (~overtaken => WholeInv)
      /\ [Next]_vars
      => (~overtaken' => WholeInv')
  BY OvertakenStays, StepPromised, WholeStep DEF OrderInv
<1>4. (~overtaken => WholeInv) => WholeUnlessCut
  BY DEF WholeInv, EndedInv, Finished, WholeUnlessCut
<1> QED
  BY <1>1, <1>2, <1>3, <1>4, LineInvariance, AwakeInvariance, PTL DEF Spec

(***************************************************************************)
(* The statistics, for any driver: a frame whose run of slip_transmit is   *)
(* still to come has not been counted as sent.                             *)
(***************************************************************************)

UnderWay == IF stopped /\ link = "up" /\ work # "wake" THEN 1 ELSE 0

CountInv ==
  /\ ~recount => txPackets + UnderWay <= frames
  /\ opens = 0 => frames = 0 /\ link = "down"
  /\ link = "up" /\ tty /\ timeouts = 0 /\ opens <= 1 /\ ~overtaken
       => frames <= txPackets + txDropped + UnderWay

\* Every step keeps the counts of packets and of frames together.
LEMMA CountStep ==
  ASSUME Inv, CountInv, [Next]_vars
  PROVE  CountInv'
<1> USE DEF CountInv, UnderWay, admin, buffer, driver, stats, races, bounds
<1>1. /\ frames \in Nat /\ txPackets \in Nat /\ txDropped \in Nat /\ opens \in Nat
      /\ timeouts \in Nat
  BY BoundAssumption DEF Inv, TypeOK
<1>2. CASE XmitFree
  BY <1>1, <1>2 DEF XmitFree, Offered
<1>3. ASSUME NEW p \in Packets, XmitOversize(p) PROVE CountInv'
  BY <1>1, <1>3 DEF XmitOversize, Offered
<1>4. ASSUME NEW p \in Packets, XmitEncode(p) PROVE CountInv'
  <2>1. /\ UnderWay = 0 /\ UnderWay' \in {0, 1}
        /\ work # "wake" => UnderWay' = 1
    BY <1>4 DEF XmitEncode, Offered
  <2>2. /\ frames' = frames + 1 /\ txPackets' = txPackets /\ txDropped' = txDropped
        /\ recount' = recount /\ link' = link /\ link = "up" /\ tty' = tty
        /\ timeouts' = timeouts /\ opens' = opens
    BY <1>4 DEF XmitEncode, Offered
  <2>3. ~overtaken' => ~overtaken /\ work # "wake"
    BY <1>4 DEF XmitEncode
  <2>4. opens' # 0
    BY <2>2
  <2> HIDE DEF UnderWay
  <2>5. ~recount' => txPackets' + UnderWay' <= frames'
    <3>1. ~recount' => txPackets + UnderWay <= frames
      BY <2>2
    <3>2. txPackets + UnderWay <= frames => txPackets' + UnderWay' <= frames'
      <4>1. frames' = frames + 1 /\ txPackets' = txPackets /\ UnderWay = 0
        BY <2>1, <2>2
      <4>2. PICK u \in {0, 1} : u = UnderWay'
        BY <2>1
      <4>3. PICK x \in Nat : x = txPackets
        BY <1>1
      <4>4. PICK f \in Nat : f = frames
        BY <1>1
      <4>5. x + 0 <= f => x + u <= f + 1
        BY SMT
      <4> QED
        BY <4>1, <4>2, <4>3, <4>4, <4>5, Zenon
    <3> QED
      BY <3>1, <3>2
  <2>6. /\ link' = "up" /\ tty' /\ timeouts' = 0 /\ opens' <= 1 /\ ~overtaken'
        => frames' <= txPackets' + txDropped' + UnderWay'
    <3>1. SUFFICES ASSUME tty', timeouts' = 0, opens' <= 1, ~overtaken'
                   PROVE  frames + 1 <= txPackets + txDropped + UnderWay'
      BY <2>2
    <3>2. frames <= txPackets + txDropped + UnderWay
      BY <2>2, <2>3, <3>1
    <3> QED
      BY <1>1, <2>1, <2>3, <3>1, <3>2
  <2> QED
    BY <2>4, <2>5, <2>6
<1>5. CASE XmitWrite \/ XmitFinish
  BY <1>5 DEF XmitWrite, XmitFinish
<1>6. CASE WorkRun \/ WorkReturn
  BY <1>1, <1>6 DEF WorkRun, WorkReturn
<1>7. CASE WorkEmpty
  <2>1. UnderWay' = 0 /\ UnderWay \in {0, 1} /\ (stopped => UnderWay = 1)
    BY <1>7 DEF WorkEmpty
  <2>2. /\ frames' = frames /\ txPackets' = txPackets + 1 /\ txDropped' = txDropped
        /\ link' = link /\ link = "up" /\ tty' = tty
        /\ timeouts' = timeouts /\ opens' = opens /\ overtaken' = overtaken
    BY <1>7 DEF WorkEmpty
  <2>3. ~recount' => ~recount /\ stopped
    BY <1>7 DEF WorkEmpty
  <2> HIDE DEF UnderWay
  <2> QED
    BY <1>1, <2>1, <2>2, <2>3
<1>8. CASE WorkWake
  BY <1>1, <1>8 DEF WorkWake
<1>9. CASE WorkWrite \/ WorkUpdate
  BY <1>1, <1>9 DEF WorkWrite, WorkUpdate
<1>10. CASE Drain \/ Wakeup
  BY <1>10 DEF Drain, TtyDrain, Wakeup, TtyWakeup, ScheduleWork
<1>11. CASE Timeout \/ TimeoutOops
  BY <1>1, <1>11 DEF Timeout, TimeoutOops, WatchdogFires
<1>12. CASE DevClose \/ SlClose
  <2>1. UnderWay' = 0 /\ UnderWay \in {0, 1} /\ link' # "up"
    BY <1>12 DEF DevClose, SlClose
  <2>2. UNCHANGED <<frames, txPackets, recount, opens>> /\ (link = "down" => link' = "down")
    BY <1>12 DEF DevClose, SlClose
  <2>3. opens = 0 => link = "down" /\ ~DevClose /\ ~SlClose
    BY DEF DevClose, SlClose
  <2> HIDE DEF UnderWay
  <2> QED
    BY <1>1, <1>12, <2>1, <2>2, <2>3
<1>13. CASE SlOpen
  BY <1>1, <1>13 DEF SlOpen
<1>14. ASSUME NEW m \in Mtus, ChangeMtu(m) PROVE CountInv'
  <2>1. txDropped' = txDropped \/ txDropped' = txDropped + 1
    BY <1>14 DEF ChangeMtu
  <2>2. /\ UNCHANGED <<opens, timeouts, frames, txPackets, link, tty, stopped, work>>
        /\ UNCHANGED <<recount, overtaken>>
    BY <1>14 DEF ChangeMtu
  <2> QED
    BY <1>1, <2>1, <2>2
<1>15. CASE Hangup
  BY <1>15 DEF Hangup, Detach, FlushWork, Unregister
<1>16. CASE Rest \/ UNCHANGED vars
  BY <1>16 DEF Rest, vars
<1> QED
  BY <1>2, <1>3, <1>4, <1>5, <1>6, <1>7, <1>8, <1>9, <1>10, <1>11, <1>12, <1>13, <1>14,
     <1>15, <1>16
  DEF Next, Xmit, Work, Drain, Admin

\* With any tty driver: no packet is counted twice as sent unless slip_transmit has run on
\* an empty buffer with the queue awake; and until the watchdog expires, the device is
\* reopened or sl_xmit slips in, every packet taken from the stack has been counted as sent
\* or dropped when the queue is awake.
THEOREM PacketsCounted == Spec => []Counted
<1>1. Init => CountInv
  BY BoundAssumption DEF Init, CountInv, UnderWay
<1>2. Inv /\ CountInv /\ [Next]_vars => CountInv'
  BY CountStep
<1>3. Inv /\ CountInv => Counted
  BY BoundAssumption DEF Inv, TypeOK, CountInv, UnderWay, Counted
<1> QED
  BY <1>1, <1>2, <1>3, Invariance, PTL DEF Spec

=============================================================================

-------------------------- MODULE SlipSmart_proofs --------------------------
(***************************************************************************)
(* Theorems about line checking for every value of the constants.          *)
(***************************************************************************)
EXTENDS SlipSmart, SlipTx_proofs

Steps == {"none", "rearm", "period", "hangup"}

SmartType ==
  /\ on \in [Timers -> BOOLEAN] /\ armed \in [Timers -> BOOLEAN]
  /\ running \in [Timers -> BOOLEAN] /\ flag \in [Timers -> BOOLEAN]
  /\ step \in [Timers -> Steps]
  /\ heard \in BOOLEAN /\ overlooked \in BOOLEAN /\ dying \in BOOLEAN
  /\ deleted \subseteq Timers

\* What keeps the timers sound: sl->tty is set exactly until slip_close begins, whoever
\* has yet to arm a timer holds the lock, alone, while sl->tty is set, and a timer that slip_close
\* has deleted stays dead because no callback and no ioctl arms it without a tty.
TimerInv ==
  /\ tty \in BOOLEAN /\ (tty <=> life = "open")
  /\ \A t \in Timers : step[t] # "none" => lock = "smart" /\ tty
  /\ \A t, u \in Timers : step[t] # "none" /\ step[u] # "none" => t = u
  /\ \A t \in Timers : step[t] \in {"rearm", "hangup"} => running[t]
  /\ deleted # {} => ~tty
  /\ \A t \in deleted : ~armed[t] /\ ~running[t]
  /\ life = "gone" => deleted = Timers
  /\ CheckingGoesOn

Excused == ~heard \/ overlooked

\* The flag is up, outside the callback that has just set it, only while no frame has come
\* in that it would tell of.
FlagInv ==
  /\ flag["keepalive"] /\ step["keepalive"] # "rearm" => Excused
  /\ step["keepalive"] \in {"period", "hangup"} => Excused

SmartInv == SmartType /\ TimerInv /\ FlagInv

\* The invariant holds at the start, ...
LEMMA SmartInitInv == SmartInit => SmartInv
BY DEF SmartInit, Init, SmartInv, SmartType, TimerInv, FlagInv, Excused, Steps, Timers,
       CheckingGoesOn

\* The transmit half neither sets nor clears sl->tty, does not take the lock from a callback
\* or an ioctl, and of slip_close it only has the wait for the work item.
LEMMA TransmitKeeps ==
  ASSUME LockInv, Transmit
  PROVE  /\ UNCHANGED <<smart, tty>>
         /\ lock = "smart" => lock' = "smart"
         /\ life' = life \/ (life = "detached" /\ life' = "flushed")
<1> USE DEF LockInv, smart, timers, watched
<1>1. CASE XmitFree \/ XmitWrite
  BY <1>1 DEF Transmit, XmitFree, XmitWrite, admin
<1>2. CASE \E p \in Packets : XmitOversize(p) \/ XmitEncode(p)
  BY <1>2 DEF Transmit, XmitOversize, XmitEncode, Offered, admin
<1>3. CASE Work
  BY <1>3 DEF Transmit, Work, WorkRun, WorkReturn, WorkEmpty, WorkWake, WorkWrite,
              WorkUpdate, admin
<1>4. CASE Drain \/ Wakeup
  BY <1>4 DEF Transmit, Drain, TtyDrain, Wakeup, TtyWakeup, ScheduleWork, admin
<1>5. CASE Timeout \/ TimeoutOops
  BY <1>5 DEF Transmit, Timeout, TimeoutOops, WatchdogFires, admin
<1>6. CASE DevClose \/ SlClose
  BY <1>6 DEF Transmit, DevClose, SlClose
<1>7. CASE \E m \in Mtus : ChangeMtu(m)
  BY <1>7 DEF Transmit, ChangeMtu, admin
<1>8. CASE FlushWork
  BY <1>8 DEF Transmit, FlushWork
<1> QED
  BY <1>1, <1>2, <1>3, <1>4, <1>5, <1>6, <1>7, <1>8 DEF Transmit

\* ... every step keeps it, ...
LEMMA SmartNextInv == LockInv /\ SmartInv /\ [SmartNext]_smartVars => SmartInv'
<1> SUFFICES ASSUME LockInv, SmartInv, [SmartNext]_smartVars PROVE SmartInv'
  OBVIOUS
<1> USE DEF Timers, Steps, timers, watched, admin, SmartInv, SmartType, TimerInv, FlagInv,
            Excused, CheckingGoesOn
<1>1. CASE Transmit
  <2>1. /\ UNCHANGED <<on, armed, running, flag, step, deleted, dying, heard, overlooked>>
        /\ tty' = tty
        /\ lock = "smart" => lock' = "smart"
        /\ life' = life \/ (life = "detached" /\ life' = "flushed")
    BY <1>1, TransmitKeeps DEF smart
  <2> QED
    BY <2>1
<1>2. CASE EncapsEnds
  BY <1>2 DEF EncapsEnds, XmitFinish, LockInv
<1>3. CASE OpenClearsFlags
  BY <1>3 DEF OpenClearsFlags, SlOpen
<1>4. CASE ReceiveEnd
  BY <1>4 DEF ReceiveEnd, Overlooked, vars
<1>5. CASE PeerFallsSilent \/ IoctlNoTty
  <2>1. UNCHANGED <<on, armed, running, flag, step, deleted, dying, heard, overlooked,
                    tty, life, lock>>
    BY <1>5 DEF PeerFallsSilent, IoctlNoTty, vars
  <2> QED
    BY <2>1
<1>6. ASSUME NEW t \in Timers, SetPeriod(t) PROVE SmartInv'
  <2>1. SmartType'
    <3>1. heard' \in BOOLEAN /\ overlooked' \in BOOLEAN
      BY <1>6 DEF SetPeriod, Ioctl, Arm, Take, unlocked
    <3> QED
      BY <1>6, <3>1 DEF SetPeriod, Ioctl, Arm, Take, unlocked
  <2>2. TimerInv'
    BY <1>6 DEF SetPeriod, Ioctl, Arm, Take, unlocked
  <2>3. FlagInv'
    BY <1>6 DEF SetPeriod, Ioctl, Arm, Take, unlocked
  <2> QED
    BY <2>1, <2>2, <2>3
<1>7. ASSUME NEW t \in Timers, SetPeriodFlag(t) PROVE SmartInv'
  BY <1>7 DEF SetPeriodFlag, Finish, unlocked
<1>8. ASSUME NEW t \in Timers, ClearPeriod(t) PROVE SmartInv'
  BY <1>8 DEF ClearPeriod, Ioctl, vars
<1>9. ASSUME NEW t \in Timers, Expire(t) PROVE SmartInv'
  BY <1>9 DEF Expire, vars
<1>10. ASSUME NEW t \in Timers, CallbackLeaves(t) PROVE SmartInv'
  <2>1. SmartType'
    <3>1. heard' \in BOOLEAN /\ overlooked' \in BOOLEAN
      BY <1>10 DEF CallbackLeaves, Callback, vars
    <3> QED
      BY <1>10, <3>1 DEF CallbackLeaves, Callback, vars
  <2>2. TimerInv'
    BY <1>10 DEF CallbackLeaves, Callback, vars
  <2>3. FlagInv'
    BY <1>10 DEF CallbackLeaves, Callback, vars
  <2> QED
    BY <2>1, <2>2, <2>3
<1>11. ASSUME NEW t \in Timers, CallbackWaits(t) PROVE SmartInv'
  BY <1>11 DEF CallbackWaits, Callback, Take, unlocked
<1>12. ASSUME NEW t \in Timers, Rearm(t) PROVE SmartInv'
  <2>1. SmartType'
    <3>1. heard' \in BOOLEAN /\ overlooked' \in BOOLEAN
      BY <1>12 DEF Rearm, Finish, Arm, unlocked
    <3> QED
      BY <1>12, <3>1 DEF Rearm, Finish, Arm, unlocked
  <2>2. TimerInv'
    BY <1>12 DEF Rearm, Finish, Arm, unlocked
  <2>3. FlagInv'
    BY <1>12 DEF Rearm, Finish, Arm, unlocked
  <2> QED
    BY <2>1, <2>2, <2>3
<1>13. CASE Keepalive
  BY <1>13 DEF Keepalive, Callback, Take, unlocked
<1>14. CASE TtyHangup
  BY <1>14 DEF TtyHangup, Finish, unlocked
<1>15. CASE Outfill
  BY <1>15 DEF Outfill, OutfillTakes, Callback
<1>16. CASE SmartDetach
  BY <1>16 DEF SmartDetach, Detach, smart
<1>17. ASSUME NEW t \in Timers, DelTimerSync(t) PROVE SmartInv'
  BY <1>17 DEF DelTimerSync, vars
<1>18. CASE SmartUnregister
  BY <1>18 DEF SmartUnregister, Unregister, smart
<1>19. CASE UNCHANGED <<vars, smart>>
  BY <1>19 DEF vars, smart
<1> QED
  BY <1>1, <1>2, <1>3, <1>4, <1>5, <1>6, <1>7, <1>8, <1>9, <1>10, <1>11, <1>12, <1>13,
     <1>14, <1>15, <1>16, <1>17, <1>18, <1>19
  DEF SmartNext, RunCallback, Rest, smartVars

(***************************************************************************)
(* The transmit half under line checking: a step is one of its own, or it  *)
(* happens beside it and touches at most the lock and the driver's FIFO.   *)
(***************************************************************************)

Beside ==
  /\ lock \in {"free", "smart"} /\ lock' \in {"free", "smart"}
  /\ fifo' \in 0 .. Room
  /\ UNCHANGED <<admin, stopped, wakeup, xmit, work, pending, actual, buffer, irq, waker,
                 wire, stats, races, bounds>>

\* sl_outfill gives the driver no more than it has room for.
LEMMA OutfillBeside == ASSUME TypeOK, Outfill PROVE Beside
<1>1. fifo' \in 0 .. Room
  <2>1. CASE stopped
    BY <2>1 DEF Outfill, TypeOK
  <2>2. CASE ~stopped
    <3>1. fifo + 1 \in Nat /\ Room \in Nat /\ fifo' = Lesser(fifo + 1, Room)
      BY <2>2, SizeAssumption DEF Outfill, PutEnd, TypeOK
    <3> QED
      BY <3>1, LesserBounds
  <2> QED
    BY <2>1, <2>2
<1> QED
  BY <1>1 DEF Outfill, OutfillTakes, Callback, Beside

\* Every step of a line that is checked is one of the two.
LEMMA StepOrBeside ==
  ASSUME TypeOK, SmartInv, [SmartNext]_smartVars
  PROVE  [Next]_vars \/ Beside
<1>1. CASE Transmit \/ EncapsEnds \/ OpenClearsFlags
  BY <1>1 DEF Transmit, EncapsEnds, OpenClearsFlags, Next, Xmit, Admin, Hangup
<1>2. CASE SmartDetach \/ SmartUnregister \/ (Rest /\ UNCHANGED smart)
  BY <1>2 DEF SmartDetach, SmartUnregister, Next, Hangup
<1>3. CASE ReceiveEnd \/ PeerFallsSilent \/ IoctlNoTty
  BY <1>3 DEF ReceiveEnd, PeerFallsSilent, IoctlNoTty
<1>4. CASE \E t \in Timers : ClearPeriod(t) \/ Expire(t) \/ CallbackLeaves(t) \/ DelTimerSync(t)
  BY <1>4 DEF ClearPeriod, Expire, CallbackLeaves, DelTimerSync
<1>5. ASSUME NEW t \in Timers, NEW s, Take(t, s) PROVE Beside
  BY <1>5 DEF Take, unlocked, driver, Beside, TypeOK
<1>6. ASSUME NEW t \in Timers, NEW s, Finish(t, s), s # "none" PROVE Beside
  BY <1>6 DEF Finish, unlocked, driver, Beside, TypeOK, SmartInv, TimerInv
<1>7. ASSUME NEW t \in Timers, SetPeriod(t) \/ CallbackWaits(t) PROVE Beside
  BY <1>5, <1>7 DEF SetPeriod, CallbackWaits
<1>8. ASSUME NEW t \in Timers, SetPeriodFlag(t) \/ Rearm(t) PROVE Beside
  <2>1. "period" # "none" /\ "rearm" # "none"
    OBVIOUS
  <2> QED
    BY <1>6, <1>8, <2>1 DEF SetPeriodFlag, Rearm
<1>9. CASE Keepalive \/ TtyHangup
  <2>1. "keepalive" \in Timers /\ "hangup" # "none"
    BY DEF Timers
  <2> QED
    BY <1>5, <1>6, <1>9, <2>1 DEF Keepalive, TtyHangup
<1>10. CASE Outfill
  BY <1>10, OutfillBeside
<1>11. CASE UNCHANGED smartVars
  BY <1>11 DEF smartVars
<1> QED
  BY <1>1, <1>2, <1>3, <1>4, <1>7, <1>8, <1>9, <1>10, <1>11 DEF SmartNext, RunCallback

\* What happens beside the transmitter keeps its invariants and leaves the line alone.
LEMMA BesideKeeps ==
  ASSUME LineInv, AwakeInv, Beside
  PROVE  LineInv' /\ AwakeInv' /\ UNCHANGED Promise!vars
<1> USE DEF LineInv, Inv, Beside, admin, buffer, stats, races, bounds
<1>1. TypeOK'
  BY DEF TypeOK
<1>2. LockInv' /\ CloseInv' /\ DownInv'
  BY DEF LockInv, CloseInv, DownInv
<1>3. BufferInv'
  BY DEF BufferInv, BufLen
<1>4. AwakeInv'
  BY DEF AwakeInv
<1>5. UNCHANGED Promise!vars
  BY DEF Promise!vars, ToSend, Unsent
<1> QED
  BY <1>1, <1>2, <1>3, <1>4, <1>5

CheckedInv == LineInv /\ AwakeInv /\ SmartInv

\* So every step keeps the invariants of both, ...
LEMMA CheckedStep ==
  ASSUME CheckedInv, [SmartNext]_smartVars
  PROVE  CheckedInv' /\ LineStep
<1> USE DEF CheckedInv, LineInv, Inv
<1>1. SmartInv'
  BY SmartNextInv
<1>2. CASE [Next]_vars
  <2>1. LineInv' /\ AwakeInv' /\ LineStep
    BY <1>2, NextInv, DownStep, AwakeStep, LineSteps
  <2> QED
    BY <1>1, <2>1
<1>3. CASE Beside
  <2>1. LineInv' /\ AwakeInv' /\ UNCHANGED Promise!vars
    BY <1>3, BesideKeeps
  <2> QED
    BY <1>1, <2>1 DEF LineStep
<1> QED
  BY <1>2, <1>3, StepOrBeside

\* ... and so they hold for ever.
LEMMA CheckedInvariance == SmartSpec => []CheckedInv
<1>1. SmartInit => CheckedInv
  BY SmartInitInv, InitInv, DownInit, AwakeInit DEF SmartInit, CheckedInv, LineInv
<1>2. CheckedInv /\ [SmartNext]_smartVars => CheckedInv'
  BY CheckedStep
<1> QED
  BY <1>1, <1>2, PTL DEF SmartSpec

\* Once slip_close has freed the device no timer is queued and no callback waits in it,
\* for any packets, drivers and schedules.
THEOREM TimersDieFirst == SmartSpec => []NoTimerAfterFree
<1>1. CheckedInv => NoTimerAfterFree
  BY DEF CheckedInv, SmartInv, TimerInv, NoTimerAfterFree
<1> QED
  BY <1>1, CheckedInvariance, PTL

\* Keepalive checking goes on until the hangup it asks for.
THEOREM CheckingPersists == SmartSpec => []CheckingGoesOn
<1>1. CheckedInv => CheckingGoesOn
  BY DEF CheckedInv, SmartInv, TimerInv
<1> QED
  BY <1>1, CheckedInvariance, PTL

\* Although slip_unesc takes no lock, a line on which a frame has ended since the timer was
\* armed is hung up only when the frame came between the mod_timer and the set_bit of an
\* ioctl, or between the test_bit and the tty_hangup of sl_keepalive.
THEOREM HangupOnlyUnheard == SmartSpec => HangupJustified
<1>1. CheckedInv /\ [SmartNext]_smartVars
        => [dying' # dying => ~heard \/ overlooked]_smartVars
  <2> SUFFICES ASSUME CheckedInv, SmartNext, dying' # dying PROVE ~heard \/ overlooked
    OBVIOUS
  <2>1. CASE Transmit
    BY <2>1, TransmitKeeps DEF CheckedInv, LineInv, Inv, smart
  <2>2. CASE TtyHangup
    BY <2>2 DEF TtyHangup, Finish, CheckedInv, SmartInv, FlagInv, Excused
  <2> QED
    BY <2>1, <2>2 DEF SmartNext, RunCallback, EncapsEnds, OpenClearsFlags, ReceiveEnd,
         PeerFallsSilent, IoctlNoTty, SetPeriod, SetPeriodFlag, ClearPeriod, Expire,
         CallbackLeaves, CallbackWaits, Rearm, Keepalive, Outfill, OutfillTakes,
         SmartDetach, DelTimerSync, SmartUnregister, smart
<1> QED
  BY <1>1, CheckedInvariance, PTL DEF SmartSpec, HangupJustified

(***************************************************************************)
(* The END of sl_outfill: when it is given to the driver, nothing is left  *)
(* of the last frame, so that the byte that follows it begins another one. *)
(***************************************************************************)

\* An END lies between two frames, or before whatever is sent next.
Between(n) ==
  /\ n <= Len(wire)
  /\ 0 < n /\ n < Len(wire) => wire[n].frame # wire[n + 1].frame
  /\ 0 < n /\ n = Len(wire) /\ ToSend # << >> => wire[n].frame # ToSend[1].frame

EndsInv ==
  /\ ends \subseteq Nat
  /\ ~overtaken => \A n \in ends : Between(n)

\* A step of the line leaves an END between two frames where it is.
LEMMA LineKeepsBetween ==
  ASSUME LineInv, OrderInv, LineStep, NEW n \in Nat, Between(n)
  PROVE  Between(n)'
<1>1. /\ ToSend \in Seq(Token) /\ Len(ToSend) \in Nat
      /\ wire \in Seq(Token) /\ Len(wire) \in Nat /\ frames \in Nat
  <2>1. wire \in Seq(Token) /\ frames \in Nat
    BY BoundAssumption DEF LineInv, Inv, TypeOK
  <2> QED
    BY <2>1, ToSendType, LenProperties
<1>2. CASE UNCHANGED <<wire, ToSend>>
  BY <1>2 DEF Between
<1>3. ASSUME NEW p \in Packets, Overwrite(Encoded(p)) PROVE Between(n)'
  <2>1. wire' = wire /\ frames' = frames + 1 /\ ToSend' = Frame(frames', Encoded(p))
    BY <1>3 DEF Overwrite, Offered
  <2>2. ASSUME 0 < n, n = Len(wire), ToSend' # << >>
        PROVE  wire[n].frame # ToSend'[1].frame
    <3>1. n \in 1 .. Len(wire)
      BY <1>1, <2>2
    <3>2. wire[n].frame \in Nat /\ wire[n].frame <= frames
      <4>1. wire[n] \in Token
        BY <1>1, <3>1, ElementOfSeq
      <4> QED
        BY <3>1, <4>1 DEF OrderInv, WireBelow, Token
    <3>3. Encoded(p) \in Nat
      BY EncodedFits, PacketAssumption
    <3>4. 1 \in 1 .. Encoded(p)
      <4>1. CASE Encoded(p) = 0
        BY <2>1, <2>2, <4>1 DEF Frame
      <4> QED
        BY <3>3, <4>1
    <3>5. ToSend'[1].frame = frames + 1
      BY <2>1, <3>4 DEF Frame
    <3> QED
      BY <1>1, <3>2, <3>5
  <2> QED
    BY <2>1, <2>2 DEF Between
<1>4. CASE Promise!GiveUp
  BY <1>4 DEF Promise!GiveUp, Between
<1>5. ASSUME NEW k \in 1 .. Len(ToSend), Promise!Send(k) PROVE Between(n)'
  <2>1. /\ wire' = wire \o SubSeq(ToSend, 1, k)
        /\ ToSend' = SubSeq(ToSend, k + 1, Len(ToSend))
    BY <1>5 DEF Promise!Send
  <2>2. /\ Len(wire') = Len(wire) + k
        /\ \A i \in 1 .. Len(wire) : wire'[i] = wire[i]
        /\ \A i \in 1 .. k : wire'[Len(wire) + i] = ToSend[i]
    BY <1>1, <2>1, SendShape
  <2>3. n <= Len(wire) /\ n < Len(wire')
    BY <1>1, <2>2 DEF Between
  <2>4. ASSUME 0 < n PROVE wire'[n].frame # wire'[n + 1].frame
    <3>1. CASE n < Len(wire)
      <4>1. n \in 1 .. Len(wire) /\ n + 1 \in 1 .. Len(wire)
        BY <1>1, <2>4, <3>1
      <4>2. wire'[n] = wire[n] /\ wire'[n + 1] = wire[n + 1]
        BY <2>2, <4>1
      <4> QED
        BY <2>4, <3>1, <4>2 DEF Between
    <3>2. CASE n = Len(wire)
      <4>1. n \in 1 .. Len(wire) /\ 1 \in 1 .. k /\ ToSend # << >>
        BY <1>1, <2>4, <3>2
      <4>2. wire'[n] = wire[n] /\ wire'[n + 1] = ToSend[1]
        BY <2>2, <3>2, <4>1
      <4> QED
        BY <2>4, <3>2, <4>1, <4>2 DEF Between
    <3> QED
      BY <1>1, <2>3, <3>1, <3>2
  <2> QED
    BY <2>2, <2>3, <2>4 DEF Between
<1> QED
  BY <1>2, <1>3, <1>4, <1>5
  DEF LineStep, Promise!vars, Promise!Refuse, Promise!Advance

\* sl_outfill writes only when the queue is awake, and then the last frame has left.
LEMMA OutfillBetween ==
  ASSUME CheckedInv, Outfill, ~overtaken, NEW n \in ends', n \notin ends
  PROVE  n = Len(wire) /\ n \in Nat /\ Between(n)
<1> USE DEF CheckedInv, LineInv, Inv
<1>1. ~stopped /\ n = Len(wire) /\ lock = "free"
  BY DEF Outfill, OutfillTakes, Callback, PutEnd
<1>2. xleft = 0 /\ xmit = "idle" /\ work # "update"
  BY <1>1 DEF AwakeInv, LockInv
<1>3. ToSend = << >>
  BY <1>2, SubSeqEmpty DEF ToSend, Unsent, TypeOK
<1>4. Len(wire) \in Nat
  BY LenProperties DEF TypeOK
<1> QED
  BY <1>1, <1>3, <1>4 DEF Between

\* Every other step leaves the ENDs alone.
LEMMA EndsUnchanged ==
  ASSUME LockInv, [SmartNext]_smartVars, ~Outfill
  PROVE  ends' = ends
<1>1. CASE Transmit
  BY <1>1, TransmitKeeps DEF smart, watched
<1>2. CASE SmartNext /\ ~Transmit
  BY <1>2 DEF SmartNext, RunCallback, EncapsEnds, OpenClearsFlags, ReceiveEnd,
       PeerFallsSilent, IoctlNoTty, SetPeriod, SetPeriodFlag, ClearPeriod, Expire,
       CallbackLeaves, CallbackWaits, Rearm, Arm, Keepalive, TtyHangup, SmartDetach,
       DelTimerSync, SmartUnregister, smart, watched
<1>3. CASE UNCHANGED smartVars
  BY <1>3 DEF smartVars, smart, watched
<1> QED
  BY <1>1, <1>2, <1>3

\* Once sl_xmit has slipped in, it has for ever, also on a line that is checked.
LEMMA OvertakenStaysChecked ==
  ASSUME CheckedInv, [SmartNext]_smartVars, overtaken PROVE overtaken'
<1>1. CASE [Next]_vars
  BY <1>1, OvertakenStays
<1>2. CASE Beside
  BY <1>2 DEF Beside, races
<1> QED
  BY <1>1, <1>2, StepOrBeside DEF CheckedInv, LineInv, Inv

\* Every step keeps the ENDs between the frames.
LEMMA EndsStep ==
  ASSUME CheckedInv, OrderInv, EndsInv, [SmartNext]_smartVars
  PROVE  EndsInv'
<1>1. /\ LineStep
      /\ LineInv /\ LockInv
      /\ ~overtaken' => ~overtaken
  BY CheckedStep, OvertakenStaysChecked DEF CheckedInv, LineInv, Inv
<1>2. ASSUME NEW n \in ends PROVE n \in Nat /\ (~overtaken' => Between(n)')
  <2>1. n \in Nat
    BY DEF EndsInv
  <2>2. ASSUME ~overtaken' PROVE Between(n)
    BY <1>1, <2>2 DEF EndsInv
  <2> QED
    BY <1>1, <2>1, <2>2, LineKeepsBetween
<1>3. CASE Outfill
  <2>1. ASSUME NEW n \in ends', n \notin ends, ~overtaken' PROVE Between(n)'
    <3>1. n \in Nat /\ Between(n)
      BY <1>1, <1>3, <2>1, OutfillBetween
    <3> QED
      BY <1>1, <3>1, LineKeepsBetween
  <2>2. Len(wire) \in Nat
    BY LenProperties DEF CheckedInv, LineInv, Inv, TypeOK
  <2>3. ends' \subseteq Nat
    BY <1>3, <2>2 DEF Outfill, PutEnd, EndsInv
  <2> QED
    BY <1>2, <2>1, <2>3 DEF EndsInv
<1>4. CASE ~Outfill
  BY <1>1, <1>2, <1>4, EndsUnchanged DEF EndsInv
<1> QED
  BY <1>3, <1>4

\* For every driver and schedule an END that sl_outfill puts into the tty never lands inside
\* a frame, although only the queue's flag tells it of one, until sl_xmit slips in before
\* an sl_unlock of slip_transmit.
THEOREM OutfillApart == SmartSpec => []OutfillBetweenFrames
<1>1. SmartInit => OrderInv /\ EndsInv
  BY EmptyLine
  DEF SmartInit, OrderInv, RestInv, WireBelow, WireInOrder, Joined, EndsInv
<1>2. CheckedInv /\ CheckedInv' /\ OrderInv /\ EndsInv /\ [SmartNext]_smartVars
        => OrderInv' /\ EndsInv'
  BY CheckedStep, OrderStep, EndsStep DEF CheckedInv
<1>3. EndsInv => OutfillBetweenFrames
  BY DEF EndsInv, Between, OutfillBetweenFrames
<1> QED
  BY <1>1, <1>2, <1>3, CheckedInvariance, PTL DEF SmartSpec

=============================================================================

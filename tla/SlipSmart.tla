------------------------------ MODULE SlipSmart ------------------------------
(***************************************************************************)
(* Line checking of a SLIP channel (CONFIG_SLIP_SMART of slip/slip.c) on   *)
(* top of its transmit half: the keepalive timer hangs up a line on which  *)
(* no frame has arrived for a period, the outfill timer writes an END when *)
(* no packet has left for one.  Both callbacks run under sl->lock and arm  *)
(* themselves again; two ioctls set the periods; slip_close removes the    *)
(* timers before the device goes.  Time is abstract: an armed timer may    *)
(* expire at any moment, and its callback may have to wait for the lock.   *)
(* What sl->lock does not cover may happen between two accesses of its     *)
(* holder to the flags and the timers: a frame may end, sl_open may run.   *)
(***************************************************************************)
EXTENDS SlipTx, FiniteSets

CONSTANT MaxIoctls   \* bound: calls of SIOCSKEEPALIVE and SIOCSOUTFILL

ASSUME IoctlAssumption == MaxIoctls \in Nat

Timers == {"keepalive", "outfill"}

VARIABLES
  on,          \* sl->keepalive # 0 and sl->outfill # 0
  armed,       \* the timer is queued
  running,     \* the timer has expired and its callback has not returned
  flag,        \* SLF_KEEPTEST and SLF_OUTWAIT: nothing has been seen in this period
  step,        \* what the holder of sl->lock has yet to do about a timer: "none", "rearm"
               \* (mod_timer), "hangup" (tty_hangup) or "period" (set_bit of an ioctl)
  dying,       \* tty_hangup has been called and the tty layer has yet to call slip_close
  deleted,     \* timers on which slip_close has called del_timer_sync
  heard,       \* history: a frame has ended since the keepalive timer was last armed
  overlooked,  \* history: one did after that mod_timer of an ioctl and before its set_bit,
               \* or after sl_keepalive had tested the bit
  silent,      \* history: the other end has fallen silent for good
  ends,        \* history: where sl_outfill has put ENDs, as lengths of wire at that moment
  ioctls       \* counted against MaxIoctls

timers  == <<on, armed, running, flag, step, deleted>>
watched == <<heard, overlooked, silent, ends>>
smart   == <<timers, dying, watched, ioctls>>
smartVars == <<vars, smart>>

\* Everything of SlipTx but the lock.
unlocked == <<admin, stopped, wakeup, xmit, work, pending, actual, buffer, driver, stats,
              races, bounds>>

SmartInit ==
  /\ Init
  /\ on = [t \in Timers |-> FALSE] /\ armed = [t \in Timers |-> FALSE]
  /\ running = [t \in Timers |-> FALSE] /\ flag = [t \in Timers |-> FALSE]
  /\ step = [t \in Timers |-> "none"]
  /\ dying = FALSE /\ deleted = {}
  /\ heard = FALSE /\ overlooked = FALSE /\ silent = FALSE /\ ends = {}
  /\ ioctls = 0

-----------------------------------------------------------------------------
(* What the transmit half does to the flags.                               *)

\* Everything of SlipTx that line checking does not touch.
Transmit ==
  /\ \/ XmitFree \/ (\E p \in Packets : XmitOversize(p) \/ XmitEncode(p)) \/ XmitWrite
     \/ Work \/ Drain \/ Wakeup \/ Timeout \/ TimeoutOops
     \/ DevClose \/ SlClose \/ (\E m \in Mtus : ChangeMtu(m)) \/ FlushWork
  /\ UNCHANGED smart

\* The end of sl_encaps: a packet has left, so no outfill is due.
EncapsEnds ==
  /\ XmitFinish
  /\ flag' = [flag EXCEPT !["outfill"] = FALSE]
  /\ UNCHANGED <<on, armed, running, step, deleted, dying, watched, ioctls>>

\* sl->flags &= (1 << SLF_INUSE)
OpenClearsFlags ==
  /\ SlOpen
  /\ flag' = IF tty THEN [t \in Timers |-> FALSE] ELSE flag
  /\ UNCHANGED <<on, armed, running, step, deleted, dying, watched, ioctls>>

\* A frame that nobody will notice any more in this period.
Overlooked == step["keepalive"] \in {"period", "hangup"}

\* Mutation of ReceiveEnd: the flag survives the frame.
ReceiveEndForgets ==
  /\ ~silent /\ life = "open" /\ link = "up"
  /\ heard' = TRUE /\ overlooked' = (overlooked \/ Overlooked)
  /\ UNCHANGED <<vars, timers, dying, silent, ends, ioctls>>

\* slip_unesc meets an END: a frame has come in.  No lock is taken, and
\* slip_receive_buf drops everything while the interface is down.
ReceiveEnd ==
  /\ ~silent /\ life = "open" /\ link = "up"
  /\ flag' = [flag EXCEPT !["keepalive"] = FALSE]
  /\ heard' = TRUE /\ overlooked' = (overlooked \/ Overlooked)
  /\ UNCHANGED <<vars, on, armed, running, step, deleted, dying, silent, ends, ioctls>>

PeerFallsSilent ==
  /\ ~silent
  /\ silent' = TRUE
  /\ UNCHANGED <<vars, timers, dying, heard, overlooked, ends, ioctls>>

-----------------------------------------------------------------------------
(* sl->lock and the timers.                                                *)

\* The holder of the lock goes on to another step of its own.
Take(t, s) ==
  /\ lock = "free" /\ lock' = "smart"
  /\ step' = [step EXCEPT ![t] = s]
  /\ UNCHANGED unlocked

Finish(t, s) ==
  /\ step[t] = s /\ lock' = "free"
  /\ step' = [step EXCEPT ![t] = "none"]
  /\ UNCHANGED unlocked

\* mod_timer: a new period begins.
Arm(t) ==
  /\ armed' = [armed EXCEPT ![t] = TRUE]
  /\ heard' = (heard /\ t # "keepalive")
  /\ overlooked' = (overlooked /\ t # "keepalive")
  /\ UNCHANGED <<silent, ends>>

-----------------------------------------------------------------------------
(* SIOCSKEEPALIVE and SIOCSOUTFILL, through slip_ioctl or sl_ioctl.         *)

Ioctl ==
  /\ ioctls < MaxIoctls
  /\ lock = "free" /\ life # "gone"
  /\ ioctls' = ioctls + 1

IoctlNoTty ==
  /\ Ioctl
  /\ ~tty
  /\ UNCHANGED <<vars, timers, dying, watched>>

\* A new period: mod_timer, ...
SetPeriod(t) ==
  /\ Ioctl
  /\ tty
  /\ on' = [on EXCEPT ![t] = TRUE]
  /\ Arm(t)
  /\ Take(t, "period")
  /\ UNCHANGED <<running, flag, deleted, dying>>

\* ... and the flag as if the first half of the period had passed in silence.
SetPeriodFlag(t) ==
  /\ Finish(t, "period")
  /\ flag' = [flag EXCEPT ![t] = TRUE]
  /\ UNCHANGED <<on, armed, running, deleted, dying, watched, ioctls>>

\* Period zero: del_timer, which does not wait for a running callback.
ClearPeriod(t) ==
  /\ Ioctl
  /\ tty
  /\ on' = [on EXCEPT ![t] = FALSE]
  /\ armed' = [armed EXCEPT ![t] = FALSE]
  /\ UNCHANGED <<vars, running, flag, step, deleted, dying, watched>>

-----------------------------------------------------------------------------
(* The timers.                                                             *)

\* The kernel never runs the callback of one timer twice at a time.
Expire(t) ==
  /\ armed[t] /\ ~running[t]
  /\ armed' = [armed EXCEPT ![t] = FALSE]
  /\ running' = [running EXCEPT ![t] = TRUE]
  /\ UNCHANGED <<vars, on, flag, step, deleted, dying, watched, ioctls>>

\* The callback waits for the lock.
Callback(t) == running[t] /\ lock = "free"

\* slip_close was faster, or the period has become zero: not armed again.
CallbackLeaves(t) ==
  /\ Callback(t)
  /\ ~tty \/ ~on[t]
  /\ running' = [running EXCEPT ![t] = FALSE]
  /\ UNCHANGED <<vars, on, armed, flag, step, deleted, dying, watched, ioctls>>

\* Mutation of CallbackWaits: the flag is set but the timer is not armed again.
CallbackWaitsOnce(t) ==
  /\ Callback(t)
  /\ tty /\ on[t] /\ ~flag[t]
  /\ flag' = [flag EXCEPT ![t] = TRUE]
  /\ running' = [running EXCEPT ![t] = FALSE]
  /\ UNCHANGED <<vars, on, armed, step, deleted, dying, watched, ioctls>>

\* The flag was cleared in this period: set it and wait for another one.
CallbackWaits(t) ==
  /\ Callback(t)
  /\ tty /\ on[t] /\ ~flag[t]
  /\ flag' = [flag EXCEPT ![t] = TRUE]
  /\ Take(t, "rearm")
  /\ UNCHANGED <<on, armed, running, deleted, dying, watched, ioctls>>

\* mod_timer at the end of both callbacks.
Rearm(t) ==
  /\ Finish(t, "rearm")
  /\ Arm(t)
  /\ running' = [running EXCEPT ![t] = FALSE]
  /\ UNCHANGED <<on, flag, deleted, dying, ioctls>>

\* sl_keepalive: nothing came in.
Keepalive ==
  /\ Callback("keepalive")
  /\ tty /\ on["keepalive"] /\ flag["keepalive"]
  /\ armed' = [armed EXCEPT !["outfill"] = @ /\ ~on["outfill"]]
  /\ Take("keepalive", "hangup")
  /\ UNCHANGED <<on, running, flag, deleted, dying, watched, ioctls>>

\* Mutation of TtyHangup: prints its message but does not call tty_hangup.
TtyHangupOnlyWarns ==
  /\ Finish("keepalive", "hangup")
  /\ running' = [running EXCEPT !["keepalive"] = FALSE]
  /\ UNCHANGED <<on, armed, flag, deleted, dying, watched, ioctls>>

\* tty_hangup, which only schedules the hangup.
TtyHangup ==
  /\ Finish("keepalive", "hangup")
  /\ dying' = TRUE
  /\ running' = [running EXCEPT !["keepalive"] = FALSE]
  /\ UNCHANGED <<on, armed, flag, deleted, watched, ioctls>>

\* The driver takes an END when it has room.
PutEnd ==
  /\ fifo' = Lesser(fifo + 1, Room)
  /\ ends' = IF fifo < Room THEN ends \cup {Len(wire)} ELSE ends

OutfillTakes ==
  /\ Callback("outfill")
  /\ tty /\ on["outfill"] /\ flag["outfill"]
  /\ lock' = "smart" /\ step' = [step EXCEPT !["outfill"] = "rearm"]
  /\ UNCHANGED <<admin, stopped, wakeup, xmit, work, pending, actual, buffer, irq, waker,
                 wire, stats, races, bounds>>
  /\ UNCHANGED <<on, armed, running, flag, deleted, dying, heard, overlooked, silent, ioctls>>

\* Mutation of Outfill: does not ask whether a packet is under way.
OutfillUnasked ==
  /\ OutfillTakes
  /\ PutEnd

\* sl_outfill: no packet went out.  "If device busy no outfill."
Outfill ==
  /\ OutfillTakes
  /\ IF stopped THEN UNCHANGED <<fifo, ends>> ELSE PutEnd

-----------------------------------------------------------------------------
(* slip_close.                                                             *)

SmartDetach ==
  /\ Detach
  /\ UNCHANGED smart

\* Mutation of DelTimerSync: del_timer, which does not wait for the callback.
DelTimerOnly(t) ==
  /\ life = "flushed" /\ t \notin deleted
  /\ t = "outfill" => "keepalive" \in deleted
  /\ deleted' = deleted \cup {t}
  /\ armed' = [armed EXCEPT ![t] = FALSE]
  /\ UNCHANGED <<vars, on, running, flag, step, dying, watched, ioctls>>

\* del_timer_sync of the keepalive timer, then of the outfill timer: each waits for a
\* callback that is running.
DelTimerSync(t) ==
  /\ life = "flushed" /\ t \notin deleted
  /\ t = "outfill" => "keepalive" \in deleted
  /\ ~running[t]
  /\ deleted' = deleted \cup {t}
  /\ armed' = [armed EXCEPT ![t] = FALSE]
  /\ UNCHANGED <<vars, on, running, flag, step, dying, watched, ioctls>>

\* unregister_netdev downs the device only after both timers are gone.
SmartUnregister ==
  /\ deleted = Timers
  /\ Unregister
  /\ UNCHANGED smart

-----------------------------------------------------------------------------
RunCallback(t) == CallbackLeaves(t) \/ CallbackWaits(t)

SmartNext ==
  \/ Transmit \/ EncapsEnds \/ OpenClearsFlags \/ ReceiveEnd \/ PeerFallsSilent
  \/ IoctlNoTty
  \/ \E t \in Timers : SetPeriod(t) \/ SetPeriodFlag(t) \/ ClearPeriod(t) \/ Expire(t)
                         \/ RunCallback(t) \/ Rearm(t) \/ DelTimerSync(t)
  \/ Keepalive \/ TtyHangup \/ Outfill
  \/ SmartDetach \/ SmartUnregister
  \/ (Rest /\ UNCHANGED smart)

SmartSpec == SmartInit /\ [][SmartNext]_smartVars

\* As in SlipTx, and: an armed timer expires, del_timer_sync returns, and the tty layer
\* carries out a hangup it was asked for.  A callback and slip_close get sl->lock in the
\* end although the other callback takes it again and again: spinlocks are queued.
SmartFairness ==
  /\ WF_smartVars(Work /\ UNCHANGED smart) /\ WF_smartVars(Wakeup /\ UNCHANGED smart)
  /\ WF_smartVars(XmitWrite /\ UNCHANGED smart) /\ WF_smartVars(EncapsEnds)
  /\ SF_smartVars(SlClose /\ UNCHANGED smart)
  /\ WF_smartVars(life = "flushed" /\ DevClose /\ UNCHANGED smart)
  /\ WF_smartVars(FlushWork /\ UNCHANGED smart)
  /\ WF_smartVars(SmartUnregister)
  /\ SF_smartVars(dying /\ SmartDetach)
  /\ \A t \in Timers :
       /\ WF_smartVars(Expire(t))
       /\ SF_smartVars(RunCallback(t))
       /\ WF_smartVars(Rearm(t)) /\ WF_smartVars(SetPeriodFlag(t))
       /\ WF_smartVars(DelTimerSync(t))
  /\ SF_smartVars(Keepalive) /\ WF_smartVars(TtyHangup) /\ SF_smartVars(Outfill)

SmartFairSpec == SmartSpec /\ SmartFairness

-----------------------------------------------------------------------------
(* Properties.                                                             *)

\* "Very important to remove timers": once the device is freed no timer is queued and no
\* callback is waiting for the lock inside it, although each callback arms itself again
\* and an ioctl may arrive in the middle of slip_close.
NoTimerAfterFree ==
  life = "gone" => \A t \in Timers : ~armed[t] /\ ~running[t]

\* Line checking once switched on does not stop by itself: its timer is queued, or its
\* callback is about to queue it, until the hangup it asked for, through every race of
\* the callback with del_timer and mod_timer.
CheckingGoesOn ==
  on["keepalive"] /\ life = "open" =>
    armed["keepalive"] \/ running["keepalive"] \/ dying

\* The message of sl_keepalive, "no packets received during keepalive timeout, hangup": a
\* line on which a frame ended since the timer was last armed is hung up only when that frame
\* came in one of the two gaps: between mod_timer and set_bit of an ioctl, or between
\* test_bit and tty_hangup.
HangupJustified == [][dying' # dying => ~heard \/ overlooked]_smartVars

\* An END of sl_outfill never lands inside a frame, although it asks only whether the queue
\* is stopped, until sl_xmit has slipped in before an sl_unlock.
OutfillBetweenFrames ==
  ~overtaken =>
    \A n \in ends :
      0 < n /\ n < Len(wire) => wire[n].frame # wire[n + 1].frame

\* When the other end falls silent the channel is hung up, closed and freed, unless
\* keepalive is switched off or the watchdog has killed the machine.
SilenceEndsChannel ==
  silent /\ on["keepalive"] ~> life = "gone" \/ ~on["keepalive"] \/ lock = "oops"

=============================================================================

------------------------------- MODULE SlipRx -------------------------------
(***************************************************************************)
(* The receive half of one SLIP channel (slip/slip.c).  A peer sends       *)
(* encoded packets over a line with noise; the tty layer hands blocks of   *)
(* received bytes to slip_receive_buf, which decodes them into rbuff WITHOUT*)
(* taking sl->lock.  sl_realloc_bufs, sl_close and slip_ioctl change the   *)
(* buffer, the count and the mode beside it, so a byte is received in two  *)
(* steps: the check against buffsize, and the store.                       *)
(***************************************************************************)
EXTENDS SlipCodec, FiniteSets, FiniteSetsExt

CONSTANTS
  Packets,      \* packets the peer may send
  Encodings,    \* the encodings the peer may use: TRUE is printable SLIP
  NoiseBytes,   \* values noise may put on the line
  BufSizes,     \* sl->buffsize for each MTU the administrator may ask for
  MaxSent,      \* bound: packets sent
  MaxOnLine,    \* bound: bytes on the line before the peer sends another packet
  Slack,        \* 4 in the code: bytes allocated beyond sl->buffsize
  Troubles,     \* what may happen: "noise", "resize", "close", "mode"
  MaxTroubles   \* bound: how often it happens

ASSUME RxAssumption ==
  /\ Packets \subseteq Seq(Byte)
  /\ Encodings \subseteq BOOLEAN
  /\ NoiseBytes \subseteq Byte
  /\ BufSizes \subseteq Nat \ {0} /\ BufSizes # {} /\ IsFiniteSet(BufSizes)
  /\ {Slack, MaxSent, MaxOnLine, MaxTroubles} \subseteq Nat
  /\ Troubles \subseteq {"noise", "resize", "close", "mode"}

VARIABLES
  slip6,      \* the encoding the peer uses
  sent,       \* history: the packets the peer has sent
  line,       \* bytes on their way: [s, bad, frame]; bad is the tty's error mark *fp
  block,      \* bytes left in the running call of slip_receive_buf
  pc,         \* "idle", "store" (slip_unesc found room), "bump" (sl_bump has its count)
  byte, idx, ptr,   \* locals of slip_unesc: the byte, rcount and rbuff as it read them
  bufs,       \* the two allocations rbuff may point to
  cur,        \* which of them sl->rbuff points to
  rcount, buffsize,
  dec,        \* SLF_ESCAPE, xbits, xdata
  error,      \* SLF_ERROR
  mode6,      \* sl->mode & SL_MODE_SLIP6
  running,    \* netif_running(sl->dev)
  resize,     \* sl_realloc_bufs: "idle", "swapped", "copied"
  size,       \* local len of sl_realloc_bufs
  up,         \* history: what sl_bump gave to netif_rx
  last,       \* history: frame of the last data byte received
  touched,    \* history: frames that noise or an administrator has interfered with
  overlap,    \* history: a byte was received while the buffer was being exchanged
  outside,    \* history: an access to rbuff was outside a live allocation
  troubles    \* counted against the bound

decoder == <<bufs, cur, rcount, buffsize, dec, error, mode6>>
locals  == <<pc, byte, idx, ptr>>
resizer == <<resize, size>>
ghosts  == <<up, last, touched>>
strays  == <<overlap, outside>>
vars    == <<slip6, sent, line, block, locals, decoder, running, resizer, ghosts, strays,
             troubles>>

\* One of the things the environment does to a channel.
Trouble(kind) == kind \in Troubles /\ troubles < MaxTroubles /\ troubles' = troubles + 1

\* Freshly allocated memory.
Junk(n) == [i \in 1 .. n + Slack |-> -1]

Init ==
  /\ slip6 \in Encodings /\ mode6 = slip6
  /\ sent = << >> /\ line = << >> /\ block = 0
  /\ pc = "idle" /\ byte = 0 /\ idx = 0 /\ ptr = 0
  /\ buffsize \in BufSizes
  /\ bufs = [b \in {0, 1} |-> Junk(buffsize)] /\ cur = 0
  /\ rcount = 0
  /\ dec = NewDecoder /\ error = FALSE
  /\ running = TRUE
  /\ resize = "idle" /\ size = 0
  /\ up = << >> /\ last = 0 /\ touched = {}
  /\ overlap = FALSE /\ outside = FALSE
  /\ troubles = 0

-----------------------------------------------------------------------------
(* The peer and the line.                                                  *)

Send(p) ==
  /\ Len(sent) < MaxSent /\ Len(line) <= MaxOnLine
  /\ sent' = Append(sent, p)
  /\ LET f == Encode(slip6, p)
     IN  line' = line \o [i \in DOMAIN f |->
                            [s |-> f[i], bad |-> FALSE, frame |-> Len(sent')]]
  /\ UNCHANGED <<slip6, block, locals, decoder, running, resizer, ghosts, strays, troubles>>

\* Noise changes a byte, marks it as bad, loses it, or makes one up.
Noise(i) ==
  /\ Trouble("noise") /\ block = 0
  /\ touched' = touched \cup {line[i].frame}
  /\ \/ \E s \in NoiseBytes \ {line[i].s} : line' = [line EXCEPT ![i].s = s]
     \/ line' = [line EXCEPT ![i].bad = TRUE]
     \/ line' = RemoveAt(line, i)
     \/ \E s \in NoiseBytes : line' = InsertAt(line, i, [s |-> s, bad |-> FALSE, frame |-> 0])
  /\ UNCHANGED <<slip6, sent, block, locals, decoder, running, resizer, up, last, strays>>

-----------------------------------------------------------------------------
(* The tty layer: slip_receive_buf, slip_unesc, slip_unesc6, sl_bump.      *)

\* The interface is checked once for a block; the bytes of a block refused are lost.
Deliver(n) ==
  /\ block = 0 /\ pc = "idle" /\ n <= Len(line)
  /\ IF running
       THEN block' = n /\ UNCHANGED <<line, touched>>
       ELSE /\ line' = SubSeq(line, n + 1, Len(line))
            /\ touched' = touched \cup {line[i].frame : i \in 1 .. n}
            /\ UNCHANGED block
  /\ UNCHANGED <<slip6, sent, locals, decoder, running, resizer, up, last, strays, troubles>>

\* Bytes received while somebody resizes the buffer, or in the wrong mode, or after the
\* interface went down, belong to frames that are interfered with.
Interfered == resize # "idle" \/ mode6 # slip6 \/ ~running

Consume ==
  /\ pc = "idle" /\ block > 0
  /\ block' = block - 1
  /\ line' = Tail(line)
  /\ touched' = touched \cup IF Interfered THEN {Head(line).frame} ELSE {}
  /\ overlap' = (overlap \/ resize # "idle")
  /\ UNCHANGED <<slip6, sent, bufs, cur, buffsize, mode6, running, resizer, up, outside,
                 troubles>>

Meet == Decode(mode6, dec, Head(line).s)

\* The tty marks the byte: the rest of the frame is ignored.
TakeBad ==
  /\ Consume
  /\ Head(line).bad
  /\ error' = TRUE
  /\ UNCHANGED <<locals, rcount, dec, last>>

\* An escape, half a byte of printable SLIP, or a character that is not part of it.
TakeNone ==
  /\ Consume
  /\ ~Head(line).bad /\ Meet.kind = "none"
  /\ dec' = Meet.dec
  /\ UNCHANGED <<locals, rcount, error, last>>

\* Mutation of TakeData: room for one byte more than sl->buffsize.
TakeDataOneMore ==
  /\ Consume
  /\ ~Head(line).bad /\ Meet.kind = "data"
  /\ dec' = Meet.dec
  /\ last' = Head(line).frame
  /\ IF ~error /\ rcount <= buffsize
       THEN /\ pc' = "store" /\ byte' = Meet.byte /\ idx' = rcount /\ ptr' = cur
            /\ UNCHANGED error
       ELSE error' = TRUE /\ UNCHANGED locals
  /\ UNCHANGED rcount

\* A data byte: ignored after an error, an error itself if the buffer is full.
TakeData ==
  /\ Consume
  /\ ~Head(line).bad /\ Meet.kind = "data"
  /\ dec' = Meet.dec
  /\ last' = Head(line).frame
  /\ IF ~error /\ rcount < buffsize
       THEN /\ pc' = "store" /\ byte' = Meet.byte /\ idx' = rcount /\ ptr' = cur
            /\ UNCHANGED error
       ELSE error' = TRUE /\ UNCHANGED locals
  /\ UNCHANGED rcount

\* sl_realloc_bufs frees the old buffer when it is done.
Live(b) == b = cur \/ resize # "idle"

\* The first n bytes of a buffer are its own.
Within(b, n) == Live(b) /\ 1 .. n \subseteq DOMAIN bufs[b]

\* sl->rbuff[sl->rcount++] = s, with the count read by the check and the pointer read then
\* or now.  A store that misses the allocation writes to memory of somebody else.
Store ==
  /\ pc = "store"
  /\ pc' = "idle"
  /\ \E b \in {ptr, cur} :
       /\ bufs' = IF idx + 1 \in DOMAIN bufs[b] THEN [bufs EXCEPT ![b][idx + 1] = byte]
                                               ELSE bufs
       /\ outside' = (outside \/ ~Within(b, idx + 1))
  /\ rcount' = idx + 1
  /\ UNCHANGED <<slip6, sent, line, block, byte, idx, ptr, cur, buffsize, dec, error, mode6,
                 running, resizer, ghosts, overlap, troubles>>

\* Mutation of TakeEnd: the count starts over only after a good frame.
TakeEndKeepsCount ==
  /\ Consume
  /\ ~Head(line).bad /\ Meet.kind = "end"
  /\ dec' = Meet.dec
  /\ error' = FALSE
  /\ IF ~error /\ rcount > 2
       THEN pc' = "bump" /\ idx' = rcount /\ UNCHANGED <<byte, ptr>>
       ELSE UNCHANGED locals
  /\ UNCHANGED <<last, rcount>>

\* END: sl_bump for a good frame, then the receiver starts over.
TakeEnd ==
  /\ Consume
  /\ ~Head(line).bad /\ Meet.kind = "end"
  /\ dec' = Meet.dec
  /\ error' = FALSE
  /\ IF ~error /\ rcount > 2
       THEN pc' = "bump" /\ idx' = rcount /\ UNCHANGED <<byte, ptr, rcount>>
       ELSE rcount' = 0 /\ UNCHANGED locals
  /\ UNCHANGED last

\* What is found at place i of buffer b: anything at all beyond the allocation, so a value
\* that no byte has.
Cell(b, i) == IF i \in DOMAIN bufs[b] THEN bufs[b][i] ELSE -1

\* What reading the first n bytes at rbuff gives.
Read(n) == [i \in 1 .. n |-> Cell(cur, i)]

\* sl_bump copies `count` bytes of rbuff into an skb and passes it on.
Bump ==
  /\ pc = "bump"
  /\ pc' = "idle" /\ rcount' = 0
  /\ up' = Append(up, [frame |-> last, data |-> Read(idx)])
  /\ outside' = (outside \/ ~Within(cur, idx))
  /\ UNCHANGED <<slip6, sent, line, block, byte, idx, ptr, bufs, cur, buffsize, dec, error, mode6,
                 running, resizer, last, touched, overlap, troubles>>

\* dev_alloc_skb fails: the packet is dropped.
BumpDrop ==
  /\ pc = "bump" /\ Trouble("noise")
  /\ pc' = "idle" /\ rcount' = 0
  /\ touched' = touched \cup {last}
  /\ UNCHANGED <<slip6, sent, line, block, byte, idx, ptr, bufs, cur, buffsize, dec, error, mode6,
                 running, resizer, up, last, strays>>

-----------------------------------------------------------------------------
(* The administrator, under the RTNL.                                      *)

\* Frames of which some bytes have been received and some have not.
InProgress ==
  {f \in 1 .. Len(sent) :
     LET left == Cardinality({i \in DOMAIN line : line[i].frame = f})
     IN  /\ left > 0 \/ (pc # "idle" /\ last = f)
         /\ left < Len(Encode(slip6, sent[f]))}

\* Administration is serialised, and it interferes with the frames in progress.
Interfere == resize = "idle" /\ touched' = touched \cup InProgress

\* sl_realloc_bufs: rbuff = xchg(&sl->rbuff, rbuff), ...
ResizeSwap(n) ==
  /\ Interfere
  /\ Trouble("resize")
  /\ resize' = "swapped" /\ size' = n
  /\ cur' = 1 - cur
  /\ bufs' = [bufs EXCEPT ![1 - cur] = Junk(n)]
  /\ overlap' = (overlap \/ pc # "idle")
  /\ UNCHANGED <<slip6, sent, line, block, locals, rcount, buffsize, dec, error, mode6, running,
                 up, last, outside>>

\* Mutation of ResizeCopy: copies without asking whether the bytes fit.
ResizeCopyUnasked ==
  /\ resize = "swapped"
  /\ resize' = "copied"
  /\ bufs' = [bufs EXCEPT ![cur] = [i \in DOMAIN @ |->
                IF i <= rcount THEN Cell(1 - cur, i) ELSE @[i]]]
  /\ outside' = (outside \/ ~Within(1 - cur, rcount) \/ ~Within(cur, rcount))
  /\ UNCHANGED <<rcount, error>>
  /\ UNCHANGED <<slip6, sent, line, block, locals, cur, buffsize, dec, mode6, running, size,
                 ghosts, overlap, troubles>>

\* ... the copy of what the old buffer holds, or SLF_ERROR if it does not fit, ...
ResizeCopy ==
  /\ resize = "swapped"
  /\ resize' = "copied"
  /\ IF rcount <= size
       THEN /\ bufs' = [bufs EXCEPT ![cur] = [i \in DOMAIN @ |->
                          IF i <= rcount THEN Cell(1 - cur, i) ELSE @[i]]]
            /\ outside' = (outside \/ ~Within(1 - cur, rcount))
            /\ UNCHANGED <<rcount, error>>
       ELSE rcount' = 0 /\ error' = TRUE /\ UNCHANGED <<bufs, outside>>
  /\ UNCHANGED <<slip6, sent, line, block, locals, cur, buffsize, dec, mode6, running, size,
                 ghosts, overlap, troubles>>

\* ... and sl->buffsize = len.
ResizeEnd ==
  /\ resize = "copied"
  /\ resize' = "idle" /\ buffsize' = size
  /\ UNCHANGED <<slip6, sent, line, block, locals, bufs, cur, rcount, dec, error, mode6, running,
                 size, ghosts, strays, troubles>>

\* netif_running goes off and sl_close resets rcount.
SlClose ==
  /\ running /\ Interfere
  /\ Trouble("close")
  /\ running' = FALSE
  /\ rcount' = 0
  /\ UNCHANGED <<slip6, sent, line, block, locals, bufs, cur, buffsize, dec, error, mode6, resizer,
                 up, last, strays>>

\* sl_open keeps only SLF_INUSE of the flags.
SlOpen ==
  /\ ~running /\ Interfere
  /\ running' = TRUE
  /\ error' = FALSE /\ dec' = [dec EXCEPT !.esc = FALSE]
  /\ UNCHANGED <<slip6, sent, line, block, locals, bufs, cur, rcount, buffsize, mode6, resizer,
                 up, last, strays, troubles>>

\* SIOCSIFENCAP: sl->mode changes, nothing else; to change it back is free.
SetMode(m) ==
  /\ Interfere
  /\ IF m = slip6 THEN UNCHANGED troubles ELSE Trouble("mode")
  /\ mode6 # m /\ mode6' = m
  /\ UNCHANGED <<slip6, sent, line, block, locals, bufs, cur, rcount, buffsize, dec, error,
                 running, resizer, up, last, strays>>

-----------------------------------------------------------------------------
Quiet == line = << >> /\ pc = "idle" /\ resize = "idle"

Rest == Quiet /\ Len(sent) = MaxSent /\ UNCHANGED vars

Receive == TakeBad \/ TakeNone \/ TakeData \/ TakeEnd \/ Store
             \/ Bump \/ BumpDrop
Resize  == (\E n \in BufSizes : ResizeSwap(n)) \/ ResizeCopy \/ ResizeEnd
Admin   == Resize \/ SlClose \/ SlOpen \/ (\E m \in BOOLEAN : SetMode(m))

Next == (\E p \in Packets : Send(p)) \/ (\E i \in DOMAIN line : Noise(i))
          \/ (\E n \in 1 .. Len(line) : Deliver(n)) \/ Receive \/ Admin \/ Rest

Spec == Init /\ [][Next]_vars

-----------------------------------------------------------------------------
(* Properties.                                                             *)

\* Every variable keeps its type.
TypeOK ==
  /\ sent \in Seq(Packets)
  /\ \A i \in DOMAIN line : line[i] \in [s : Byte, bad : BOOLEAN, frame : 0 .. Len(sent)]
  /\ block \in 0 .. Len(line)
  /\ pc \in {"idle", "store", "bump"}
  /\ byte \in Byte /\ idx \in 0 .. Max(BufSizes) /\ ptr \in {0, 1}
  /\ cur \in {0, 1} /\ rcount \in 0 .. Max(BufSizes) /\ buffsize \in BufSizes
  /\ dec.esc \in BOOLEAN /\ dec.xbits \in {0, 2, 4, 6} /\ dec.xdata \in 0 .. XdataSize - 1
  /\ error \in BOOLEAN /\ mode6 \in BOOLEAN /\ running \in BOOLEAN
  /\ resize \in {"idle", "swapped", "copied"} /\ size \in BufSizes \cup {0}
  /\ last \in 0 .. Len(sent) /\ touched \subseteq 0 .. Len(sent)
  /\ overlap \in BOOLEAN /\ outside \in BOOLEAN

\* The buffer in use is never overrun: although slip_unesc takes no lock, every store, the
\* copy of sl_realloc_bufs and that of sl_bump stay within a live allocation, and the count
\* within sl->buffsize, through any series of resizes, as long as no byte is received
\* between the exchange of rbuff and the assignment of buffsize.
StaysInside == ~overlap => ~outside /\ rcount <= buffsize

\* Only packets that were sent are handed up, unchanged, in order and once.  The history
\* of slip.c promises it for a running device whose buffers are reallocated.
DeliveredIsSent ==
  \A i \in DOMAIN up :
    /\ up[i].frame \in DOMAIN sent /\ up[i].data = sent[up[i].frame]
    /\ \A j \in 1 .. i - 1 : up[j].frame < up[i].frame

\* Frames that must get through: nobody interfered, and every buffer is large enough.
Owed == {f \in DOMAIN sent : /\ f \notin touched
                             /\ Deliverable(sent[f]) /\ Len(sent[f]) <= Min(BufSizes)}

\* Damage stays where it was done: noise, a buffer exchange under way, a close or a wrong
\* mode may cost the frames they overlap, but every other frame is handed up intact and in
\* order, because its leading END starts the receiver over.
UntouchedDelivered ==
  /\ Quiet => \A f \in Owed : \E i \in DOMAIN up : up[i] = [frame |-> f, data |-> sent[f]]
  /\ \A i \in DOMAIN up : up[i].frame \in Owed =>
       /\ up[i].data = sent[up[i].frame]
       /\ \A j \in 1 .. i - 1 : up[j].frame \in Owed => up[j].frame < up[i].frame

=============================================================================

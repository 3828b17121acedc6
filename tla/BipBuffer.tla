----------------------------- MODULE BipBuffer -----------------------------
(***************************************************************************)
(* One direction of the socket pairs adb emulates on Windows               *)
(* (sysdeps_win32.c): a circular buffer of two regions, the thread that    *)
(* writes to it and closes its end, and the one that reads, which is       *)
(* either a thread or main in its event loop.  Both may close.             *)
(***************************************************************************)
EXTENDS Integers, Sequences

CONSTANTS
  BufferSize,   \* BIP_BUFFER_SIZE
  MaxBytes,     \* bound on the bytes written
  MaxLen,       \* the longest write
  Payload       \* what main reads at most before it goes back to its loop

ASSUME BipAssumption == {BufferSize, MaxBytes, MaxLen, Payload} \subseteq Nat \ {0}

Ends == {"writer", "reader"}

VARIABLES
  a_start, a_end, b_end, buff,   \* the regions: A is a_start .. a_end, B is 0 .. b_end
  can_write, can_read,
  evt_write, evt_read,           \* whether these events are set
  closed,
  step,      \* where each end is: run, test (between lock and wait), sleep, close, drop,
             \* dropped or gone
  todo,      \* bytes of the call the writer is in
  avail,     \* what main still takes in this callback; 0 when it waits for an event
  inLoop,    \* whether the reader is main
  sent,      \* bytes written so far; they are numbered
  got,       \* bytes read
  failed,    \* whether the reader was told EPIPE
  used, seen, freed,  \* pair->used, what each end read of it, how often it was freed
  fills      \* history: how often the writer put bytes in

indexVars == <<a_start, a_end, b_end, buff, can_write, can_read>>
closeVars == <<closed, used, seen, freed>>
readerVars == <<avail, got, failed>>
bipVars == <<indexVars, evt_write, evt_read, closeVars, step, todo, inLoop, sent, fills,
             readerVars>>

Slots == 0 .. BufferSize - 1
Least(m, n) == IF m < n THEN m ELSE n
At(e, s) == step[e] = s
Goes(e, s) == step' = [step EXCEPT ![e] = s]

BipInit ==
  /\ a_start = 0 /\ a_end = 0 /\ b_end = 0 /\ buff = [k \in Slots |-> 0]
  /\ can_write = TRUE /\ can_read = FALSE /\ evt_write = TRUE /\ evt_read = FALSE
  /\ closed = FALSE /\ step = [e \in Ends |-> "run"] /\ todo = 0
  /\ inLoop \in BOOLEAN /\ avail = 0 /\ sent = 0 /\ got = <<>> /\ failed = FALSE
  /\ used = 2 /\ seen = [e \in Ends |-> 0] /\ freed = 0 /\ fills = 0

-----------------------------------------------------------------------------
\* bip_buffer_write, under the lock.

\* What goes to each region of `len` bytes; region A first, B when A is at the end.
ToA(len) == Least(BufferSize - a_end, len)
\* Mutant: that A reaches the end is taken for a full buffer.
FillsAtEnd(len) == a_end < BufferSize /\ a_end + ToA(len) = BufferSize
FillsAll(len) == a_start = 0 /\ a_end < BufferSize /\ a_end + ToA(len) = BufferSize
ToB(len) == IF FillsAll(len) THEN 0 ELSE Least(a_start - b_end, len - ToA(len))

Fill(len) ==
  LET n == ToA(len)  m == ToB(len)
  IN /\ a_end' = a_end + n /\ b_end' = b_end + m
     /\ buff' = [k \in Slots |->
          CASE k \in a_end .. a_end + n - 1 -> sent + 1 + (k - a_end)
            [] k \in b_end .. b_end + m - 1 -> sent + n + 1 + (k - b_end)
            [] OTHER -> buff[k]]
     /\ can_write' = ~ (FillsAll(len) \/ (m > 0 /\ b_end' = a_start))
     /\ evt_write' = (evt_write /\ can_write')
     /\ can_read' = TRUE /\ evt_read' = (evt_read \/ ~ can_read)
     /\ sent' = sent + n + m /\ todo' = len - (n + m) /\ fills' = fills + 1
     /\ UNCHANGED a_start

\* A call of writex begins, or goes on with what the last write left.
Write ==
  /\ At("writer", "run") /\ can_write
  /\ \E len \in 1 .. MaxLen :
       /\ IF todo > 0 THEN len = todo ELSE sent + len <= MaxBytes
       /\ Fill(len)
  /\ UNCHANGED <<closeVars, step, inLoop, readerVars>>

\* No room: the lock is left, closed is looked at, the event waited for, closed is
\* looked at again.
WriteWaits ==
  /\ At("writer", "run") /\ ~ can_write /\ sent < MaxBytes
  /\ Goes("writer", "test")
  /\ UNCHANGED <<indexVars, evt_write, evt_read, closeVars, todo, inLoop, sent, fills, readerVars>>

WriteTests ==
  /\ At("writer", "test")
  /\ Goes("writer", IF closed THEN "close" ELSE "sleep")
  /\ UNCHANGED <<indexVars, evt_write, evt_read, closeVars, todo, inLoop, sent, fills, readerVars>>

WriteWakes ==
  /\ At("writer", "sleep") /\ evt_write
  /\ Goes("writer", IF closed THEN "close" ELSE "run")
  /\ UNCHANGED <<indexVars, evt_write, evt_read, closeVars, todo, inLoop, sent, fills, readerVars>>

-----------------------------------------------------------------------------
\* bip_buffer_read, under the lock.

FromA(len) == Least(a_end - a_start, len)
EmptiesA(len) == FromA(len) = a_end - a_start
FromB(len) == IF EmptiesA(len) THEN Least(b_end, len - FromA(len)) ELSE 0
\* Mutant: dst is not moved past the bytes of A.
TakenOver(len) ==
  [k \in 1 .. FromA(len) + FromB(len) |->
     IF k <= FromB(len) THEN buff[k - 1] ELSE IF k <= FromA(len) THEN buff[a_start + k - 1] ELSE 0]
Taken(len) == [k \in 1 .. FromA(len) |-> buff[a_start + k - 1]]
                \o [k \in 1 .. FromB(len) |-> buff[k - 1]]

Drain(len) ==
  LET m == FromB(len)
      empty == EmptiesA(len) /\ m = b_end
  IN /\ got' = got \o Taken(len)
     /\ a_start' = IF ~ EmptiesA(len) THEN a_start + FromA(len) ELSE IF empty THEN 0 ELSE m
     /\ a_end' = IF ~ EmptiesA(len) THEN a_end ELSE IF empty THEN 0 ELSE b_end
     /\ b_end' = IF EmptiesA(len) THEN 0 ELSE b_end
     /\ can_read' = ~ empty /\ evt_read' = (evt_read /\ ~ empty)
     /\ can_write' = TRUE /\ evt_write' = (evt_write \/ ~ can_write)
     /\ UNCHANGED buff

\* A thread reads as much as there is; main, in its callback, until it has a payload.
Read ==
  /\ At("reader", "run") /\ can_read /\ (inLoop => avail > 0)
  /\ LET len == IF inLoop THEN avail ELSE Payload
     IN /\ Drain(len)
        /\ avail' = IF inLoop THEN avail - Len(Taken(len)) ELSE avail
  /\ UNCHANGED <<closeVars, step, todo, inLoop, sent, fills, failed>>

ReadWaits ==
  /\ At("reader", "run") /\ ~ can_read /\ (inLoop => avail > 0)
  /\ Goes("reader", "test")
  /\ UNCHANGED <<indexVars, evt_write, evt_read, closeVars, todo, inLoop, sent, fills, readerVars>>

ReadFails ==
  Goes("reader", "close") /\ failed' = TRUE

ReadTests ==
  /\ At("reader", "test")
  /\ IF closed THEN ReadFails ELSE Goes("reader", "sleep") /\ UNCHANGED failed
  /\ UNCHANGED <<indexVars, evt_write, evt_read, closeVars, todo, inLoop, sent, fills, avail, got>>

ReadWakes ==
  /\ At("reader", "sleep") /\ evt_read
  /\ IF closed THEN ReadFails ELSE Goes("reader", "run") /\ UNCHANGED failed
  /\ UNCHANGED <<indexVars, evt_write, evt_read, closeVars, todo, inLoop, sent, fills, avail, got>>

\* main, in fdevent_process: the pair can be read now, or its event is waited for.
LoopSignals ==
  /\ inLoop /\ At("reader", "run") /\ avail = 0
  /\ can_read \/ evt_read
  /\ avail' = Payload
  /\ UNCHANGED <<indexVars, evt_write, evt_read, closeVars, step, todo, inLoop, sent, fills, got,
                 failed>>

-----------------------------------------------------------------------------
\* _fh_socketpair_close of either end, outside the lock.

Close(e) ==
  /\ \/ At(e, "close")
     \/ At(e, "run") /\ e = "writer" /\ todo = 0
     \/ At(e, "run") /\ e = "reader" /\ (inLoop => avail = 0)
  /\ closed' = TRUE
  /\ Goes(e, "wakeReader")
  /\ UNCHANGED <<indexVars, evt_write, evt_read, used, seen, freed, todo, inLoop, sent, fills,
                 readerVars>>

CloseWakesReader(e) ==
  /\ At(e, "wakeReader")
  /\ evt_read' = (evt_read \/ ~ can_read)
  /\ Goes(e, "wakeWriter")
  /\ UNCHANGED <<indexVars, evt_write, closeVars, todo, inLoop, sent, fills, readerVars>>

CloseWakesWriter(e) ==
  /\ At(e, "wakeWriter")
  /\ evt_write' = (evt_write \/ ~ can_write)
  /\ Goes(e, "drop")
  /\ UNCHANGED <<indexVars, evt_read, closeVars, todo, inLoop, sent, fills, readerVars>>

\* --pair->used is a load and a store; no lock is held.
DropLoads(e) ==
  /\ At(e, "drop")
  /\ seen' = [seen EXCEPT ![e] = used]
  /\ Goes(e, "dropped")
  /\ UNCHANGED <<indexVars, evt_write, evt_read, closed, used, freed, todo, inLoop, sent, fills,
                 readerVars>>

DropStores(e) ==
  /\ At(e, "dropped")
  /\ used' = seen[e] - 1
  /\ freed' = IF used' = 0 THEN freed + 1 ELSE freed
  /\ Goes(e, "gone")
  /\ UNCHANGED <<indexVars, evt_write, evt_read, closed, seen, todo, inLoop, sent, fills,
                 readerVars>>

CloseStep(e) == CloseWakesReader(e) \/ CloseWakesWriter(e) \/ DropLoads(e) \/ DropStores(e)
WriterStep == Write \/ WriteWaits \/ WriteTests \/ WriteWakes \/ CloseStep("writer")
                \/ (At("writer", "close") /\ Close("writer"))
ReaderStep == Read \/ ReadWaits \/ ReadTests \/ ReadWakes \/ LoopSignals \/ CloseStep("reader")
                \/ (At("reader", "close") /\ Close("reader"))
BipNext == WriterStep \/ ReaderStep \/ \E e \in Ends : Close(e)

BipSpec == BipInit /\ [][BipNext]_bipVars

-----------------------------------------------------------------------------
Content == [k \in 1 .. a_end - a_start |-> buff[a_start + k - 1]]
             \o [k \in 1 .. b_end |-> buff[k - 1]]

BipTypeOK ==
  /\ a_start \in 0 .. BufferSize /\ a_end \in 0 .. BufferSize /\ b_end \in 0 .. BufferSize
  /\ buff \in [Slots -> Nat] /\ sent \in Nat /\ todo \in Nat
  /\ {can_write, can_read, evt_write, evt_read, closed, inLoop, failed} \subseteq BOOLEAN
  /\ step \in [Ends -> {"run", "test", "sleep", "close", "wakeReader", "wakeWriter", "drop",
                        "dropped", "gone"}]
  /\ avail \in 0 .. Payload /\ got \in Seq(Nat)
  /\ used \in Nat /\ freed \in Nat /\ fills \in Nat /\ seen \in [Ends -> Nat]

\* The regions do not meet, B is only used when A reaches the end, and an empty buffer
\* begins at 0 (the comment before BIP_BUFFER_SIZE).
Regions ==
  /\ a_start <= a_end /\ b_end <= a_start
  /\ b_end > 0 => a_end = BufferSize
  /\ a_start = a_end => a_start = 0

\* can_read and can_write are what the regions say, which the two assertions rely on:
\* there is something to read when there is, and room when b_end < a_start or
\* a_end < BIP_BUFFER_SIZE.
FlagsRight ==
  /\ can_read <=> a_start < a_end
  /\ can_write <=> b_end < a_start \/ a_end < BufferSize

\* Every byte is read once and in order, and what is on the way fits the buffer.
Bytes == INSTANCE ByteQueue WITH Room <- BufferSize, queue <- Content, received <- got
ImplementsQueue == Bytes!Spec

\* What a service wrote in one go before it closed is read whole by main, before it is
\* told of the close (bip_buffer_read; a second write may be lost, as a reader that waits
\* looks at closed before it looks at what there is).
OneWriteWhole == inLoop /\ failed /\ fills <= 1 => Len(got) = sent

\* The pair is freed once at most, and by the last to leave it (_fh_socketpair_close).
FreedByLast == freed <= 1 /\ (freed = 1 => \A e \in Ends : step[e] \in {"dropped", "gone"})

\* A writer that waits for room goes on: the reader makes room or closes.
WritersWoken == step["writer"] \in {"test", "sleep"} ~> step["writer"] \notin {"test", "sleep"}

\* After a close the reader ends too, unless it is main and had just read a whole payload,
\* and with it the last byte: the event that the close would have set is then reset by
\* that reading (bip_buffer_close sets it only when there is nothing to read).
Missed ==
  /\ inLoop /\ At("reader", "run") /\ avail = 0 /\ ~ can_read /\ ~ evt_read
  /\ step["writer"] \in {"drop", "dropped", "gone"}
ReadersTold == closed ~> (step["reader"] = "gone" \/ Missed)

\* A socket pair (sysdeps_win32.c): its regions and flags agree with what it holds, main reads
\* one write whole before it is told of the close, and the last to leave frees it.
PairCorrect == BipTypeOK /\ Regions /\ FlagsRight /\ OneWriteWhole /\ FreedByLast
=============================================================================

------------------------------ MODULE UsbLinux ------------------------------
(***************************************************************************)
(* The devices a Linux host serves over usbfs (usb_linux.c): the thread    *)
(* that polls /dev/bus/usb, the list of open devices, and for each the two *)
(* threads of its transport, of which the reader also collects what the    *)
(* writer submitted.                                                       *)
(***************************************************************************)
EXTENDS Integers

CONSTANTS
  Devices,
  ReadOnly,    \* those that can only be opened to read
  Lengths,     \* bytes of a usb_write
  MaxXfer,     \* the longest transfer, 4096
  PacketSize,  \* wMaxPacketSize
  TimedOut,    \* ETIMEDOUT
  MaxPlugs, MaxWrites   \* bounds on the devices plugged in and on the calls of usb_write

ASSUME UsbAssumption ==
  /\ ReadOnly \subseteq Devices /\ "free" \notin Devices
  /\ {MaxXfer, PacketSize, TimedOut} \subseteq Nat \ {0} /\ Lengths \subseteq Nat \ {0}
  /\ TimedOut < MaxXfer
  /\ MaxPlugs \in Nat /\ MaxWrites \in Nat

VARIABLES
  plugged,
  stayed,                  \* history: plugged in since before the scan began
  poll,                    \* the polling thread: start, scan, kick or unregister
  todo,                    \* the devices its loop has yet to come to
  usbLock, transportLock,  \* who has usb_lock and transport_lock
  inList, mark, dead,      \* whether the handle is in handle_list, and two of its fields
  urb_in, urb_out,         \* none, pending, or done and to be reaped
  statusIn, statusOut,     \* urb->status: unset, ok or error
  urb_out_busy,
  reader, writer,          \* the threads of the transport
  length, left, took,      \* a usb_write: its length, what is left of it, what the device took
  returned,                \* what the last one returned
  plugs, writes            \* history: counted for the bounds

deviceVars == <<plugged, stayed, plugs>>
pollVars == <<poll, todo>>
lockVars == <<usbLock, transportLock>>
inVars == <<urb_in, statusIn>>
outVars == <<urb_out, statusOut, urb_out_busy>>
writeVars == <<length, left, took, returned, writes>>
threadVars == <<reader, writer>>
usbVars == <<deviceVars, pollVars, lockVars, inList, mark, dead, inVars, outVars, threadVars,
             writeVars>>

Free == "free"
Set(f, d, v) == [f EXCEPT ![d] = v]
Shorter(m, n) == IF m < n THEN m ELSE n
Xfer(d) == Shorter(left[d], MaxXfer)

UsbInit ==
  /\ plugged = [d \in Devices |-> FALSE]
  /\ stayed = [d \in Devices |-> FALSE] /\ plugs = 0
  /\ poll = "start" /\ todo = {} /\ usbLock = Free /\ transportLock = Free
  /\ inList = [d \in Devices |-> FALSE] /\ mark = [d \in Devices |-> FALSE]
  /\ dead = [d \in Devices |-> FALSE]
  /\ urb_in = [d \in Devices |-> "none"] /\ urb_out = [d \in Devices |-> "none"]
  /\ statusIn = [d \in Devices |-> "unset"] /\ statusOut = [d \in Devices |-> "unset"]
  /\ urb_out_busy = [d \in Devices |-> FALSE]
  /\ reader = [d \in Devices |-> "none"] /\ writer = [d \in Devices |-> "none"]
  /\ length = [d \in Devices |-> 0] /\ left = [d \in Devices |-> 0]
  /\ took = [d \in Devices |-> 0] /\ returned = [d \in Devices |-> "none"] /\ writes = 0

-----------------------------------------------------------------------------
\* The devices.  A name is not given again while the device is open; a scan may or may not
\* meet one that comes while it runs.

Plug(d) ==
  /\ ~ plugged[d] /\ ~ inList[d] /\ plugs < MaxPlugs
  /\ plugged' = Set(plugged, d, TRUE) /\ plugs' = plugs + 1
  /\ todo' = todo \/ (poll = "scan" /\ todo' = todo \cup {d})
  /\ UNCHANGED <<stayed, poll, lockVars, inList, mark, dead, inVars, outVars, threadVars,
                 writeVars>>

\* What was submitted ends in an error.
Unplug(d) ==
  /\ plugged[d]
  /\ plugged' = Set(plugged, d, FALSE) /\ stayed' = Set(stayed, d, FALSE)
  /\ IF urb_in[d] = "pending"
       THEN urb_in' = Set(urb_in, d, "done") /\ statusIn' = Set(statusIn, d, "error")
       ELSE UNCHANGED inVars
  /\ IF urb_out[d] = "pending"
       THEN urb_out' = Set(urb_out, d, "done") /\ statusOut' = Set(statusOut, d, "error")
       ELSE UNCHANGED <<urb_out, statusOut>>
  /\ UNCHANGED <<plugs, pollVars, lockVars, inList, mark, dead, urb_out_busy, threadVars,
                 writeVars>>

DeviceSends(d) ==
  /\ plugged[d] /\ urb_in[d] = "pending"
  /\ urb_in' = Set(urb_in, d, "done")
  /\ \E s \in {"ok", "error"} : statusIn' = Set(statusIn, d, s)
  /\ UNCHANGED <<deviceVars, pollVars, lockVars, inList, mark, dead, outVars, threadVars,
                 writeVars>>

DeviceTakes(d) ==
  /\ plugged[d] /\ urb_out[d] = "pending"
  /\ urb_out' = Set(urb_out, d, "done")
  /\ \E s \in {"ok", "error"} :
       /\ statusOut' = Set(statusOut, d, s)
       /\ took' = IF s = "ok" THEN Set(took, d, took[d] + Xfer(d)) ELSE took
  /\ UNCHANGED <<deviceVars, pollVars, lockVars, inList, mark, dead, inVars, urb_out_busy,
                 threadVars,
                 length, left, returned, writes>>

-----------------------------------------------------------------------------
\* usb_kick of a device that can be written to; DISCARDURB makes REAPURB return.
Discarded(u) == IF u = "pending" THEN "done" ELSE u
Kick(d) ==
  IF dead[d] THEN UNCHANGED <<dead, inVars, outVars>> ELSE
  /\ dead' = Set(dead, d, TRUE)
  /\ urb_in' = Set(urb_in, d, Discarded(urb_in[d]))
  /\ urb_out' = Set(urb_out, d, Discarded(urb_out[d]))
  /\ statusIn' = Set(statusIn, d, "error") /\ statusOut' = Set(statusOut, d, "error")
  /\ urb_out_busy' = Set(urb_out_busy, d, FALSE)

\* main kicks the transport.
HostKicks(d) ==
  /\ inList[d] /\ d \notin ReadOnly /\ ~ dead[d] /\ reader[d] \notin {"leaves", "gone"}
  /\ Kick(d)
  /\ UNCHANGED <<deviceVars, pollVars, lockVars, inList, mark, threadVars, writeVars>>

-----------------------------------------------------------------------------
\* device_poll_thread: find_usb_device, then kick_disconnected_devices.

ScanBegins ==
  /\ poll = "start"
  /\ poll' = "scan" /\ todo' = {d \in Devices : plugged[d]} /\ stayed' = plugged
  /\ UNCHANGED <<plugged, plugs, lockVars, inList, mark, dead, inVars, outVars, threadVars,
                 writeVars>>

Marks(d) ==
  /\ inList[d]
  /\ mark' = Set(mark, d, TRUE)
  /\ UNCHANGED <<inList, dead, inVars, outVars, threadVars>>

\* register_device and register_usb_transport; one that can only be read gets no threads.
RegistersHandle(d) ==
  /\ ~ inList[d]
  /\ inList' = Set(inList, d, TRUE) /\ mark' = Set(mark, d, TRUE) /\ dead' = Set(dead, d, FALSE)
  /\ reader' = Set(reader, d, IF d \notin ReadOnly THEN "idle" ELSE "none")
  /\ writer' = Set(writer, d, IF d \notin ReadOnly THEN "idle" ELSE "none")
  /\ UNCHANGED <<inVars, outVars>>

\* A device in the directory; one that was unplugged can no longer be opened.
Finds(d) ==
  /\ poll = "scan" /\ d \in todo /\ plugged[d] /\ usbLock = Free
  /\ Marks(d) \/ RegistersHandle(d)
  /\ todo' = todo \ {d}
  /\ UNCHANGED <<deviceVars, poll, lockVars, writeVars>>

ScanEnds ==
  /\ poll = "scan" /\ usbLock = Free /\ \A d \in todo : ~ plugged[d]
  /\ poll' = "kick" /\ usbLock' = "poll" /\ todo' = {d \in Devices : inList[d]}
  /\ UNCHANGED <<deviceVars, transportLock, inList, mark, dead, inVars, outVars, threadVars,
                 writeVars>>

Unmarks(d) ==
  /\ poll = "kick" /\ d \in todo /\ mark[d]
  /\ mark' = Set(mark, d, FALSE) /\ todo' = todo \ {d}
  /\ UNCHANGED <<deviceVars, poll, lockVars, inList, dead, inVars, outVars, threadVars, writeVars>>

KicksGone(d) ==
  /\ poll = "kick" /\ d \in todo /\ ~ mark[d] /\ (d \notin ReadOnly \/ dead[d])
  /\ Kick(d) /\ todo' = todo \ {d}
  /\ UNCHANGED <<deviceVars, poll, lockVars, inList, mark, threadVars, writeVars>>

\* The transport of one that can only be read is taken off the list, under transport_lock.
KicksReadOnly(d) ==
  /\ poll = "kick" /\ d \in todo /\ ~ mark[d] /\ d \in ReadOnly /\ ~ dead[d]
  /\ dead' = Set(dead, d, TRUE) /\ todo' = todo \ {d}
  /\ poll' = "unregister"
  /\ UNCHANGED <<deviceVars, lockVars, inList, mark, inVars, outVars, threadVars, writeVars>>

Unregisters ==
  /\ poll = "unregister" /\ transportLock = Free
  /\ poll' = "kick"
  /\ UNCHANGED <<deviceVars, todo, lockVars, inList, mark, dead, inVars, outVars, threadVars,
                 writeVars>>

KicksEnd ==
  /\ poll = "kick" /\ todo = {}
  /\ poll' = "start" /\ usbLock' = Free
  /\ UNCHANGED <<deviceVars, todo, transportLock, inList, mark, dead, inVars, outVars, threadVars,
                 writeVars>>

PollStep ==
  \/ ScanBegins \/ ScanEnds \/ Unregisters \/ KicksEnd
  \/ \E d \in Devices : Finds(d) \/ Unmarks(d) \/ KicksGone(d) \/ KicksReadOnly(d)

-----------------------------------------------------------------------------
\* output_thread: usb_bulk_read again and again; it also reaps what the writer submitted.

ReadSubmits(d) ==
  /\ reader[d] = "idle"
  /\ IF ~ dead[d] /\ plugged[d]
       THEN reader' = Set(reader, d, "reaping") /\ urb_in' = Set(urb_in, d, "pending")
       ELSE reader' = Set(reader, d, "failed") /\ UNCHANGED urb_in
  /\ UNCHANGED <<deviceVars, pollVars, lockVars, inList, mark, dead, statusIn, outVars, writer,
                 writeVars>>

ReapsIn(d) ==
  /\ reader[d] = "reaping" /\ urb_in[d] = "done"
  /\ urb_in' = Set(urb_in, d, "none") /\ statusIn' = Set(statusIn, d, "unset")
  /\ reader' = Set(reader, d, IF ~ dead[d] /\ statusIn[d] = "ok" THEN "idle" ELSE "failed")
  /\ UNCHANGED <<deviceVars, pollVars, lockVars, inList, mark, dead, outVars, writer, writeVars>>

\* Mutant: the writer is not told.
ReapsOutQuietly(d) ==
  /\ reader[d] = "reaping" /\ urb_out[d] = "done"
  /\ urb_out' = Set(urb_out, d, "none")
  /\ reader' = IF dead[d] THEN Set(reader, d, "failed") ELSE reader
  /\ UNCHANGED <<deviceVars, pollVars, lockVars, inList, mark, dead, inVars, statusOut,
                 urb_out_busy,
                 writer, writeVars>>

ReapsOut(d) ==
  /\ reader[d] = "reaping" /\ urb_out[d] = "done"
  /\ urb_out' = Set(urb_out, d, "none")
  /\ IF dead[d]
       THEN reader' = Set(reader, d, "failed") /\ UNCHANGED urb_out_busy
       ELSE urb_out_busy' = Set(urb_out_busy, d, FALSE) /\ UNCHANGED reader
  /\ UNCHANGED <<deviceVars, pollVars, lockVars, inList, mark, dead, inVars, statusOut, writer,
                 writeVars>>

\* output_thread ends: kick_transport, then transport_unref.
ReaderLeaves(d) ==
  /\ reader[d] = "failed"
  /\ Kick(d)
  /\ reader' = Set(reader, d, "leaves")
  /\ UNCHANGED <<deviceVars, pollVars, lockVars, inList, mark, writer, writeVars>>

-----------------------------------------------------------------------------
\* input_thread: usb_write of what main sends, a transfer at a time.

WriteBegins(d) ==
  /\ writer[d] = "idle" /\ reader[d] \notin {"leaves", "gone"} /\ writes < MaxWrites
  /\ \E len \in Lengths : length' = Set(length, d, len) /\ left' = Set(left, d, len)
  /\ took' = Set(took, d, 0) /\ returned' = Set(returned, d, "none") /\ writes' = writes + 1
  /\ writer' = Set(writer, d, "submits")
  /\ UNCHANGED <<deviceVars, pollVars, lockVars, inList, mark, dead, inVars, outVars, reader>>

\* usb_bulk_write returned n; after the last transfer a multiple of the packet size is
\* followed by an empty one, whose result is that of usb_write.
NeedsZero(d) == length[d] % PacketSize = 0
Returns(d, n) ==
  LET rest == left[d] - Xfer(d)
  IN IF n # Xfer(d)
       THEN /\ writer' = Set(writer, d, "idle") /\ returned' = Set(returned, d, "failed")
            /\ UNCHANGED left
       ELSE /\ left' = Set(left, d, rest)
            /\ IF Xfer(d) > 0 /\ (rest > 0 \/ NeedsZero(d))
                 THEN writer' = Set(writer, d, "submits") /\ UNCHANGED returned
                 ELSE writer' = Set(writer, d, "idle") /\ returned' = Set(returned, d, "ok")

WriteSubmits(d) ==
  /\ writer[d] = "submits"
  /\ IF ~ dead[d] /\ plugged[d]
       THEN /\ urb_out' = Set(urb_out, d, "pending") /\ statusOut' = Set(statusOut, d, "unset")
            /\ urb_out_busy' = Set(urb_out_busy, d, TRUE) /\ writer' = Set(writer, d, "waits")
            /\ UNCHANGED <<left, returned>>
       ELSE Returns(d, -1) /\ UNCHANGED outVars
  /\ UNCHANGED <<deviceVars, pollVars, lockVars, inList, mark, dead, inVars, reader, length, took,
                 writes>>

\* pthread_cond_timedwait returned 0 or ETIMEDOUT, neither of which is below 0: the wait
\* ends only when the handle is dead or the transfer was reaped.
WaitReturns(d) ==
  /\ writer[d] = "waits" /\ (dead[d] \/ ~ urb_out_busy[d])
  /\ \E res \in {0, TimedOut} :
       Returns(d, IF ~ dead[d] /\ statusOut[d] = "ok" THEN Xfer(d) ELSE res)
  /\ UNCHANGED <<deviceVars, pollVars, lockVars, inList, mark, dead, inVars, outVars, reader,
                 length, took, writes>>

\* input_thread ends when main tells it the transport is offline.
WriterLeaves(d) ==
  /\ writer[d] = "idle" /\ reader[d] \in {"leaves", "gone"}
  /\ Kick(d)
  /\ writer' = Set(writer, d, "leaves")
  /\ UNCHANGED <<deviceVars, pollVars, lockVars, inList, mark, reader, writeVars>>

-----------------------------------------------------------------------------
\* transport_unref by either thread, under transport_lock; the last closes the handle,
\* which takes usb_lock.

FirstUnrefs(d) ==
  /\ transportLock = Free
  /\ \/ reader[d] = "leaves" /\ writer[d] # "gone"
        /\ reader' = Set(reader, d, "gone") /\ UNCHANGED writer
     \/ writer[d] = "leaves" /\ reader[d] # "gone"
        /\ writer' = Set(writer, d, "gone") /\ UNCHANGED reader
  /\ UNCHANGED <<deviceVars, pollVars, lockVars, inList, mark, dead, inVars, outVars, writeVars>>

LastUnrefs(d) ==
  /\ transportLock = Free
  /\ {reader[d], writer[d]} = {"leaves", "gone"}
  /\ transportLock' = d
  /\ UNCHANGED <<deviceVars, pollVars, usbLock, inList, mark, dead, inVars, outVars, threadVars,
                 writeVars>>

Closes(d) ==
  /\ transportLock = d /\ usbLock = Free
  /\ inList' = Set(inList, d, FALSE) /\ transportLock' = Free
  /\ reader' = Set(reader, d, "none") /\ writer' = Set(writer, d, "none")
  /\ mark' = Set(mark, d, FALSE) /\ dead' = Set(dead, d, FALSE)
  /\ urb_in' = Set(urb_in, d, "none") /\ urb_out' = Set(urb_out, d, "none")
  /\ statusIn' = Set(statusIn, d, "unset") /\ statusOut' = Set(statusOut, d, "unset")
  /\ length' = Set(length, d, 0) /\ left' = Set(left, d, 0) /\ took' = Set(took, d, 0)
  /\ returned' = Set(returned, d, "none")
  /\ UNCHANGED <<deviceVars, pollVars, usbLock, urb_out_busy, writes>>

ReaderStep(d) == ReadSubmits(d) \/ ReapsIn(d) \/ ReapsOut(d) \/ ReaderLeaves(d)
WriterStep(d) == WriteSubmits(d) \/ WaitReturns(d) \/ WriterLeaves(d)
TransportStep(d) == FirstUnrefs(d) \/ LastUnrefs(d) \/ Closes(d)

UsbNext ==
  \/ PollStep
  \/ \E d \in Devices :
       \/ Plug(d) \/ Unplug(d) \/ DeviceSends(d) \/ DeviceTakes(d) \/ HostKicks(d) \/ WriteBegins(d)
       \/ ReaderStep(d) \/ WriterStep(d) \/ TransportStep(d)

-----------------------------------------------------------------------------
\* Threads go on.  Who waits for a lock gets it in the end, as the polling thread sleeps a
\* second without it; usbfs gives what was done back in order, so that a transfer of the
\* writer is not passed over for ever.  Devices need not take or send anything.
UsbFairness ==
  /\ WF_usbVars(PollStep)
  /\ (\A d \in Devices :
        /\ WF_usbVars(ReaderStep(d)) /\ WF_usbVars(WriterStep(d))
        /\ SF_usbVars(TransportStep(d)) /\ SF_usbVars(ReapsOut(d)))

UsbSpec == UsbInit /\ [][UsbNext]_usbVars /\ UsbFairness

-----------------------------------------------------------------------------
UsbTypeOK ==
  /\ {plugged, stayed, inList, mark, dead, urb_out_busy} \subseteq [Devices -> BOOLEAN]
  /\ poll \in {"start", "scan", "kick", "unregister"} /\ todo \subseteq Devices
  /\ usbLock \in {Free, "poll"} /\ transportLock \in Devices \cup {Free}
  /\ {urb_in, urb_out} \subseteq [Devices -> {"none", "pending", "done"}]
  /\ {statusIn, statusOut} \subseteq [Devices -> {"unset", "ok", "error"}]
  /\ reader \in [Devices -> {"none", "idle", "reaping", "failed", "leaves", "gone"}]
  /\ writer \in [Devices -> {"none", "idle", "submits", "waits", "leaves", "gone"}]
  /\ returned \in [Devices -> {"none", "ok", "failed"}]
  /\ \A d \in Devices : left[d] \in 0 .. length[d] /\ took[d] \in 0 .. length[d]
  /\ plugs \in 0 .. MaxPlugs /\ writes \in 0 .. MaxWrites

\* A write that succeeded was taken whole by the device, but for a transfer of ETIMEDOUT
\* bytes, the very number a failed one returns when the wait had timed out (usb_bulk_write).
Confused(d) == length[d] % MaxXfer = TimedOut
WrittenWasTaken ==
  \A d \in Devices : returned[d] = "ok" /\ ~ Confused(d) => took[d] = length[d]

\* The polling thread kicks no device that has been there since before its scan
\* (known_device, register_device and kick_disconnected_devices, through mark).
KickedByPoll(d) == poll = "kick" /\ d \in todo /\ d \notin todo' /\ ~ dead[d] /\ dead'[d]
KicksOnlyGone == [][\A d \in Devices : KickedByPoll(d) => ~ stayed[d]]_usbVars

\* A handle is closed when both threads have left it (transport_unref, usb_close).
ClosedUnused ==
  \A d \in Devices : transportLock = d => {reader[d], writer[d]} = {"leaves", "gone"}

\* The polling thread has usb_lock and waits for transport_lock, for a device it can only
\* read; the one who has that closes another device and waits for usb_lock.
Circular == poll = "unregister" /\ transportLock # Free

\* A device that can be written to and is gone is closed, whatever its threads were doing
\* (usb_kick, usb_bulk_read, usb_bulk_write).
GoneIsClosed ==
  \A d \in Devices \ ReadOnly : (inList[d] /\ ~ plugged[d]) ~> (~ inList[d] \/ Circular)

\* One that is plugged in is served, also again after its transport failed.
Served(d) == reader[d] \in {"idle", "reaping"}
PluggedIsServed ==
  \A d \in Devices \ ReadOnly : plugged[d] ~> (Served(d) \/ ~ plugged[d] \/ Circular)

\* A writer whose transfer the device took goes on (the reader wakes it).
TakenIsTold ==
  \A d \in Devices \ ReadOnly : (writer[d] = "waits" /\ urb_out[d] = "done") ~> writer[d] # "waits"

\* USB devices on Linux (usb_linux.c): what a write reports was taken, a handle is closed once
\* nobody uses it, and devices come and go as they are plugged.
UsbCorrect ==
  /\ []UsbTypeOK /\ []WrittenWasTaken /\ []ClosedUnused
  /\ KicksOnlyGone /\ GoneIsClosed /\ PluggedIsServed /\ TakenIsTold
=============================================================================

----------------------------- MODULE UsbWindows -----------------------------
(***************************************************************************)
(* The devices a Windows host serves over AdbWinApi (usb_windows.c): the   *)
(* thread that looks for interfaces every second, the list of handles, and *)
(* the threads of each transport, which kick the handle when they find it  *)
(* disconnected.  A kicked handle has no name and no pipes, and stays in   *)
(* the list until it is closed.                                            *)
(***************************************************************************)
EXTENDS Naturals

CONSTANTS
  Interfaces,  \* names of interfaces
  MaxHandles   \* bound on the handles opened

ASSUME WindowsAssumption == MaxHandles \in Nat \ {0}

WinHandles == 1 .. MaxHandles
NoInterface == "none"
ASSUME InterfaceAssumption == NoInterface \notin Interfaces

VARIABLES
  present,      \* the interfaces there are
  enum,         \* those the loop of find_devices has yet to come to
  opened,       \* how many handles were opened
  opening,      \* the handle find_devices has open and not registered, or 0
  of,           \* the interface a handle was opened on
  live,         \* whether that was not pulled out since
  linked,       \* whether it is in handle_list
  interface_name, pipes,   \* its name, and whether its pipes and interface are open
  reads, writes            \* the threads: none, idle, calls (in AdbWinApi), failed, leaves or gone

handleVars == <<of, live, linked, interface_name, pipes>>
winVars == <<present, enum, opened, opening, handleVars, reads, writes>>
With(f, h, v) == [f EXCEPT ![h] = v]

WinInit ==
  /\ present = {} /\ enum = {} /\ opened = 0 /\ opening = 0
  /\ of = [h \in WinHandles |-> NoInterface] /\ live = [h \in WinHandles |-> FALSE]
  /\ linked = [h \in WinHandles |-> FALSE]
  /\ interface_name = [h \in WinHandles |-> NoInterface] /\ pipes = [h \in WinHandles |-> FALSE]
  /\ reads = [h \in WinHandles |-> "none"] /\ writes = [h \in WinHandles |-> "none"]

PlugIn(i) ==
  /\ i \notin present /\ opened < MaxHandles
  /\ present' = present \cup {i}
  /\ UNCHANGED <<enum, opened, opening, handleVars, reads, writes>>

\* What the threads had asked for fails.
PullOut(i) ==
  /\ i \in present
  /\ present' = present \ {i}
  /\ live' = [h \in WinHandles |-> live[h] /\ of[h] # i]
  /\ UNCHANGED <<enum, opened, opening, of, linked, interface_name, pipes, reads, writes>>

-----------------------------------------------------------------------------
\* find_devices.

Known(i) == \E h \in WinHandles : linked[h] /\ interface_name[h] = i

Enumerates ==
  /\ enum = {} /\ opening = 0
  /\ enum' = present
  /\ UNCHANGED <<present, opened, opening, handleVars, reads, writes>>

\* known_device, under usb_lock.
SkipsKnown(i) ==
  /\ opening = 0 /\ i \in enum /\ Known(i)
  /\ enum' = enum \ {i}
  /\ UNCHANGED <<present, opened, opening, handleVars, reads, writes>>

\* do_usb_open and recognized_device: they fail when it was pulled out.
FindsNew(i) ==
  /\ opening = 0 /\ i \in enum /\ ~ Known(i)
  /\ enum' = enum \ {i}
  /\ IF i \in present /\ opened < MaxHandles
       THEN LET h == opened + 1
            IN /\ opened' = h /\ opening' = h /\ of' = With(of, h, i) /\ live' = With(live, h, TRUE)
               /\ interface_name' = With(interface_name, h, i) /\ pipes' = With(pipes, h, TRUE)
       ELSE UNCHANGED <<opened, opening, of, live, interface_name, pipes>>
  /\ UNCHANGED <<present, linked, reads, writes>>

Cleaned(h) ==
  interface_name' = With(interface_name, h, NoInterface) /\ pipes' = With(pipes, h, FALSE)

\* register_new_device looks at the list again.
RegisterNewDevice(h) == ~ Known(interface_name[h]) /\ linked' = With(linked, h, TRUE)

\* The serial number is read, or not; a handle that is not registered is closed.
RegistersNew ==
  /\ opening # 0 /\ opening' = 0
  /\ \/ /\ RegisterNewDevice(opening)
        /\ reads' = With(reads, opening, "idle") /\ writes' = With(writes, opening, "idle")
        /\ UNCHANGED <<interface_name, pipes>>
     \/ /\ Known(interface_name[opening]) \/ ~ live[opening]
        /\ Cleaned(opening) /\ UNCHANGED <<linked, reads, writes>>
  /\ UNCHANGED <<present, enum, opened, of, live>>

-----------------------------------------------------------------------------
\* usb_read and usb_write: a thread passes a pipe of the handle as it is now; the call fails
\* when that is closed, before or while it runs, or the interface is gone.

ReadCalls(h) ==
  /\ reads[h] = "idle" /\ reads' = With(reads, h, "calls")
  /\ UNCHANGED <<present, enum, opened, opening, handleVars, writes>>

WriteCalls(h) ==
  /\ writes[h] = "idle" /\ reads[h] \notin {"leaves", "gone"}
  /\ writes' = With(writes, h, "calls")
  /\ UNCHANGED <<present, enum, opened, opening, handleVars, reads>>

Usable(h) == pipes[h] /\ live[h]

CallSucceeds(h) ==
  /\ Usable(h)
  /\ \/ reads[h] = "calls" /\ reads' = With(reads, h, "idle") /\ UNCHANGED writes
     \/ writes[h] = "calls" /\ writes' = With(writes, h, "idle") /\ UNCHANGED reads
  /\ UNCHANGED <<present, enum, opened, opening, handleVars>>

\* ERROR_INVALID_HANDLE kicks at once; any other error, a timeout of a write among them, only
\* fails the call.  A write that failed is not looked at by input_thread.
KicksIfInvalid(h) == IF ~ Usable(h) THEN Cleaned(h) ELSE UNCHANGED <<interface_name, pipes>>
ReadCallFails(h) ==
  /\ reads[h] = "calls" /\ reads' = With(reads, h, "failed")
  /\ KicksIfInvalid(h)
  /\ UNCHANGED <<present, enum, opened, opening, of, live, linked, writes>>
WriteCallFails(h) ==
  /\ writes[h] = "calls" /\ writes' = With(writes, h, "idle")
  /\ KicksIfInvalid(h)
  /\ UNCHANGED <<present, enum, opened, opening, of, live, linked, reads>>

\* main kicks the transport (usb_kick), whatever the threads are doing.
MainKicks(h) ==
  /\ linked[h] /\ reads[h] \notin {"leaves", "gone"} /\ pipes[h]
  /\ Cleaned(h)
  /\ UNCHANGED <<present, enum, opened, opening, of, live, linked, reads, writes>>

\* The threads end: the reader when a read fails, the writer when main tells it, each with
\* a kick.
ReadsEnd(h) ==
  /\ reads[h] = "failed"
  /\ reads' = With(reads, h, "leaves") /\ Cleaned(h)
  /\ UNCHANGED <<present, enum, opened, opening, of, live, linked, writes>>
WritesEnd(h) ==
  /\ writes[h] = "idle" /\ reads[h] \in {"leaves", "gone"}
  /\ writes' = With(writes, h, "leaves") /\ Cleaned(h)
  /\ UNCHANGED <<present, enum, opened, opening, of, live, linked, reads>>

Leaves(h) ==
  /\ \/ reads[h] = "leaves" /\ writes[h] # "gone"
        /\ reads' = With(reads, h, "gone") /\ UNCHANGED writes
     \/ writes[h] = "leaves" /\ reads[h] # "gone"
        /\ writes' = With(writes, h, "gone") /\ UNCHANGED reads
  /\ UNCHANGED <<present, enum, opened, opening, handleVars>>

\* Mutant: by the first.
ClosesFirst(h) ==
  /\ "leaves" \in {reads[h], writes[h]}
  /\ linked' = With(linked, h, FALSE) /\ Cleaned(h)
  /\ reads' = With(reads, h, IF reads[h] = "leaves" THEN "none" ELSE reads[h])
  /\ writes' = With(writes, h, IF writes[h] = "leaves" THEN "none" ELSE writes[h])
  /\ UNCHANGED <<present, enum, opened, opening, of, live>>

\* usb_close by the last.
CloseHandle(h) ==
  /\ {reads[h], writes[h]} = {"leaves", "gone"}
  /\ linked' = With(linked, h, FALSE) /\ Cleaned(h)
  /\ reads' = With(reads, h, "none") /\ writes' = With(writes, h, "none")
  /\ UNCHANGED <<present, enum, opened, opening, of, live>>

PollsWindows ==
  Enumerates \/ RegistersNew \/ \E i \in Interfaces : SkipsKnown(i) \/ FindsNew(i)
\* What must happen: each thread goes on, and a call to what is closed or gone returns.
ReaderGoesOn(h) == ReadCalls(h) \/ ReadsEnd(h) \/ (~ Usable(h) /\ ReadCallFails(h))
WriterGoesOn(h) == WritesEnd(h) \/ (~ Usable(h) /\ WriteCallFails(h))
HandleEnds(h) == Leaves(h) \/ CloseHandle(h)

WinNext ==
  \/ PollsWindows
  \/ \E i \in Interfaces : PlugIn(i) \/ PullOut(i)
  \/ \E h \in WinHandles :
       ReadCalls(h) \/ WriteCalls(h) \/ CallSucceeds(h) \/ ReadCallFails(h) \/ WriteCallFails(h)
       \/ MainKicks(h) \/ ReadsEnd(h) \/ WritesEnd(h) \/ Leaves(h) \/ CloseHandle(h)

WinSpec == WinInit /\ [][WinNext]_winVars

-----------------------------------------------------------------------------
WinTypeOK ==
  /\ present \subseteq Interfaces /\ enum \subseteq Interfaces
  /\ opened \in 0 .. MaxHandles /\ opening \in 0 .. opened
  /\ {live, linked, pipes} \subseteq [WinHandles -> BOOLEAN]
  /\ \A h \in WinHandles :
       interface_name[h] \in {of[h], NoInterface} /\ of[h] \in Interfaces \cup {NoInterface}
  /\ {reads, writes} \subseteq [WinHandles -> {"none", "idle", "calls", "failed", "leaves", "gone"}]

\* Two transports never serve one interface: while one handle can be used no other is
\* opened for its interface (known_device, register_new_device).
OneHandleEach ==
  \A g, h \in WinHandles : g # h /\ Usable(g) /\ Usable(h) => of[g] # of[h]

\* A handle leaves the list, to be freed, when neither thread uses it (transport_unref,
\* usb_close); the list is what known_device walks.
FreedWhenLeft ==
  \A h \in WinHandles : ~ linked[h] /\ h # opening => reads[h] = "none" /\ writes[h] = "none"

\* The handle of an interface that was pulled out is closed.
PulledIsClosed == \A h \in WinHandles : (linked[h] /\ ~ live[h]) ~> ~ linked[h]

\* An interface that stays is served, again when its transport failed or was kicked, as long
\* as more handles may be opened.
PresentIsServed ==
  \A i \in Interfaces :
    i \in present ~> \/ i \notin present \/ opened = MaxHandles
                     \/ \E h \in WinHandles : linked[h] /\ of[h] = i /\ Usable(h)

\* USB devices on Windows (usb_windows.c): one handle each, freed when nobody has it.
UsbWindowsCorrect == WinTypeOK /\ OneHandleEach /\ FreedWhenLeft
=============================================================================

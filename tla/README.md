# A TLA+ model of linktools, its Android agents and its copy of adb

This directory holds TLA+ specifications of the concurrent and stateful parts of
this repository, the TLC configurations that check them on small instances, and
TLAPS proofs of the central safety properties. Every definition is translated
from the code it names in `PROJECT.json` (`map`); the documents of the repository
(`protocol.txt`, `SYNC.TXT`, `OVERVIEW.TXT`, comments) are only used as the
statement of what the code promises.

## 1. The system

The repository is a toolbox (`linktools`) for inspecting Android and iOS devices:
a Python package (`src/linktools`) that runs on the workstation, and agents that
run on the device (`agents/android`), of which the largest is a port of **adb**,
the Android debug bridge, wrapped in an Android service.

### 1.1 adbd, the device side (`agents/android/adbd/src/main/jni/adbd`)

`Android.mk` builds the device side (`ADB_HOST=0`): `adb.c`, `fdevent.c`,
`transport.c`, `transport_local.c`, `transport_usb.c`, `sockets.c`, `services.c`,
`file_sync_service.c`, `jdwp_service.c`, `framebuffer_service.c`,
`remount_service.c`, `usb_linux_client.c`.

| Component | State | Operations | Interaction |
|---|---|---|---|
| fd events (`fdevent.c`) | table of registered descriptors, wanted `state`, returned `events`, the pending list, `select_n` and the select sets (the epoll variant, `CRAPTASTIC`, is not compiled) | install, remove, set/add/del, process, dispatch, subprocess notification | callbacks run on the main thread; a callback may remove or change any other fdevent, pending ones included |
| transports (`transport*.c`) | transport lists, reference counts, `kicked`, `online`, one socket pair per transport | register, remove, kick, unref, output and input thread | main, output and input thread exchange packets over the socket pair; SYNC packets order the end |
| USB files (`usb_linux_client.c`) | the descriptors of the function's files, a lock and a condition | open with retries, kick, reopen | the thread that opens them waits for the kick of the transport |
| asockets (`sockets.c`, `handle_packet`) | list of local sockets, closing list, packet queues, peers | create, enqueue, ready, shutdown, close, event callback | calls through function pointers between a socket and its peer; CLOSE/OKAY/WRTE/OPEN packets to the host |
| listeners (`adb.c`) | list of listeners, each bound to a transport | install, remove, accept, disconnect callback | changed by service threads (`reverse:`) and by main without a lock |
| services (`services.c`, `file_sync_service.c`, `framebuffer_service.c`) | one thread or child process per stream, on one end of a socket pair | sync SEND/RECV/STAT/LIST, shell, exec, framebuffer, reverse | end of file in either direction ends the stream; a thread waits for each child |
| jdwp (`jdwp_service.c`) | list of debuggable processes, their queued descriptors, list of trackers | accept, register pid, pass a descriptor, track | processes and trackers are sockets and fdevents of main |

### 1.2 The Android application around adbd (Java, `adbd.cpp`)

`AdbdActivity` starts and refreshes through `AdbdManager`; `AdbdService` keeps the
list of running daemons in a process of its own; `Adbd` forks one daemon and reaps
it. The service may die and is started again.

### 1.3 The host side of adb

The sources of the `adb` command and its server are in the tree beside the daemon.
No build file of the repository compiles them; they are what the daemon talks to,
and the tool that linktools downloads and drives is this program, so they are
modelled as far as they can be checked.

| Component | State | Hard behaviour |
|---|---|---|
| server and clients (`adb_client.c`, `launch_server`) | the port, the pipe to the server that is being started | two clients start a server at once, versions differ, one kills while another starts |
| smart sockets (`sockets.c`, `adb.c`, `services.c`) | a request in parts, the transport that was chosen | the transport goes away between two parts; wait-for |
| TCP transports (`transport_local.c`, `transport.c`) | both lists, the table of emulators, references | connect, disconnect and loss of the same device cross |
| commands (`commandline.c`, `file_sync_client.c`) | where the command is, what the device has | a device that is lost half-way, statuses and exit codes |
| USB on Linux (`usb_linux.c`) | a list of handles, two URBs each, a lock per handle | reader, writer, kick, unplugging and the polling thread |
| Windows (`sysdeps_win32.c`, `usb_windows.c`) | the table of descriptors, ring buffers of socket pairs, event hooks | threads of a wait, wake-ups told once, buffers that wrap |

### 1.4 linktools (Python)

| Component | State | Hard behaviour |
|---|---|---|
| `reactor.py` | a queue of timed functions, a worker thread, `_running` | calls scheduled from other threads race the look at the clock, the sleep and stop |
| `frida/app.py`, `frida/server.py` | sessions by pid, scripts, spawned processes | frida's callbacks race the reactor's worker |
| `_url.py`, `_tools.py` | a partly downloaded file, its context, a file lock | resumption, retry, several processes, one of them killed |
| `container/*.py` | containers, their dependencies, what is installed | the order of a start, what a removal takes along |
| `utils/_subprocess.py` | reader threads, one queue, a time limit | several consumers, the limit racing the end of the output |
| `ssh.py` | tunnels, their channels and handlers | stop racing an accept, one end closing first |
| `_config.py`, `_environ.py`, `cli/*`, `android/adb.py` | values computed once, arguments | little |

The rest (Java framework helpers, the frida TypeScript library, IDA and objection
plug-ins, assets, vendored libcutils) holds no state of its own worth a model.

## 2. The modules

| Module | What it models | Run |
|---|---|---|
| `AdbTransport` | transports: main, the output thread, the input thread, the registration socket, the link to the host, the thread of a `reverse:` service | `transport_tcp`, `transport_usb` |
| `AdbTransportProofs` | its inductive invariants and the theorems that follow from them | |
| `FdEvent` | the tables of `fdevent.c` as a record and its operations as pure operators | |
| `FdEventLoop` | the event loop with callbacks that may do anything to any fdevent, and the notification of exited subprocesses | `fdevent_loop` |
| `FdEventProofs` | theorems about `FdEventLoop` | |
| `AdbSockets` (extends `FdEvent`) | the streams of one connection: local sockets, their remote peers, the event loop that drives them, the services at one end and the host at the other | `sockets_one` |
| `AdbStream` | what a stream promises: two channels and an end; `AdbSockets` implements it | |
| `AdbSocketsProofs` | theorems about `AdbSockets`, and that it implements `AdbStream` | |
| `FileSync`, `FileSyncClient` | the sync service on the device, and push, pull and sync of the client that talks to it | `services` |
| `AdbJdwp` | debuggable processes, the debuggers that wait for them, those who follow the list | `services` |
| `AdbListeners` | `reverse:` requests of several threads over several transports | `listeners` |
| `AdbServicesProofs` | theorems about `AdbListeners`, `FileSync` and `FileSyncClient` | |
| `ServiceChildren` | the children of shell, exec and framebuffer services and the threads that wait for them | `device` |
| `AdbdProcesses` | the application's activity, its service and the daemons | `device` |
| `UsbClient` | the files of USB on the device | `device` |
| `DeviceProofs` | theorems about `ServiceChildren`, `AdbdProcesses`, `UsbClient`, `UsbLinux` and `AdbJdwp` | |
| `UsbLinux` | USB on a Linux host | `usb` |
| `WinFiles`, `BipBuffer`, `WaitForAll`, `WinEvents` | the layer under adb on Windows: descriptors, socket pairs, waits, the loop | `host_layers` |
| `ByteQueue` | a bounded queue of bytes; `BipBuffer` implements it | |
| `UsbWindows` | USB on a Windows host | `host_layers` |
| `HostLayersProofs` | theorems about `WinFiles`, `WaitForAll`, `WinEvents`, `UsbWindows`, `BipBuffer`, which implements `ByteQueue`, and `HostTransports` | |
| `HostTransports` | connect, disconnect and loss of TCP devices and emulators; `track-devices` | `host_layers`, `emulator_table` |
| `AdbServer` | clients, the server they find, kill or start | `host_commands` |
| `HostRequests` | what a client asks the server, in parts, up to wait-for | `host_commands` |
| `AdbCommands`, `AdbSideload`, `InteractiveShell` | install, backup, restore, shell, wait-for; both forms of sideload; the two threads of a shell | `host_commands` |
| `HostCommandsProofs` | theorems about `AdbServer`, `HostRequests`, `AdbCommands`, `AdbSideload` and `InteractiveShell` | |
| `Reactor` | `linktools/reactor.py` | `linktools` |
| `JobQueue` | what `schedule` promises; `Reactor` implements it | |
| `UrlFile` | a file fetched by its address, a tool or an executable made of it | `linktools` |
| `SubprocessOutput` | the output of a command | `linktools` |
| `ContainerResolve` | which containers, in which order | `linktools` |
| `SshForward` | tunnels over ssh | `linktools` |
| `FridaApp` | sessions, scripts and spawned processes of a frida application | `linktools` |
| `LinktoolsProofs` | theorems about `Reactor`, which implements `JobQueue`, `ContainerResolve`, `UrlFile`, `SubprocessOutput`, `SshForward` and `FridaApp` | |

The modules named `MC...` are the instances. `MCAdbTransport` gives one module its
constants; `FdEventLoop`, `AdbSockets`, `AdbListeners` and `UsbLinux` take theirs from
the configuration and are checked as they are. The other `MC...` modules put
several components that share nothing beside one another: a variable `part` says
which one a behaviour is about, the others stay in one initial state, so that the
states add up and do not multiply.

Where components do share something, the modules compose. `AdbSockets` works on an
`FdEvent` record, so that a socket's callback really changes the pending list it
was taken from. `FileSyncClient` extends `FileSync`: client and service run against
each other over one stream. In `HostTransports` each change of a transport is a change
of what the clients of `track-devices` are sent. `AdbTransport` and `AdbSockets`
meet at the socket pair of a transport: the first studies how packets cross it and
how the connection ends, with a socket reduced to a counter; the second studies the
sockets, with the pair reduced to two queues that keep their order until the link
breaks. `AdbListeners` takes from `AdbTransport` only that transports come, go
offline and are freed.

### 2.1 AdbTransport and transport.c

A transport `t` is one connection. `list[t]` says which list of `transport.c` it is
on, `regPipe` is the socket `transport_registration_send` writes to, `toMain` and
`toInput` are the two directions of the transport's socket pair, `pc[t]` holds where
its two threads are. `link[t]` is the connection itself; `usbFd` is the one
descriptor of the USB handle that all USB sessions share, which is why a kick or a
write of one session can meet the next one.

| Actions | Code |
|---|---|
| `OpenLink`, `Register`, `RegisterDuplicate` | `server_socket_thread`, `usb_adb_open_thread`, `register_socket_transport`, `register_usb_transport` |
| `RegAdd`, `RegRemove` | `transport_registration_func`: start the threads and the SYNC token; run the disconnects, free |
| `OutSync`, `OutRead`, `OutReadFails`, `OutReadCorrupt` | `output_thread` |
| `InTake`, `InSyncOnline`, `InSyncOffline`, `InWrite`, `InCloseAll` | `input_thread`, `close_all_sockets` |
| `Kick`, `DoKick`, `Unref` | `kick_transport`, `remote_kick`/`usb_adb_kick`, `transport_unref` and the close of the last reference |
| `Handle*` | `handle_packet` for each command, with the connection state and what it does to streams |
| `StreamSend`, `StreamEnd`, `ListenerAccept` | callbacks of main that queue a packet for the host |
| `ReverseAcquire`, `ReverseInstall` | `handle_forward_request` in the thread of a service |
| `BreakLink` | the host goes away |

A callback of main is one step, since callbacks do not interleave with each other;
the steps of threads are cut where they read or write something another thread
sees, so `kick_transport`, which sets `kicked` and then closes outside the lock, is
two.

### 2.2 FdEvent, FdEventLoop, AdbSockets

`FdInstall`, `FdRemove`, `FdSet`, `FdHits`, `FdNotice`, `FdCall` are
`fdevent_install`, `fdevent_remove`, `fdevent_set`, `fdevent_process` (with
`fdevent_fd_check` after `EBADF`), `fdevent_plist_enqueue` and
`fdevent_call_fdfunc`. In `FdEventLoop` a callback is a sequence of steps `Install`,
`Remove`, `SetEvents` that ends with `Return`, on any descriptor: that is all the
loop may assume of its callbacks. `use[f]` counts the fdevents that number `f` has
had and `noticed[f]` remembers for which of them an event was noticed.

In `AdbSockets` a stream is named by its local descriptor. The functions of
`sockets.c` are operators on the record `dev` (`Close`, `Finish`, `Disconnect`,
`Enqueue`, `OnReadable`, `OnWritable`), composed exactly as one callback composes
them; `TransportEvent` takes one packet and runs `HandlePacket`, `SocketEvent` is a
pending local socket's callback. The host follows `protocol.txt`: it opens each
stream once, writes only with a READY in hand, answers each WRITE it receives and may
close at any time. A service writes, reads, stops writing and closes as it likes.

### 2.3 The services of the device

| Module | State and code | Actions and code |
|---|---|---|
| `FileSync` | `svc` is where `file_sync_service` is in its request, `toDev` and `toHost` the stream, `remote` the files: `Absent`, the parts written so far, `Whole` or `Old`; `stuck` remembers which could not be removed | `DoStat`, `DoList`, `DoSend`, `SendData`, `SendDone`, `LinkData`, `LinkDone`, `DoRecv`, `RecvBlock`, `Quit` are the functions of `file_sync_service.c`; `Unlink` may fail, unnoticed, wherever it is called, and `Reopened` is the second open, of what is still there; `HangUp` is the end of the loop; `SvcWrite` writes what a handler has queued and may fail; any call on a file may fail (`Fault`, at most `MaxFaults`) |
| `FileSyncClient` | `client` is where `do_sync_push`, `do_sync_sync` or `do_sync_pull` is, `job` the arguments | `ReadMode`, `FinishReadtime`, `ReadDent`, `NextFile`, `WriteFile`, `ReadStatus`, `ReadData`, `Leave` follow `file_sync_client.c`, `Eof` is a read or write on a stream that ended |
| `AdbJdwp` | `list` is `_jdwp_list`, `in`, `out`, `wantW` the fields of a `JdwpProcess`, `trackers` the list of trackers | `Connect`, `Say`, `Die` are a process; `Accept` is `jdwp_control_event`, `ProcEvent` is `jdwp_process_event` with its read, its `sendmsg` and `jdwp_process_free`; `CreateConnection` is `create_jdwp_connection_fd`; `OpenTracker`, `OpenList`, `HostReady`, `HostCloses` the sockets of the list |
| `AdbListeners` | `listeners` is `listener_list`, `disc` the list of disconnects of each transport, `thread` the request a service thread is in | `Acquire`, `Install`, `Rebind`, `Bind`, `Kill`, `KillAll` are `acquire_one_transport`, `install_listener`, `remove_listener`, `remove_all_listeners`, cut at the calls another thread may come between; `Gone` runs `listener_disconnect` for each; `ListenerEvent` accepts |
| `ServiceChildren` | `proc` and `thread` per service, `number` the descriptor main gave its socket, `notices` what is in `SHELL_EXIT_NOTIFY_FD` | `ServiceAsked` with every failure of `create_subproc_thread` and `framebuffer_service`; `OwnReaped`, `OwnStolen`, `AnyReaped`, `NoneReaped` are the outcomes of `waitpid`, `ThreadTells` writes the notification, `NoticeRead` is `fdevent_subproc_event_func` |
| `UsbClient` | `ends` the descriptors in `usb_handle`, `opener` the thread of `usb_ffs_open_thread` or `usb_adb_open_thread` | `Checks`, `Sleeps`, `OpensFile`, `FileFails`, `Describes`, `Registers`; `KickStarts`, `KickCloses` are `usb_ffs_kick` and `usb_adb_kick`; the lock is taken by `TakesLock` and in the kick |
| `AdbdProcesses` | `messages` the handler of the activity, `conns` the connections of `bindService`, `listed` the list in `AdbdService` | `Click`, `Refresh`, `Connected`, `Disconnected` are the activity and `AdbdManager`; `Run`, `KillAll`, `GetAll` the methods of the service; `ServiceDies`, `ServiceStarts` Android; `DaemonExits` the daemon |

### 2.4 The host side of adb

| Module | State and code | Actions and code |
|---|---|---|
| `HostTransports` | `links` holds the `next` and `prev` pointers of both lists of `transport.c`, `table` is `local_transports`, `refs`, `kicked`, `thread`, `registration` as in the code; `undefined` is set by the first use of freed memory, after which nothing is stated; `trackers` the clients of `track-devices`, `shown` what each was sent | `Job...` and `LooksFor...`, `Dials`, `Inits`, `Enlists` are `connect_emulator`, `connect_device`, `init_socket_transport`; `Registers`, `Removes` the two halves of `transport_registration_func`; `Disconnects` is `unregister_transport`; each of them runs `update_transports`; the followers are `device_tracker_*` |
| `HostRequests` | `got` how much of the request a smart socket has, `asks` what the client asks next, `list`, `state` the transports | `Fragment`, `Request` are `smart_socket_enqueue`; `HandleSwitch`, `HandleRest`, `HandleForward`, `HandleWait`, `HandleService` the branches of `handle_host_request`, `host_service_to_socket`; `Polls`, `Looks` are `wait_for_state` with `acquire_one_transport` (`Walk`) |
| `AdbServer` | `client`, `server` the processes, `first` the version of a server that is there | `AsksVersion`, `Answered`, `SendsKill`, `Launches`, `Launched`, `Requests` follow `adb_connect`; `Binds`, `Acks`, `Exits` are `adb_main` of the server and `launch_server`'s pipe |
| `AdbCommands` | `place` and `back` where the command is, `stream`, `device`, what is on the device | one step per request of `install_app`, `install_multiple_app`, `backup`, `restore`, `do_cmd`; `DeviceGoes` and `DeviceComes` lose it between any two |
| `AdbSideload`, `InteractiveShell` | the block asked for and its offset, cut to 32 bits or, as the build may, not (`exact`); what was typed, read, looked at and sent | `adb_sideload_host`, `adb_download_buffer`; `stdin_read_thread` with its escape, `interactive_shell` |
| `UsbLinux` | one handle per device: `mark`, `dead`, the two URBs, `urb_out_busy`, who has `usb_lock` and `transport_lock` | `Marks`, `Finds`, `ScanEnds`, `KicksGone` are `find_usb_device` and `kick_disconnected_devices`; `ReadSubmits`, `ReapsIn`, `WriteSubmits`, `ReapsOut`, `WaitReturns` are `usb_read`, `usb_write`; the rest closes |
| `UsbWindows` | `linked`, `interface_name`, `pipes` of each handle | `Enumerates`, `FindsNew`, `RegistersNew` are `find_devices`; `ReadCallFails`, `WriteCallFails` with `usb_kick`; `CloseHandle` is `usb_close` |
| `WinFiles` | `fh_count` is `_win32_fh_count`, `clazz`, `isUsed` the fields of the table | `Allocates` is `_fh_alloc`, `ClearsUsed`, `ClearsClass` the end of `_fh_close`, which has no lock |
| `BipBuffer` | `a_start`, `a_end`, `b_end`, `can_write`, `can_read`, the two events | `Write`, `Read` and the steps of their waits are `bip_buffer_write`, `bip_buffer_read`; `Close...` and `Drop...` are `_fh_socketpair_close` |
| `WaitForAll` | `waiter` the thread of each chunk, `sig_index` the answer | `_wait_for_all` and `_in_waiter_thread` |
| `WinEvents` | the record and event Windows keeps of each socket, `pending` the list | `Prepares`, `Starts`, `Checks`, `Peeks` are the functions of a socket's hook, `Sets` is `fdevent_set`, `CallsBack` a callback |

### 2.5 linktools

| Module | State and code | Actions and code |
|---|---|---|
| `Reactor` | `pending` is `_pending`, `worker` where `_run` is, `timer`, `previous` its locals | `Ask`, `Put` are `schedule`, whose time is taken before the lock; `Look`, `Take`, `Work`, `Check`, `TimedOut`, `OnStop` one turn of the worker |
| `UrlFile` | `file`, `completed`, `size` the file and its context on disk, `lock` the file lock, `dest` what is made of it; `ignored` and `loose` remember answers that misled | `Enter`, `Request`, `Chunk`, `Body`, `Saved` are `UrlFile.save` and `DownloadContext.download`; an answer has its length, another one (`Lengths`) or none; `Place`, `Copy` what a tool or an executable does with it; `Kill` ends a process anywhere |
| `SubprocessOutput` | `pipe`, `queue`, `finished` of the output reader, `step` where a caller of `get_lines` is | `ReadLine`, `StreamEnds`, `EndPut` the reader threads; `LookAlive`, `Get`, `Nothing`, `Drain`, `Poll` one turn of `get_lines` |
| `ContainerResolve` | `depends`, `prefers`, `installed`, and of the resolution `waiting` and `position` | `RemoveInstalled` is `remove_installed_containers`, `Pop` one turn of `resolve_depend_containers`; `Reached` is `is_depend_on`, `Order` the order of what is in the result, evaluated when it is asked for |
| `SshForward` | `handler`, `ends`, `channels`; `held` what the handler has received and not sent on, `full` the sides that take no more | `Accept`, `Opens`, `Registers`, `Receives`, `CopyOne` (the send, which waits for room), `Breaks`, `TunnelCloses` are a handler; `Sends`, `Finishes`, `Stalls`, `ReadsOn` the peers; `Shutdown`, `Sweeps` are `stop` |
| `FridaApp` | `jobs` what the reactor has to do, `loader` where `_load_script` is, `registry` is `_sessions` | `LoadBegins`, `Attach`, `Unload`, `Create` load a script; `SpawnAdded`, `DetachedCallback`, `ChangeSeen` are frida's callbacks; `Stop` the end |

## 3. Modelling decisions

- The host never sends a SYNC on the wire, and `auth_enabled` is 0 as the port sets it.
- A callback of main is a single step in every module but `FdEventLoop`, where the
  question is what callbacks do to each other.
- `FDE_ERROR` is left out: nothing in the program asks for it.
- `AdbSockets` leaves `force_eof` out: `local_socket_event_func` acts on
  `force_eof && !r`, and `r` is 0 only when end of file was read, where `is_eof` is
  set anyway: -1 is what an empty descriptor gives, and a remote peer's enqueue
  returns 1.
- `SIGPIPE` is ignored by adbd, so a write to a closed service is an error return.
- A service that closes with unread data, which resets a TCP stream but not a socket
  pair, is taken as the socket pair does it.
- The order in which pending events are delivered is any: descriptors are numbered
  by the kernel, and the list is filled in that order.
- `exit_on_close`, which ends the process, is not modelled.
- A product of ints that no int holds is undefined in C: `AdbSideload` lets the build cut
  it to an int or multiply in 64 bits.
- A use of freed memory has no meaning; `HostTransports` records that it happened
  and states its properties up to there.
- A file is the sequence of its parts, a name a member of a small set; numbers keep
  their 32 bits where they overflow (`AdbSideload`).

## 4. The properties

Where a component has several properties its module groups them at its end in one
formula, named after the component: `UrlCorrect` is the conjunction of the parts
named beside it. The parts are stated, each with the code it is about, above it. A
run checks the group. All groups begin with the component's types.

| Property | Its parts, beyond types |
|---|---|
| `TeardownOrder`, `KickClosesOwnLink` | `ClosedAfterThreadsExit`, `QuietWhenInputExits`: a transport is removed only after both threads left and one kick; when the input thread leaves, main has nothing left to handle and no stream open; a kick never closes the next session |
| `DeliveryCorrect` | `NothingDiscardedAsOffline`, `NoStaleDelivery` (what main queued for a host reaches that host only), `DeliveredInOrder` (without a gap) |
| `HandshakeInv` | the inductive invariant of section 6; that main is asked to remove a transport once, and while it is listed, is a part of it |
| `DeadTransportIsFreed` | a transport whose link is gone is freed in the end |
| `TablesConsistent`, `NoticedInThisUse` | `ListMatchesFlags`, `SelectMatches`: list and flags agree; the select sets are what registered fdevents want; an event reaches the fdevent it was noticed for |
| `LoopServes` | `SelectCoversAll`, `NoLeftover`, `ReadyIsServed` (what stays ready and wanted is served again and again), `NoticesAreHandled` |
| `SocketsCorrect` | `FlowControl`, `OpenHasPeer`, `NothingAfterClose`, `ClosingDeliversAll`, `EofDeliversAll` |
| `Implements` | `AdbSockets` implements `AdbStream`: what arrives on either side is a prefix of what was sent, in order, and ends once |
| `StreamsServed` | `OpenIsAnswered`, `ClosingEnds`, `UpIsDelivered` |
| `CopiesCorrect` | `PushIsWhole`, `PullIsWhole` (what the command reports as copied is there, whole), `NoPartialFile`, `AnswersMatch`, `SyncEnds` (both ends end, whatever fails) |
| `JdwpCorrect` | `DebuggersHaveOnePlace`, `JdwpTrackersCurrent`, `DebuggersInOrder`, `DebuggersServed`, `DeadForgotten` |
| `ListenersCorrect`, `ListenersChange` | `DisconnectsMatch`, `NamesUnique`, `GoneTakesAll`; `KeptUnlessAsked`, `ConnsFollow` |
| `ChildrenCorrect` | `FrameWhole`, `ToldOfItsExit` (of its own child, or of one that was stolen), `ExitsTold`, `FramesEnd` |
| `ProcessesCorrect` | `RunningListed`, `ListedNotReaped`, `OneRefresh`, `RefusedRunning`, `ConnectionsServed` |
| `UsbClientCorrect` | `FilesInHandle`, `RegisteredWhole`, `Reopens` |
| `HostTransportsCorrect` | `OnePerPort`, `RemovedLeavesTable`, `PendingWhole` (the list of half-connected transports is a ring, both ways), `WalkEnds` (a walk of the list of transports ends and meets none that was freed), `TrackersCurrent`; while nothing was disconnected, `FreedAfterThreads`, `ListsWhole` (the list holds what is registered, both ways), `OnePerSerial`. All of it up to the first use of a freed transport |
| `FilesCorrect` | `EntriesOwned`: an entry is one file's until that file is closed |
| `ImplementsQueue`, `PairCorrect` | `BipBuffer` implements `ByteQueue`; `Regions`, `FlagsRight`, `OneWriteWhole`, `FreedByLast` |
| `WaitCorrect` | `AnswerIsSet`, `FreedUnused` |
| `WinEventsCorrect` | `WaitsForAll` (main sleeps only if all it wants will wake it) |
| `UsbWindowsCorrect` | `OneHandleEach`, `FreedWhenLeft` |
| `HostLayersLive` | `WritersWoken`, `ReadersTold` of socket pairs, `WaitEnds`, `DataRead`, `PulledIsClosed`, `PresentIsServed` |
| `UsbCorrect` | `WrittenWasTaken` (what a write reports was taken, two failures apart), `ClosedUnused`, `KicksOnlyGone`, `GoneIsClosed`, `PluggedIsServed`, `TakenIsTold` |
| `ServerCorrect` | `ServedByItsVersion`, `FailuresExplained`, `ServerRemains`, `CommandsEnd` |
| `RequestsCorrect` | `ChosenAlone` (the transport chosen is the only one meant), `StatusForEach`, `AskersAnswered`, `WaitsEnd` |
| `CommandsCorrect` | `CommittedWhole`, `ZeroMeans` (what an exit of 0 says), `NothingLeft`, `CommandEnds` |
| `SideloadCorrect` | `BlocksRight` (a block past 32 bits excepted, see 8.2), `PastOnlyIfPast`, `DownloadedWhole`, `SideloadEnds` of both ways |
| `ShellCorrect` | `EscapeEnds`, `SentAsTyped`, `TtyRestored`, `ShellEnds` |
| `ReactorCorrect` | `ReactorImplements` (it implements `JobQueue`: each call once, undelayed ones in the order they were asked, none after the end) |
| `UrlCorrect` | `SavedWhole` (answers that misled excepted, see 8.3), `OneWriter`, `ErrorsExplained` |
| `OutputCorrect` | `LinesKept`, `FailureTold` |
| `ContainersCorrect` | `NeededListed`, `DependenciesFirst`, `RemovalSafe` |
| `TunnelsCorrect` | `PassedOn`, `StopCloses` |
| `FridaCorrect` | `OneScript`, `ToldOnce`, `StopLeavesNone` |
| `LinktoolsServe` | `JobsRun`, `StopEnds` of the reactor; `PartialOnlyRaced`, `UsersEnd` of files; `ReadersEnd`; `TunnelsEnd`; `SpawnResumed`, `EndsKept`, `EndTold`, `LastTextLoaded` of frida |

Some parts name the exceptions the code makes to what one would expect of it
(`ignored`, `late`, `lost`, `stranded`, `missed`, `Confused`, ... are history
variables or states that stand for them). Section 8 lists them in words.

For every property `PROJECT.json` has a mutant: a plausible bug in one definition
(`...Once`, `...Silent`, `ClosesFirst`, ...), which TLC finds to violate it.

## 5. The runs

`CHECK_DEADLOCK FALSE` is in every configuration: the system rests when no host is
connected, when no descriptor is ready, when a command has ended or a bound is
reached. That it does not stop while somebody waits is what the liveness
properties are for.

| Run | Question | Instance |
|---|---|---|
| `transport_tcp` | teardown, and what main handles, of TCP transports | two connections: the second is refused while the first is registered; the first opens a reverse listener and has clients of it (`MaxRead` 4: CNXN, the OPEN of the reverse service, an answer, one more; `MaxSent` 3); either breaks at any moment |
| `transport_usb` | two sessions on one USB handle | the second starts while the first is torn down; one packet each way is enough to have something in flight when a session ends |
| `fdevent_loop` | the loop under callbacks that change each other's fdevents | `Fds` 1..3: two that change each other and between them the exit socket (2), so that `select_n` goes down past it; `MaxOps` 5: install two, set two, remove one and reuse its number; one closed behind the loop's back |
| `sockets_one` | one stream in depth | a service thread or a subprocess; `Payload` 2 and `BufCap` 1, so that a WRITE is larger than what the kernel takes and is written in parts; `MaxDown` 3 and `MaxUp` 2, so that data follows the first packet both ways; the link may break |
| `services` | copies of files, with the service and its client; jdwp | a file of two blocks, with an older one of three on the device, one whose owner is changed, a link; two failed calls, and room for the two answers a stream may get when both fail (`AnswerCap`); two processes whose pid comes in pieces, three debuggers with room (`MaxOut`) for two, one follower |
| `listeners` | reverse requests | two service threads, two transports, two names, four requests, three listeners, one connection |
| `device` | processes and USB files of the device | two shells and a framebuffer of two parts with a pipe of one; two ports, three buttons, two daemons, the service dying once; two kicks, the function switched off twice, by either driver |
| `host_layers` | Windows layers; TCP transports of the server | three descriptors and two threads; a ring of three bytes and five bytes to send; three handles in chunks of two; two sockets; an interface with two handles; four rounds of connects, each with its own number of disconnects and losses (two emulators on one port and one on another; one device twice with two followers; one of each; three devices), a table of one emulator |
| `usb` | USB on Linux | two devices, one of which can only be read, plugged in twice; writes of two transfers, or of one and an empty packet |
| `host_commands` | adb's commands and server | three clients of two versions, with a server of either version there or none; one client of each kind of request and of each way to choose among two transports; each command with two losses of the device; a file of up to 15 bytes with blocks of two, a largest int of 7 and block numbers up to 12, so that a product is negative as an int from block 4 on and wraps to another block from 8 on; four keys read in any pieces |
| `linktools` | the parts of linktools | three calls of which one is a stop; two processes that fetch a file of two parts with two failed connections, answers with their length, with a length of one or with none, and a kill; a command with two readers of its output; three containers, every graph, order and set to remove; a tunnel with two pieces each way, one of whose peers stops reading once; two processes with two ends and one change of the script |
| `emulator_table` | is every transport in the table of emulators alive? | as `host_layers`; `TableLive` is violated |

`emulator_table` shows a disagreement with the comment in `services.c:579-584`, which
says of two connects that race that "local_connect protects against
double-registration too" and "the data doesn't get corrupted": when the serial is
still on a list, `register_socket_transport` frees the transport it has just entered
in the table (`transport.c:1020`, `1028`), nobody takes it out, and the table keeps a
freed transport.

### 5.1 Bounds

The bounds are the smallest at which what a component is about happens: two of
whatever meets its like (sessions, processes, threads, readers, transports), a
buffer smaller than what is put in, one more asker than there is room for, a fault
or a loss at any step, and as many of them as it takes to hit what recovers from the
first. Names in the configurations say what is counted (`MaxFaults`, `MaxLosses`,
`MaxPlugs`, `MaxOps`, ...); a bound is a guard of the action that counts and of no
other, so that nothing that must go on is stopped by it. Three containers give every
shape a dependency can have (chain, fork, join), and the order in which the code
visits a set is any.

### 5.2 Fairness

- `AdbTransport!FairSpec`: weak fairness of each thread's steps and of main's
  handling of what is in its sockets. Threads are preemptively scheduled and none
  waits for a lock for ever. Breaking a link, reading a packet, opening a stream and
  accepting a client are not fair: nothing makes them happen.
- `FdEventLoop!FairSpec`: weak fairness of the loop and of the return of a callback.
  The kernel's reports are not fair; `ReadyIsServed` is about a descriptor
  that stays ready.
- `AdbSockets!FairSpec`: main's loop, one action per descriptor because `select`
  reports all that are ready and the list is emptied before the next call; the
  host receives and acknowledges; a service reads. Nobody is forced to write, to open
  or to close.
- `MCServices`: the service, the client and main's loop go on. No call need fail or
  succeed for ever, and the link need not break.
- `MCDevice`: threads, screencap and the exit of its process, Android's start of a
  service and its callbacks, and the USB function, which comes back. Shells need not
  exit, daemons need not either.
- `MCHostLayers`, `MCHostCommands`, `MCLinktools`: each thread or process that has
  something to do goes on; frida's callbacks come. Users, peers, kills, losses and
  time limits are free: a peer of a tunnel need not send, end or read on; a lost device comes back (`DeviceComes`), which `wait-for`
  waits for.
- `UsbLinux!UsbSpec` has strong fairness for two things. Who waits for a lock gets it in the
  end though others take it again and again: the polling thread sleeps a second
  between two scans. And usbfs gives transfers back in the order they were done, so
  that the writer's is not passed over for ever.

In the instances of several components fairness is that of the steps of the part a
behaviour is about: the others are disabled.

## 6. What is proved

The theorems hold for every value of the constants that satisfies the module's
assumption: any number of transports, streams, descriptors, threads, calls and
containers, and bounds of any size. `PROJECT.json` lists them; where a theorem states
a property that a run checks, the run shows it on a small instance.

| Proofs | Theorems | Of |
|---|---|---|
| `AdbTransportProofs` | `HandshakeInvariant`, `TypeCorrect`, `ClosedAfterThreadsExitHolds`, `QuietWhenInputExitsHolds`, `TeardownHolds`, `KickClosesOwnLinkHolds` | how a transport ends |
| | `NothingDiscardedHolds`, `DeliveredInOrderHolds`, `TcpDeliveryHolds` | what reaches the host |
| `FdEventProofs` | `LoopTypeCorrect`, `PendingListConsistent`, `SelectSetsConsistent`, `TablesHold`, `SelectLimitCovers`, `NothingLeftOver`, `EventsReachTheirFdevent` | the tables of the event loop |
| `AdbSocketsProofs` | `SocketsHold`, `SocketsImplementStreams` | streams |
| `AdbServicesProofs` | `ListenersHold`, `ListenersChangeAsAsked` | listeners |
| | `CopiesHold` | push, sync and pull of files |
| `DeviceProofs` | `UsbClientHolds`, `UsbLinuxHolds` | the two ends of USB, on the device and on a Linux host |
| | `ChildrenHold`, `ProcessesHold` | the children of adbd's services, the application's daemons |
| | `DebuggersHold` | debuggers and the processes they ask for |
| `HostCommandsProofs` | `ServersHold`, `StatusesHold` | clients and servers that are started, the status of each request |
| | `ShellHolds`, `CommandsHold`, `SideloadHolds` | what a command did when it ends |
| `HostLayersProofs` | `FilesHold`, `WaitHolds`, `WinEventsHold`, `UsbWindowsHolds`, `PairHolds`, `PairImplementsQueue` | the layers on Windows |
| | `HostTransportsHold` | the server's TCP transports |
| `LinktoolsProofs` | `ReactorHolds`, `ContainersHold` | the reactor, the order of containers |
| | `UrlHolds`, `OutputHolds` | files that are fetched, the output of a command |
| | `TunnelsHold`, `FridaHolds`, `FridaEndsKeptHolds` | tunnels over ssh, a frida application |

### 6.1 Transports

`TransportAssumption`: USB and reverse connections are transports, `NoTransport` is not
one, the bounds map transports to naturals. `HandshakeInv` is inductive: it adds to
the types how many references a transport has as a function of where its threads are
(`RefsInv`), that it was kicked when a thread is past its kick (`KickInv`), which
session the USB handle is open on (`UsbInv`), what may be in the registration socket
(`RegInv`), and what the positions of the threads say about SYNC packets in the two
queues (`SyncInv`). The last is why the properties themselves are not inductive: that
main has closed every stream when the input thread leaves its loop depends on
SYNC(0,0) having passed through main, behind every packet of the host.

What reaches the host needs `DeliveryInv` beside it. `TokenInv` follows SYNC(1, token):
it is the first packet of the output thread, main queues nothing for a connection
before it has taken it, and until the input thread has, every packet in its queue
stands behind it. `OrderInv` says that a number `k` separates what has arrived, all of
1 to `k` in order, from what is queued, all that follows while the link is up.
Nothing-discarded and in-order hold for any transports. That no host receives what was
queued for another (`NoStaleDelivery`) is proved where every connection has a socket of
its own, `UsbTransports = {}`: with two sessions on one USB handle it is false, as
section 8.1 says, and `transport_usb` does not claim it.

### 6.2 The event loop

`FdsAssumption`: descriptors are naturals, one of them is the exit notification socket.
The lemmas say what `FdInstall`, `FdRemove`, `FdSet`, `FdNotice` and `FdCall` do to a
table that is consistent ("Good" lemmas) and to its fields. The inductive invariant
joins the type, the agreement of list, flags and select sets, that an event was noticed
in the present use of its number, and that the initial set-up callback comes first.
Typing is not trivial there: `select_n` after a removal is the result of a search,
shown to be in range.

### 6.3 Streams

`SocketsInv` is a predicate of each stream, `StreamOK`, on records that stand for the
host, main's data and the packets on their way: `SocketOK` (its list, peer, queue and
registration agree), `StartOK` (nothing precedes OPEN and its answer), `UpFlow` and
`DownFlow` (one token goes round in each direction: main reads, a WRITE is on its way,
the host owes the READY, or the READY is on its way), `CloseOK`, and `UpData` and
`DownData`: what one side has, what is on its way and what the other has not read yet
are a chain (`Chain`) without a gap. One lemma per function of `sockets.c` says what it
does to its stream (`Destroyed`, `Lingers`, `Told`, `PutsOff`, ...) and that the other
streams are as they were (`Others`, `Alike`). `close_all_sockets` is a fold over the
streams in any order; that each of them ends as `Close` would leave it is shown by a
smallest set for which it would not. The refinement of `AdbStream` maps each callback
to a step of one stream, and `Offline` to the end of all.

### 6.4 Listeners, copies of files, processes and USB, the layers on Windows, TCP transports

- Listeners: no two have one id, a thread about to bind has its request and transport,
  and a transport that is gone went through `close_all_sockets` first. With that,
  `DisconnectsMatch`, `NamesUnique` and `GoneTakesAll` are inductive, and what a step
  may change follows from the same invariant.
- `FileSync` with `FileSyncClient` (`SyncAssumption`: finitely many files, at least one,
  with lengths, and lengths of older ones on the device, that are naturals). `CopyInv` looks at what the service has still to read
  (`Requested`: on the stream and not yet written) and at what the client has still to
  read (`Heard`) as two sequences, so that a write that moves a message changes neither.
  By where the client is, they say what is on its way (`PhaseOK`): while it asks,
  each request and each answer is of the next file (`StatOK`); while a file is sent, the
  messages are the pieces that follow what the file on the device has (`Underway`), or
  what comes first is its answer, and OKAY means that the file is whole
  (`Accepted`); while a file is received, what comes follows what is there
  (`ReceivingOK`). Beside it, what the command is done with is whole (`Settled` for a
  push, `Kept` for a pull) and nothing that could change a file is left on the way when
  the client goes on (`Harmless`). A file in part is the one the service has open, or one
  it could not remove (`PartOpen`). What it writes over goes on behind what it has written
  (`PlaceOK`), so such a file ends with what the older one had more of.
- `UsbClient`: what each endpoint's descriptor is follows from where the open thread is
  in `init_functionfs` (`ClientInv`), and from the kick that closes two of them.
- `UsbLinux` (assumption: `ETIMEDOUT`, 110, is less than the longest transfer, 4096): what
  the device took of a write is what is no longer left of it, or that and the transfer the
  writer waits for (`WriteOK`); what is left has the remainder of the length, so that only
  a write whose last transfer has `ETIMEDOUT` bytes can be mistaken. A device that has been
  there since before the scan is marked when the polling thread looks (`ScanOK`); that it
  kicks no other is an action property. The holder of `transport_lock` found the two
  threads past their use of the handle (`ThreadsOK`).
- `ServiceChildren` (assumption: finitely many shells and framebuffers): the place of the
  waiting thread says what became of its process (`ServiceOK`, `FrameOK`); a notice for
  main names a socket whose service ended, or one whose number an ended shell had.
- `AdbdProcesses` (assumption: the bounds are naturals): each daemon in the list is there
  under the port and by the instance that forked it, so two ports have two daemons
  (`DaemonInv`); instances only grow, so a daemon of an earlier one is nobody's. The
  refreshes under way are messages and connections not told, and each step that takes one
  puts one (`RefreshInv`). When `run` is refused is an action property, from the same
  invariant.
- `AdbJdwp`: a process is in `_jdwp_list` once (`ProcsOnce`), what waits in its queue and
  what it was given are different debuggers that asked for it, and were taken in the order
  they are in (`WaitersKept`, `NotedRight`). The descriptor a read or a `sendmsg` acts on is
  then the oldest that waits.
- `WinFiles`: who has a descriptor has it for one thing; an entry has its class while it
  is owned; entries from `_win32_fh_count` on were never taken.
- `WaitForAll`: what a thread was woken by is set, and the event has a reason.
- `UsbWindows`: a handle that has its pipes has the name of its interface; threads run
  for handles in the list.
- `BipBuffer`: the two regions hold the bytes that were written and not read, in order
  (`Held`); one lemma for what `Fill` and `Drain` do to them, in each of the cases of a
  buffer that wraps. `Write` and `Read` are then the steps of `ByteQueue`.
- `WinEvents`: what is wanted of a socket and not yet looked at is either held by its
  event or still in front of the loop (`NoneLost`), an end is told once (`ToldOnce`), and
  what the loop has prepared, started and checked agrees with where it is (`StagesOK`).
- `HostTransports` (assumption: finitely many attempts to connect, the two heads are none
  of them, bounds are naturals). The lists are pointers that a disconnect leaves stale, so
  the invariant is one of pointers. `pending_list` is a ring in both directions, of what
  was enlisted and is not registered. For `transport_list` there is a numbering by the
  time of listing: `next` goes to a newer one, `prev` to an older one, also from what was
  unlinked. So every walk ends, and what it meets is not freed. The
  references of a transport are its threads that have not ended, unless a disconnect took
  one; what waits in the registration socket is there once; an emulator is never
  disconnected, and has left the table when it is kicked. While nothing was disconnected,
  the pointers are inverse to each other, and the list is whole.

### 6.5 The commands of adb

- `AdbServer` (assumption: the first server is no client, `None` is neither of them nor the
  name of a reason): who has the port is one process (`OneHolder`), and what a
  client knows of the servers that were there only grows (`ServerInv`). A server a client
  started that is not bound yet is one the client waits for, so a client that failed had
  one of four reasons, each with its witness.
- `HostRequests`: `TalkInv` says for each client how much of a request the server has
  handled, which statuses it has written and which of them the client still has to read,
  by what the client asked. It is the same number at both ends; only a device that goes
  while its service is opened makes the server close without one.
- `InteractiveShell` (`ShellInv`): the state of the escape is that of the longest
  prefix of what was typed that the thread has looked at (`NextState` step by step against
  `EndsInEscape`), and what was sent is that prefix without the read that ended it.
- `AdbCommands` (`CommandsInv`): where the command is says what is on the device: which
  files, whether the session is open and how many apks it has (`CourseOK`, `SessionOK`,
  `FileOK`), and the stream carries only what answers its last request (`StreamOK`).
- `AdbSideload` (assumption: the numbers are naturals, the block and the int not 0): a size
  is what 32 bits hold, a block any number. Where the product of the block and its size is
  cut to an int and its remainder is below the size of the file, the product was its own
  remainder or is past 32 bits (`CutOffsets`); so the block is the one that was asked for
  unless its offset wrapped. The older service is sent the chunks one after the other, to the size as an int.

### 6.6 linktools

- `Reactor`: the queue holds what was put, each call once; of two calls without delay the
  one put before the other was asked is before it in the queue, and is seen due when the
  other is. Each step is a step of `JobQueue` or leaves it as it is.
- `ContainerResolve` (`ContainerAssumption`: finitely many numbers, each depends on
  smaller ones, so the graph has no cycle). That `Reached` is closed is by counting: each
  round that is not closed adds a container. `Order` is a recursion that goes up, along
  what a container was put before; it has a value for every placement that can occur
  (`PlacesOK`), and placing one container below another lowers orders and raises none. So
  what is below stays below, unless it is the one above that was lowered.
- `UrlFile` (assumption: `Free` is no process, lengths are naturals): what is on disk is a prefix of what the
  server has unless a response began elsewhere (`FileOK`), and only the process that has
  the lock writes it (`UserOK` says what each process knows of the file, by where it is).
  An error has a reason: a connection that dropped, a process that was killed, a server
  that ignored the range or gave no length of its answer. A file that is complete is whole
  unless one of these misled the comparison (`Misled`).
- `SubprocessOutput`: the lines taken, in the queue and read and not yet put are together
  what the command has written, each once (`Conserved`), in the order of their
  stream (`InPlace`, `Ordered`); a thread stops at the end of its stream or for the
  limit.
- `SshForward`: for each direction of each tunnel, what came out, what is held and what is
  to come are what went in (`Flow`), but for what a full channel cut; what the handler holds while it
  waits to send is the first of what is to come (`HeldOK`); after a stop a
  tunnel that was listed is closed (`EndsOK`).
- `FridaApp` (assumption: finitely many processes): how often an end was told follows from
  where the session is and which jobs are queued (`SessionOK`, `OncePerEnd`), and what the
  loader is about agrees with the session it is about (`LoaderOK`). `EndsKept` is
  an action property, proved from the same invariant.

### 6.7 What is only model-checked

- Every liveness property, as the prover does not reason about fairness and `ENABLED`:
  `LoopServes`, `StreamsServed`, `DeadTransportIsFreed`, `HostLayersLive`,
  `LinktoolsServe`, and of the properties of `services`, `device`, `usb` and
  `host_commands`, which join safety with an end that must come, that end.
- Of `services`: of file sync the lengths of streams and files in `SyncTypeOK`; of the
  debuggers the lists that trackers are sent and the lengths in `JdwpTypeOK` (the lists
  are made by `SelectSeq`, which is recursive).
- Of `host_commands`: `ChosenAlone` and `HostTypeOK`. `Walk` looks at the transports one
  after the other, and what a recursive function gives is shown by induction.

Every other safety property that a passing run checks is a theorem.

## 7. What is not modelled

`PROJECT.json` lists every component with what it leaves out. Left out for good:

- vendored libcutils; start-up and JNI, which runs once before the loop; remount,
  verity and console services, which write a line or a block and keep no state;
  `root:`, `tcpip:`, `usb:` and `reboot:`, which set a property;
- authentication: the cases of `handle_packet` that reach `adb_auth_host.c` and
  `adb_auth_client.c` are commented out;
- `usb_libusb.c` and `usb_osx.c`, named by no build file. `usb_libusb.c` frees a
  handle in `usb_kick` that its threads still use and loses the libusb handle, after
  which nothing can be stated; in `usb_osx.c` the thread's start is waited for on a
  condition without a predicate, threads race on `handle->interface`, and
  `usb_close` never frees;
- the epoll loop of `fdevent.c` (`CRAPTASTIC`, not compiled), the console of an
  emulator, quoting and printing of commands;
- the stateless Java helpers, the frida script library, command lines, prompts, IDA
  and assets; the configuration lookup, a chain of sources; repositories, compose
  files and docker commands of containers, which are I/O;
- channels of a reverse forward that paramiko has queued and nobody has accepted when
  `stop` is called: a tunnel of `SshForward` begins with its handler (`ssh.py:375`);
- in `UsbLinux`, the holding of `transport_lock` while a reference is released that is not
  the last: the lock must be free and the release is a single step (`FirstUnrefs`), so that
  nobody is seen to wait for it; the last release holds it until the handle is closed;
- a second reactor thread: `wait` gives up after five seconds, and a run after that
  starts a second worker beside the first (`reactor.py:114`).

## 8. What was met

What follows is how the code behaves in the models or was seen while they were
written. It is not wrong everywhere to behave so; where a property needs an exception
for it, the property names it.

### 8.1 adbd

- TCP: `remote_close` closes `t->fd`, and main closes the same number again when it
  removes the transport (`transport_local.c:234`, `transport.c:592`). A connection that
  cannot be registered keeps its socket open (`transport_local.c:184`).
- USB: the input thread of the old session can write what main had queued for it
  into the session opened since (`usb_linux_client.c:191`), which the SYNC packets are
  meant to prevent (`protocol.txt:170`). A read of 0 bytes makes the thread spin.
- A reverse listener installed while its transport is torn down accepts clients on
  a freed transport (`adb.c:1476`, `transport.c:356`).
- `fdevent_set` keeps the pending events that are *not* wanted
  (`fdevent.c:633`); the test for a reallocated descriptor (`fdevent.c:537`) never
  succeeds, so that `force_eof` hits the new owner of a number; the table grows by
  `realloc` and clears only `sizeof(int)` of each entry (`fdevent.c:441`).
- `close_all_sockets` changes main's tables from the input thread (`sockets.c:137`).
- A read event noticed before the host's CLOSE destroys a closing socket with its
  queue. The exit of a subprocess makes main read without a READY and send a
  second WRITE. A CLOSE is answered by a CLOSE (`protocol.txt:163` says it is not).
- jdwp: a stream of the list that the device closes is not told to the host
  (`jdwp_service.c:586`); updates do not wait for READY; a debugger may be queued at a
  dead process whose pid came again.
- sync: after a failed `fchown` FAIL is sent and OKAY may follow
  (`file_sync_service.c:205`). Whether an older file could be removed is not looked at
  (354); one that was not is opened without O_TRUNC (197), and a shorter file sent over it
  is answered with OKAY and keeps the old end. A part that cannot be removed (244, 269)
  stays.
- Children: a shell whose fork failed leaves a waiter with pid -1, which reaps the
  children of others (their waiters then spin); a framebuffer holds the writing end of
  its own pipe, and when its fork fails it waits for any process; a process whose
  thread cannot be created is never reaped.
- The application: `run` answering false is reported as success by `AdbdManager`;
  after a failed fork the daemon stays listed, its port refuses, and `killAll` signals
  the old pid (`Adbd.java:67`); a restart of the service repeats each connection's
  request; a refresh that failed stops the refreshing; killed daemons are not waited
  for.

### 8.2 The host side

- A disconnect unlinks a transport (`transport.c:1065`) and its removal unlinks it again
  with the pointers it then had (`transport.c:598`): a transport registered in between is
  lost from the walk of `transport_list`, so that its serial can be registered a second
  time; after two disconnects a freed transport can be on the list again, and
  `update_transports` reads it in the same step.
  Disconnect releases a reference nobody holds (the two there are belong to the
  threads, `transport.c:628`): a transport can be freed while a thread uses it. A refused
  emulator stays in the table, and its client is told that it is connected.
  Followers are not told of a transport that goes offline or is disconnected, and
  the list is cut at 1024 bytes.
- `kill-server` can hit the server started since; of two clients that start one
  together one fails; two versions replace each other's servers; a server that takes
  more than two seconds to die makes the start fail; what it prints before OK counts as
  a failure; a child whose `execl` fails returns as success.
- `s->transport` may be gone when the next part of a request comes; `wait-for` reads a
  transport that may be freed; permission of an unrelated device is what the
  answer may be about; bytes that come with the request for a transport are dropped;
  a stream that `close_all_sockets` closes while it opens gives no status.
  `adb forward --no-rebind` is sent with a second colon (`commandline.c:1584`, parsed in
  `adb.c:1442`).
- `install` returns only the result of the push; a delete after a failed push waits
  for the device for ever; `install-multiple` returns 0 after a failed write; a backup
  that is cut off returns 0; `restore` ignores errors; `persist` never ends.
- sideload: an offset of 2 GB is no int; a file that large has a negative size. A block
  number whose offset wraps past 32 bits is served as the block it wraps to (65536 as 0,
  with blocks of 64 KB), where the product is cut to an int (`commandline.c:598`).
- shell: an escape at the start is not seen, `\n~~.` disconnects, what was read with
  the escape is lost; the end of the input is not told to the device.
- Linux USB: a transfer of 110 bytes that timed out reads as success (the error
  number), and so does a failed empty packet; `usb_bulk_write`'s time limit never ends
  a write, as `ETIMEDOUT` is compared with its positive value (`usb_linux.c:347`);
  `usb_lock` and `transport_lock` are taken in both orders (`Circular`); the handle of a
  device that can only be read is not closed.
- Windows: data of a second write can be lost when the writer closes at once and the
  reader was waiting; a wake-up for the end is missed when main has read exactly a
  payload; a read blocks main; `--used` without a lock can leak a pair; a hook that
  wants both READ and WRITE on a socket pair is refused; an event tells all that is
  wanted; `fdevent_set` selects what was wanted before; a busy socket starves what
  was newly wanted; `adb_socketpair` with a full table closes NULL; `do_usb_open` frees
  fields it has not set.

### 8.3 linktools

- `reactor.py`: the wait is computed from the time before the last look; calls put
  after a stop are not run.
- `_url.py`: a process killed after the last byte and before the file is marked complete
  leaves a file every later request fails on (416); an answer that has no length, or the
  length of an encoded body, and is cut off counts as complete (`_url.py:131`, `153`), and
  one that has the length of an earlier try is compared with that (`_url.py:241`); a server that ignores ranges sends
  everything after the part that is there; the look without the lock may find a partial
  file. `_tools.py`: a second process may remove the archive of the first.
- `utils/_subprocess.py`: the limit is looked at only when no line came; a command
  that has still to exit counts as a success.
- `ssh.py`: what `send` does not take is dropped; the end of one direction ends both; a
  peer that does not read keeps the one thread of both directions in its send, and neither
  the end of the other side nor a stop frees its socket (`ssh.py:262`, `267`);
  stop misses tunnels that are not yet listed.
- `frida/app.py`: a process that dies before it is attached is not started again
  (`cli/commands/android/frida.py:83`); an error before `try` leaves a spawned process
  suspended (`app.py:726`); a late callback takes the next session off the registry.
- containers: one that is moved forward after it was taken does not push what it
  depends on further down; cyclic dependencies recurse for ever.

## 9. Plan

Next, in the order of what they would add:

1. A second stream in `AdbSockets`, for what `close_all_sockets` does to both.
2. The lengths in `SyncTypeOK`: a part never grows past the file or the older one it is
   written over, also when the client is gone.

-------------------------- MODULE ServiceChildren --------------------------
(***************************************************************************)
(* The processes adbd's services start: the shells of shell: and exec:,    *)
(* each with a thread that waits for its exit (services.c), and the        *)
(* screencap of framebuffer:, whose thread copies its output               *)
(* (framebuffer_service.c).  A thread that has no child of its own, fork   *)
(* having failed, waits for any.                                           *)
(***************************************************************************)
EXTENDS Integers, Sequences, FiniteSets

CONSTANTS
  Shells,      \* the shell: and exec: services asked
  Frames,      \* the framebuffer: services asked
  FrameParts,  \* parts of a screencap's output, its header the first
  PipeRoom     \* parts a pipe holds

ASSUME ServiceChildrenAssumption ==
  /\ Shells \cap Frames = {} /\ IsFiniteSet(Shells) /\ IsFiniteSet(Frames)
  /\ FrameParts \in Nat \ {0} /\ PipeRoom \in Nat \ {0}

Services == Shells \cup Frames

VARIABLES
  proc,     \* the process of each: none, running, exited, reaped
  thread,   \* its thread: none, copy (a framebuffer's), wait, told, done
  own,      \* whether the thread waits for a process of its own, or for any
  answered, \* service_to_fd: none, socket, or failed
  number,   \* the number of its socket: 0 before, -1 when there is none
  opened,   \* the services whose socket main has open
  notices,  \* the numbers written to SHELL_EXIT_NOTIFY_FD
  exitRead, \* the services whose socket main was told ended
  written, piped, copied,   \* of a framebuffer: parts written, in the pipe, sent
  known,    \* whether its format is known
  early,    \* history: its process ended before it had written everything
  stolen    \* history: processes another service's thread reaped

frameVars == <<written, piped, copied, known, early>>
childVars == <<proc, thread, own, answered, number, opened, notices, exitRead, frameVars, stolen>>

Bad == -1      \* ret_fd when no subprocess could be made
Numbers == 1 .. Cardinality(Services)
FreeNumber(n) == \A s \in opened : number[s] # n
Lowest(n) == FreeNumber(n) /\ \A m \in Numbers : m < n => ~ FreeNumber(m)

ChildrenInit ==
  /\ proc = [s \in Services |-> "none"] /\ thread = [s \in Services |-> "none"]
  /\ own = [s \in Services |-> TRUE] /\ answered = [s \in Services |-> "none"]
  /\ number = [s \in Services |-> 0] /\ opened = {} /\ notices = <<>> /\ exitRead = {}
  /\ written = [s \in Frames |-> 0] /\ piped = written /\ copied = written
  /\ known \in [Frames -> BOOLEAN] /\ early = {} /\ stolen = {}

-----------------------------------------------------------------------------
\* main: service_to_fd.

Starts(s, p, t, o) ==
  /\ proc' = [proc EXCEPT ![s] = p]
  /\ thread' = [thread EXCEPT ![s] = t]
  /\ own' = [own EXCEPT ![s] = o]
  /\ UNCHANGED <<notices, exitRead, frameVars, stolen>>

GivesSocket(s) ==
  \E n \in Numbers :
    /\ Lowest(n)
    /\ number' = [number EXCEPT ![s] = n]
    /\ opened' = opened \cup {s}
    /\ answered' = [answered EXCEPT ![s] = "socket"]

GivesNone(s) ==
  /\ number' = [number EXCEPT ![s] = Bad]
  /\ answered' = [answered EXCEPT ![s] = "failed"] /\ UNCHANGED opened

\* create_subproc_thread when create_subproc_pty or create_subproc_raw forks.
ShellStarts(s) == Starts(s, "running", "wait", TRUE) /\ GivesSocket(s)
\* The same when there is no terminal or socket pair, or fork fails: pid is -1 and the
\* thread is created nevertheless.
ShellFails(s) == Starts(s, "none", "wait", FALSE) /\ GivesNone(s)
\* The same when there is no thread: the socket is closed, the process goes on.
ShellUnwatched(s) == Starts(s, "running", "none", TRUE) /\ GivesNone(s)

\* create_service_thread, and framebuffer_service until it reads.
FrameStarts(s) == Starts(s, "running", "copy", TRUE) /\ GivesSocket(s)
FrameForkFails(s) == Starts(s, "none", "wait", FALSE) /\ GivesSocket(s)
FramePipeFails(s) == Starts(s, "none", "done", TRUE) /\ GivesSocket(s)
FrameFails(s) == Starts(s, "none", "none", TRUE) /\ GivesNone(s)

ServiceAsked(s) ==
  /\ answered[s] = "none"
  /\ \/ s \in Shells /\ (ShellStarts(s) \/ ShellFails(s) \/ ShellUnwatched(s))
     \/ s \in Frames /\ (FrameStarts(s) \/ FrameForkFails(s) \/ FramePipeFails(s) \/ FrameFails(s))

\* main closes the socket of a service, at the host's wish or at its end of file.
SocketClosed(s) ==
  /\ s \in opened
  /\ opened' = opened \ {s}
  /\ UNCHANGED <<proc, thread, own, answered, number, notices, exitRead, frameVars, stolen>>

\* fdevent_subproc_event_func reads a number, and looks whose socket it is now.
NoticeRead ==
  /\ notices # <<>>
  /\ notices' = Tail(notices)
  /\ exitRead' = exitRead \cup {s \in opened : number[s] = Head(notices).fd}
  /\ UNCHANGED <<proc, thread, own, answered, number, opened, frameVars, stolen>>

-----------------------------------------------------------------------------
\* The processes.

ScreencapWrites(s) ==
  /\ s \in Frames /\ proc[s] = "running"
  /\ written[s] < FrameParts /\ piped[s] < PipeRoom
  /\ written' = [written EXCEPT ![s] = @ + 1]
  /\ piped' = [piped EXCEPT ![s] = @ + 1]
  /\ UNCHANGED <<proc, thread, own, answered, number, opened, notices, exitRead, copied, known,
                 early, stolen>>

ProcessExits(s) ==
  /\ proc[s] = "running"
  /\ proc' = [proc EXCEPT ![s] = "exited"]
  /\ early' = IF s \in Frames /\ written[s] < FrameParts THEN early \cup {s} ELSE early
  /\ UNCHANGED <<thread, own, answered, number, opened, notices, exitRead, written, piped, copied,
                 known, stolen>>

-----------------------------------------------------------------------------
\* framebuffer_service: a part is read and sent; an unknown format, or a socket that
\* main closed, ends it.  Reading waits even when the process is gone, as the service
\* holds the writing end of the pipe too.
FrameCopies(s) ==
  /\ thread[s] = "copy" /\ piped[s] > 0
  /\ piped' = [piped EXCEPT ![s] = @ - 1]
  /\ LET sent == known[s] /\ s \in opened
     IN /\ copied' = IF sent THEN [copied EXCEPT ![s] = @ + 1] ELSE copied
        /\ thread' = IF sent /\ copied'[s] < FrameParts THEN thread
                          ELSE [thread EXCEPT ![s] = "wait"]
  /\ UNCHANGED <<proc, own, answered, number, opened, notices, exitRead, written, known, early,
                 stolen>>

NoneLeft == \A c \in Services : proc[c] \notin {"running", "exited"}

\* Mutant: the end is not told.
OwnNotTold(s) ==
  /\ own[s] /\ proc[s] = "exited"
  /\ proc' = [proc EXCEPT ![s] = "reaped"]
  /\ thread' = [thread EXCEPT ![s] = "done"]
  /\ UNCHANGED stolen

\* waitpid of the process's own number, when it ended.
OwnReaped(s) ==
  /\ own[s] /\ proc[s] = "exited"
  /\ proc' = [proc EXCEPT ![s] = "reaped"]
  /\ thread' = [thread EXCEPT ![s] = IF s \in Shells THEN "told" ELSE "done"]
  /\ UNCHANGED stolen

\* The same when another thread reaped it: the framebuffer's goes on, a shell's asks
\* again and again.
OwnStolen(s) ==
  /\ own[s] /\ proc[s] = "reaped" /\ s \in Frames
  /\ thread' = [thread EXCEPT ![s] = "done"]
  /\ UNCHANGED <<proc, stolen>>

\* waitpid(-1): any process that ended.  A shell's thread does not take it for its own.
AnyReaped(s) ==
  /\ ~ own[s]
  /\ \E c \in Services :
       /\ proc[c] = "exited"
       /\ proc' = [proc EXCEPT ![c] = "reaped"]
       /\ stolen' = stolen \cup {c}
  /\ thread' = [thread EXCEPT ![s] = IF s \in Frames THEN "done" ELSE "wait"]

\* waitpid(-1) fails when there is no process: -1 is what a shell's thread waits for.
NoneReaped(s) ==
  /\ ~ own[s] /\ NoneLeft
  /\ thread' = [thread EXCEPT ![s] = IF s \in Shells THEN "told" ELSE "done"]
  /\ UNCHANGED <<proc, stolen>>

ThreadWaits(s) ==
  /\ thread[s] = "wait"
  /\ OwnReaped(s) \/ OwnStolen(s) \/ AnyReaped(s) \/ NoneReaped(s)
  /\ UNCHANGED <<own, answered, number, opened, notices, exitRead, frameVars>>

\* The end of subproc_waiter_service: the number of the socket is written, which main
\* may have closed or given to another service by now.
ThreadTells(s) ==
  /\ thread[s] = "told"
  /\ notices' = Append(notices, [fd |-> number[s], of |-> s])
  /\ thread' = [thread EXCEPT ![s] = "done"]
  /\ UNCHANGED <<proc, own, answered, number, opened, exitRead, frameVars, stolen>>

ThreadStep(s) == (s \in Frames /\ FrameCopies(s)) \/ ThreadWaits(s) \/ ThreadTells(s)

ChildrenNext ==
  \/ NoticeRead
  \/ \E s \in Services :
       ServiceAsked(s) \/ SocketClosed(s) \/ ScreencapWrites(s) \/ ProcessExits(s) \/ ThreadStep(s)

-----------------------------------------------------------------------------
ChildrenTypeOK ==
  /\ proc \in [Services -> {"none", "running", "exited", "reaped"}]
  /\ thread \in [Services -> {"none", "copy", "wait", "told", "done"}]
  /\ own \in [Services -> BOOLEAN] /\ answered \in [Services -> {"none", "socket", "failed"}]
  /\ number \in [Services -> {0, Bad} \cup Numbers] /\ opened \subseteq Services
  /\ notices \in Seq([fd : {Bad} \cup Numbers, of : Services]) /\ exitRead \subseteq Services
  /\ piped \in [Frames -> 0 .. PipeRoom]
  /\ written \in [Frames -> 0 .. FrameParts] /\ copied \in [Frames -> 0 .. FrameParts]
  /\ known \in [Frames -> BOOLEAN] /\ early \subseteq Frames /\ stolen \subseteq Services

\* A framebuffer: answer that ended with its socket open and its process's output
\* understood is the whole screen (framebuffer_service.c, the copy loop).
FrameWhole ==
  \A s \in Frames : thread[s] = "done" /\ proc[s] # "none" /\ s \in opened /\ known[s] =>
    copied[s] = FrameParts

\* main is told that a service ended only when its process did, or when the number of
\* its socket was that of another service before (services.c, subproc_waiter_service).
ToldOfItsExit ==
  \A s \in exitRead :
    \/ proc[s] \notin {"none", "running"}
    \/ \E c \in Shells \ {s} : number[c] = number[s] /\ thread[c] = "done"

\* The exit of a shell that has a thread is told, by the number of its socket, unless a
\* service whose fork failed took it away, whose thread waits for any process
\* (services.c, create_subproc_thread).
ExitsTold ==
  \A s \in Shells :
    (proc[s] = "exited" /\ thread[s] = "wait") ~>
      (s \in stolen \/ \E i \in DOMAIN notices : notices[i] = [fd |-> number[s], of |-> s])

\* The thread of a framebuffer: service that forked ends, unless the format is unknown or the socket
\* was closed, when nobody reads a process that goes on writing; or the process ended
\* early, when it waits for its own end of the pipe (framebuffer_service.c).
FramesEnd ==
  \A s \in Frames :
    (thread[s] \in {"copy", "wait"} /\ own[s]) ~>
      (thread[s] = "done" \/ ~ known[s] \/ s \notin opened \/ s \in early)

\* The children of adbd's services (services.c, framebuffer_service.c): a service is told of
\* the exit of its own child and of no other, and each frame is whole.
ChildrenCorrect ==
  /\ []ChildrenTypeOK /\ []FrameWhole /\ []ToldOfItsExit
  /\ ExitsTold /\ FramesEnd
=============================================================================

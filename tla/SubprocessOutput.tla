-------------------------- MODULE SubprocessOutput --------------------------
(***************************************************************************)
(* The output of a command (utils/_subprocess.py) and what a tool makes of *)
(* it (_tools.py, exec): a thread per stream puts lines on one queue, one  *)
(* or more threads take them off until both streams have ended or the time *)
(* is up.                                                                  *)
(***************************************************************************)
EXTENDS Integers, Sequences, FiniteSets, SequencesExt

CONSTANTS
  Readers,   \* the threads that read the output
  Owner,     \* the one of them that is Tool.exec, the others are in Popen.exec
  MaxLines,  \* lines the command writes to a stream
  Limited    \* whether there is a time limit

ASSUME OutputAssumption == Owner \in Readers /\ MaxLines \in Nat

Streams == {"out", "err"}

VARIABLES
  pipe,      \* each stream's pipe: lines not read yet
  written,   \* lines written to it
  open,      \* whether the command still has it open
  exit,      \* the command: running, or its status
  finished,  \* _stdout_finished, _stderr_finished; whether each is no, set, or set and
             \* (None, None) put
  queue,     \* _queue: lines, and End
  step,      \* each caller: alive (it looks at is_alive), get, drain, poll, or ended
  taken,     \* the lines it got
  answer,    \* what exec returned: None, ok or error
  late       \* whether the time is up

commandVars == <<written, open, exit>>
subVars == <<pipe, commandVars, finished, queue, step, taken, answer, late>>

End == [stream |-> "end", line |-> 0]
None == "none"
Line(s, n) == [stream |-> s, line |-> n]

SubInit ==
  /\ pipe = [s \in Streams |-> <<>>] /\ written = [s \in Streams |-> 0]
  /\ open = [s \in Streams |-> TRUE] /\ exit = "running"
  /\ finished = [s \in Streams |-> "no"] /\ queue = <<>>
  /\ step = [r \in Readers |-> "alive"] /\ taken = [r \in Readers |-> <<>>]
  /\ answer = [r \in Readers |-> None] /\ late = FALSE

-----------------------------------------------------------------------------
\* The command: it writes, closes its streams, exits; exiting closes both.
Writes(s) ==
  /\ exit = "running" /\ open[s] /\ written[s] < MaxLines
  /\ written' = [written EXCEPT ![s] = @ + 1]
  /\ pipe' = [pipe EXCEPT ![s] = Append(@, written'[s])]
  /\ UNCHANGED <<open, exit, finished, queue, step, taken, answer, late>>

Closes(s) ==
  /\ exit = "running" /\ open[s]
  /\ open' = [open EXCEPT ![s] = FALSE]
  /\ UNCHANGED <<pipe, written, exit, finished, queue, step, taken, answer, late>>

Exits(status) ==
  /\ exit = "running"
  /\ exit' = status
  /\ open' = [s \in Streams |-> FALSE]
  /\ UNCHANGED <<pipe, written, finished, queue, step, taken, answer, late>>

Expires ==
  /\ Limited /\ ~ late
  /\ late' = TRUE
  /\ UNCHANGED <<pipe, commandVars, finished, queue, step, taken, answer>>

-----------------------------------------------------------------------------
\* The threads of _iter_lines.

ReadLine(s) ==
  /\ pipe[s] # <<>>
  /\ pipe' = [pipe EXCEPT ![s] = Tail(@)]
  /\ queue' = Append(queue, Line(s, Head(pipe[s])))
  /\ UNCHANGED <<commandVars, finished, step, taken, answer, late>>

\* At the end of the stream the event is set,
StreamEnds(s) ==
  /\ ~ open[s] /\ pipe[s] = <<>> /\ finished[s] = "no"
  /\ finished' = [finished EXCEPT ![s] = "set"]
  /\ UNCHANGED <<pipe, commandVars, queue, step, taken, answer, late>>

\* and then whoever waits is woken.
EndPut(s) ==
  /\ finished[s] = "set"
  /\ finished' = [finished EXCEPT ![s] = "put"]
  /\ queue' = Append(queue, End)
  /\ UNCHANGED <<pipe, commandVars, step, taken, answer, late>>

-----------------------------------------------------------------------------
\* get_lines and exec.

\* Mutant: the end of one stream is taken for the end of both.
AliveBoth == \A s \in Streams : finished[s] = "no"
Alive == \E s \in Streams : finished[s] = "no"
With(r, item) == IF item = End THEN taken ELSE [taken EXCEPT ![r] = Append(@, item)]

LookAlive(r) ==
  /\ step[r] = "alive"
  /\ step' = [step EXCEPT ![r] = IF Alive THEN "get" ELSE "drain"]
  /\ UNCHANGED <<pipe, commandVars, finished, queue, taken, answer, late>>

Get(r) ==
  /\ step[r] = "get" /\ queue # <<>>
  /\ queue' = Tail(queue)
  /\ taken' = With(r, Head(queue))
  /\ step' = [step EXCEPT ![r] = "alive"]
  /\ UNCHANGED <<pipe, commandVars, finished, answer, late>>

\* Nothing came for a second: only now is the limit looked at.
Nothing(r) ==
  /\ step[r] = "get" /\ queue = <<>>
  /\ step' = [step EXCEPT ![r] = IF late THEN "drain" ELSE "alive"]
  /\ UNCHANGED <<pipe, commandVars, finished, queue, taken, answer, late>>

\* What is left is taken without waiting.
Drain(r) ==
  /\ step[r] = "drain"
  /\ IF queue # <<>>
       THEN /\ queue' = Tail(queue)
            /\ taken' = With(r, Head(queue))
            /\ UNCHANGED step
       ELSE /\ step' = [step EXCEPT ![r] = IF r = Owner THEN "poll" ELSE "ended"]
            /\ UNCHANGED <<queue, taken>>
  /\ UNCHANGED <<pipe, commandVars, finished, answer, late>>

\* Tool.exec: an error if the command ended with one and wrote to stderr; a command
\* that has not ended is no error; it is killed in any case.
Poll(r) ==
  LET wrote == \E k \in DOMAIN taken[r] : taken[r][k].stream = "err" IN
  /\ step[r] = "poll"
  /\ answer' = [answer EXCEPT ![r] = IF exit = "failed" /\ wrote THEN "error" ELSE "ok"]
  /\ exit' = IF exit = "running" THEN "killed" ELSE exit
  /\ open' = [s \in Streams |-> FALSE]
  /\ step' = [step EXCEPT ![r] = "ended"]
  /\ UNCHANGED <<pipe, written, finished, queue, taken, late>>

StreamStep(s) == ReadLine(s) \/ StreamEnds(s) \/ EndPut(s)
ReaderStep(r) == LookAlive(r) \/ Get(r) \/ Nothing(r) \/ Drain(r) \/ Poll(r)

SubNext ==
  \/ \E s \in Streams : Writes(s) \/ Closes(s) \/ StreamStep(s)
  \/ \E status \in {"zero", "failed"} : Exits(status)
  \/ Expires
  \/ \E r \in Readers : ReaderStep(r)

-----------------------------------------------------------------------------
\* Types.
SubTypeOK ==
  /\ exit \in {"running", "zero", "failed", "killed"}
  /\ (exit # "running" => \A s \in Streams : ~ open[s])
  /\ \A s \in Streams : finished[s] \in {"no", "set", "put"} /\ written[s] \in 0..MaxLines
  /\ \A r \in Readers : step[r] \in {"alive", "get", "drain", "poll", "ended"}
  /\ ToSet(queue) \subseteq {Line(s, n) : s \in Streams, n \in 1..MaxLines} \cup {End}

\* The lines of a stream reach each reader in the order they were written, and one
\* reader only; when the readers have ended, and not for the limit, every line that
\* was written has been taken, those too that came with the end of the command.
LinesKept ==
  /\ \A r \in Readers : \A i, k \in DOMAIN taken[r] :
       i < k /\ taken[r][i].stream = taken[r][k].stream => taken[r][i].line < taken[r][k].line
  /\ \A r, q \in Readers : r # q => ToSet(taken[r]) \cap ToSet(taken[q]) = {}
  /\ ((\A r \in Readers : step[r] = "ended") /\ ~ late) =>
       \A s \in Streams : \A n \in 1..written[s] : \E r \in Readers : Line(s, n) \in ToSet(taken[r])

\* A tool whose command failed, and said so on stderr to it, is not taken for a
\* success, unless the command had still to exit (_tools.py, exec).
FailureTold ==
  answer[Owner] = "ok" /\ exit = "failed" =>
    \A k \in DOMAIN taken[Owner] : taken[Owner][k].stream # "err"

\* Every reader ends when the command has closed its streams, though others took the
\* end off the queue, or when the time is up and the command stops writing: the second
\* get waits is what the comment in get_lines is about.
ReadersEnd ==
  (late \/ \A s \in Streams : ~ open[s]) ~> \A r \in Readers : step[r] = "ended"

\* A command's output (linktools/utils/_subprocess.py): its lines kept and in order, its
\* failure told.
OutputCorrect == SubTypeOK /\ LinesKept /\ FailureTold
=============================================================================

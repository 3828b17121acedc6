------------------------------ MODULE UrlFile ------------------------------
(***************************************************************************)
(* The files linktools fetches (_url.py) and what is made of them: a       *)
(* frida-server that is unpacked (frida/android.py), a tool that is        *)
(* unpacked or moved into place (_tools.py).  Several processes want the   *)
(* same file; a file lock orders them; the connection drops, downloads are *)
(* resumed and tried again, and a process may be killed at any step.       *)
(***************************************************************************)
EXTENDS Integers, Sequences, FiniteSets

CONSTANTS
  Users,    \* the processes
  Size,     \* parts of the remote file
  Retry,    \* retry, the tries after the first
  Lengths,  \* lengths an answer may give that are not its own
  MaxFails, \* connections refused or dropped
  MaxKills  \* processes killed

Free == "free"

ASSUME UrlFileAssumption ==
  Size \in Nat \ {0} /\ Retry \in Nat /\ Lengths \subseteq Nat /\ Free \notin Users

VARIABLES
  kind,      \* what is made of the file: executable, unpack or move
  lock,      \* the process that holds the FileLock
  file,      \* root_path/file: the parts it has in order, or NoFile
  completed, \* context.completed
  size,      \* context.file_size, the length an answer is to have; NoSize is None
  temp,      \* the file a tool's save leaves in temp_dir, or NoFile
  dest,      \* what is made: whether it exists, and its parts
  at,        \* each process
  tries,     \* tries it has left
  body,      \* the answer it reads: where it starts and how much it has read
  source,    \* the file it opened to unpack
  fails, kills,
  ignored,   \* history: a server sent everything to one that had a part
  loose,     \* history: what came was compared with another length than the answer's
  early,     \* history: a process was killed with all parts there, not completed
  torn       \* history: unpacking was stopped half-way

fileVars == <<file, completed, size>>
madeVars == <<temp, dest, source>>
readVars == <<tries, body>>
histVars == <<ignored, loose, early, torn>>
urlVars == <<kind, lock, fileVars, madeVars, at, readVars, fails, kills, histVars>>

NoFile == <<0>>
NoSize == -1
NoBody == [from |-> 0, read |-> 0]
Whole == [i \in 1..Size |-> i]
Parts == 1..Size
Executable == kind = "executable"

UrlInit ==
  /\ kind \in {"executable", "unpack", "move"}
  /\ lock = Free /\ file = NoFile /\ completed = FALSE /\ size = NoSize
  /\ temp = NoFile /\ dest = [there |-> FALSE, parts |-> {}]
  /\ at = [p \in Users |-> "start"] /\ tries = [p \in Users |-> 0]
  /\ body = [p \in Users |-> NoBody]
  /\ source = [p \in Users |-> NoFile]
  /\ fails = 0 /\ kills = 0 /\ ignored = FALSE /\ loose = FALSE
  /\ early = FALSE /\ torn = FALSE

Goes(p, where) == at' = [at EXCEPT ![p] = where]

-----------------------------------------------------------------------------
\* download and prepare up to the lock: what exists is taken as it is, unlocked.
Begin(p) ==
  /\ at[p] = "start"
  /\ Goes(p, IF ~ dest.there THEN "lock" ELSE IF dest.parts = Parts THEN "done" ELSE "partial")
  /\ UNCHANGED <<kind, lock, fileVars, madeVars, readVars, fails, kills, histVars>>

\* The lock; an executable looks again.  save: a file that is complete is used again,
\* any other is the beginning of this download.
Enter(p) ==
  /\ at[p] = "lock" /\ lock = Free
  /\ IF Executable /\ dest.there
       THEN /\ Goes(p, IF dest.parts = Parts THEN "done" ELSE "partial")
            /\ UNCHANGED <<lock, fileVars, readVars>>
       ELSE /\ lock' = p
            /\ IF file # NoFile /\ completed
                 THEN Goes(p, "saved") /\ UNCHANGED <<fileVars, readVars>>
               ELSE /\ size' = NoSize /\ completed' = FALSE /\ UNCHANGED <<file, body>>
                    /\ tries' = [tries EXCEPT ![p] = Retry + 1]
                    /\ Goes(p, "try")
  /\ UNCHANGED <<kind, madeVars, fails, kills, histVars>>

Created == IF file = NoFile THEN <<>> ELSE file

\* Mutant: the lock is released by every try.
TryFailsUnlocked(p) ==
  /\ tries' = [tries EXCEPT ![p] = @ - 1]
  /\ Goes(p, IF tries[p] = 1 THEN "raised" ELSE "try")
  /\ lock' = Free

\* A try has failed: another one, or the error is raised and the lock released.
TryFails(p) ==
  /\ tries' = [tries EXCEPT ![p] = @ - 1]
  /\ IF tries[p] = 1 THEN Goes(p, "raised") /\ lock' = Free
     ELSE Goes(p, "try") /\ UNCHANGED lock

\* The request: refused, or for a range past the end, or answered from there; a server
\* that does not know ranges answers with everything.  An answer may have no length, and
\* the one of an earlier try stays; or the length of an encoded body, which is not what
\* is counted.  An encoded part that cannot be decoded is like a connection that drops.
Request(p) ==
  /\ at[p] = "try"
  /\ file' = Created
  /\ \/ /\ fails < MaxFails /\ fails' = fails + 1
        /\ TryFails(p) /\ UNCHANGED <<body, size, ignored, loose>>
     \/ /\ Len(file') >= Size
        /\ TryFails(p) /\ UNCHANGED <<body, size, ignored, loose, fails>>
     \/ \E start \in {0, Len(file')} :
          /\ start < Size
          /\ body' = [body EXCEPT ![p] = [from |-> start, read |-> 0]]
          /\ UNCHANGED size \/ size' \in {Size - start} \cup Lengths
          /\ loose' = (loose \/ size' # Size - start)
          /\ ignored' = (ignored \/ start # Len(file'))
          /\ Goes(p, "body") /\ UNCHANGED <<lock, tries, fails>>
  /\ UNCHANGED <<kind, completed, madeVars, kills, early, torn>>

Ended(p) == body[p].from + body[p].read = Size

Chunk(p) ==
  /\ at[p] = "body" /\ ~ Ended(p)
  /\ file' = Append(file, body[p].from + body[p].read + 1)
  /\ body' = [body EXCEPT ![p].read = @ + 1]
  /\ UNCHANGED <<kind, lock, completed, size, madeVars, at, tries, fails, kills, histVars>>

\* The answer ends, or the connection drops, which the library may take for the end:
\* what came is compared with the length, if there is one, and the file with nothing.
Body(p) ==
  /\ at[p] = "body"
  /\ IF Ended(p) THEN UNCHANGED fails ELSE fails < MaxFails /\ fails' = fails + 1
  /\ \/ /\ ~ Ended(p) \/ size > body[p].read
        /\ TryFails(p) /\ UNCHANGED completed
     \/ /\ size <= body[p].read /\ file # <<>>
        /\ completed' = TRUE /\ Goes(p, "saved") /\ UNCHANGED lock
        /\ tries' = [tries EXCEPT ![p] = 0]
  /\ body' = [body EXCEPT ![p] = NoBody]
  /\ UNCHANGED <<kind, file, size, madeVars, kills, histVars>>

Cleared == file' = NoFile /\ completed' = FALSE /\ size' = NoSize

\* An executable is opened for writing under its final name, the lock still held; for
\* a tool the file is renamed, the cache cleared and the lock released.
Saved(p) ==
  /\ at[p] = "saved"
  /\ IF Executable
       THEN /\ source' = [source EXCEPT ![p] = file]
            /\ dest' = [there |-> TRUE, parts |-> {}]
            /\ Goes(p, "copy")
            /\ UNCHANGED <<temp, lock, fileVars>>
       ELSE /\ temp' = file /\ Cleared /\ lock' = Free
            /\ Goes(p, "place")
            /\ UNCHANGED <<source, dest>>
  /\ UNCHANGED <<kind, readVars, fails, kills, histVars>>

\* The tool's archive is opened, or the file moved, unless another one took it away.
Place(p) ==
  /\ at[p] = "place"
  /\ IF temp = NoFile THEN Goes(p, "raised") /\ UNCHANGED <<temp, dest, source>>
     ELSE IF kind = "unpack"
       THEN /\ source' = [source EXCEPT ![p] = temp]
            /\ Goes(p, "copy") /\ UNCHANGED <<temp, dest>>
       ELSE /\ dest' = [there |-> TRUE, parts |-> IF temp = Whole THEN Parts ELSE {}]
            /\ temp' = NoFile
            /\ Goes(p, IF temp = Whole THEN "done" ELSE "partial") /\ UNCHANGED source
  /\ UNCHANGED <<kind, lock, fileVars, readVars, fails, kills, histVars>>

\* One part is unpacked, or written once more with what it had; of a file that is not
\* what the server has, none is.
Copy(p) ==
  /\ at[p] = "copy" /\ source[p] = Whole /\ dest.parts # Parts
  /\ \E part \in Parts \ dest.parts :
       /\ \A other \in Parts : other < part => other \in dest.parts
       /\ dest' = [there |-> TRUE, parts |-> dest.parts \cup {part}]
  /\ UNCHANGED <<kind, lock, fileVars, temp, source, at, readVars, fails, kills, histVars>>

CopyFails(p) ==
  /\ at[p] = "copy" /\ source[p] # Whole
  /\ Goes(p, "raised")
  /\ torn' = (torn \/ dest.there)
  /\ lock' = IF Executable THEN Free ELSE lock
  /\ UNCHANGED <<kind, fileVars, madeVars, readVars, fails, kills, ignored, loose, early>>

\* All is there: the cache is cleared, or the archive removed.
CopyEnds(p) ==
  /\ at[p] = "copy" /\ source[p] = Whole /\ dest.parts = Parts
  /\ IF Executable THEN Cleared /\ lock' = Free /\ Goes(p, "done") /\ UNCHANGED temp
     ELSE /\ Goes(p, IF temp = NoFile THEN "raised" ELSE "done")
          /\ temp' = NoFile /\ UNCHANGED <<fileVars, lock>>
  /\ UNCHANGED <<kind, dest, source, readVars, fails, kills, histVars>>

\* A process is killed, and with it goes its lock; it is started again.
Kill(p) ==
  /\ at[p] \in {"try", "body", "saved", "place", "copy"}
  /\ kills < MaxKills /\ kills' = kills + 1
  /\ Goes(p, "start")
  /\ lock' = IF lock = p THEN Free ELSE lock
  /\ early' = (early \/ (at[p] \in {"try", "body"} /\ Len(Created) >= Size))
  /\ torn' = (torn \/ (at[p] = "copy" /\ dest.there /\ dest.parts # Parts))
  /\ body' = [body EXCEPT ![p] = NoBody] /\ tries' = [tries EXCEPT ![p] = 0]
  /\ source' = [source EXCEPT ![p] = NoFile]
  /\ UNCHANGED <<kind, fileVars, temp, dest, fails, ignored, loose>>

UserStep(p) ==
  \/ Begin(p) \/ Enter(p) \/ Request(p) \/ Chunk(p) \/ Body(p)
  \/ Saved(p) \/ Place(p) \/ Copy(p) \/ CopyFails(p) \/ CopyEnds(p)

UrlNext == \E p \in Users : UserStep(p) \/ Kill(p)

-----------------------------------------------------------------------------
\* Types.
UrlTypeOK ==
  /\ lock \in Users \cup {Free} /\ completed \in BOOLEAN
  /\ size \in {NoSize} \cup 1..Size \cup Lengths
  /\ dest.parts \subseteq Parts /\ (dest.parts # {} => dest.there)
  /\ \A p \in Users :
       /\ at[p] \in {"start", "lock", "try", "body", "saved", "place", "copy", "done", "partial",
                     "raised"}
       /\ tries[p] \in 0..Retry + 1 /\ body[p].from + body[p].read <= Size

\* What misleads the check of an answer: a server that does not know ranges sent
\* everything once more, or a connection dropped and an answer's length was not known.
Misled == ignored \/ (loose /\ fails > 0)

\* A file that counts as complete is the server's, however often the connection
\* dropped, the download was resumed or a process was killed, as long as every answer
\* was compared with its own length and continued the file (_url.py, download).
SavedWhole == completed /\ file # NoFile => file = Whole \/ Misled

\* Downloading, and unpacking an executable, is done by one process, which holds the
\* lock: the lock is taken twice and must be released as often.
OneWriter ==
  \A p \in Users :
    at[p] \in {"try", "body", "saved"} \/ (at[p] = "copy" /\ Executable) => lock = p

\* Whoever gets a partial thing got it while another one unpacked, or after one was
\* stopped half-way, or a file that was not whole was moved into place: the look without
\* the lock is not safe (frida/android.py, download; _tools.py, prepare).  An executable
\* that was unpacked under the lock is whole.
PartialOnlyRaced ==
  [][\A p \in Users :
       at'[p] = "partial" /\ at[p] # "partial" =>
         \/ torn \/ Misled
         \/ \E q \in Users \ {p} : at[q] = "copy"]_urlVars

\* An error is raised only for connections that failed in every try, for a file that
\* was whole when its process was killed, for a server that ignores ranges or does not
\* tell the length of its answers, or to a tool whose archive another process took.
ErrorsExplained ==
  \A p \in Users :
    at[p] = "raised" =>
      \/ fails > Retry \/ early \/ ignored \/ loose
      \/ ~ Executable /\ (kills > 0 \/ \E q \in Users \ {p} : at[q] \in {"done", "partial"})

\* Once one has begun, everyone gets a result or an error, though others fail or are killed
\* with the lock.
UsersEnd ==
  (\E p \in Users : at[p] # "start") ~> \A p \in Users : at[p] \in {"done", "partial", "raised"}

\* Files fetched by their address (linktools/_url.py): saved whole, written by one process at a
\* time, failing only for a reason.
UrlCorrect == UrlTypeOK /\ SavedWhole /\ OneWriter /\ ErrorsExplained
=============================================================================

------------------------------ MODULE FridaApp ------------------------------
(***************************************************************************)
(* A frida application (frida/app.py): the reactor's worker attaches to    *)
(* processes, loads the script into their sessions and reloads it when its *)
(* file changes; frida's own threads report processes that were spawned,   *)
(* sessions that ended and files that changed.  Processes die, and their   *)
(* pids come back, at any point.                                           *)
(***************************************************************************)
EXTENDS Integers, Sequences, FiniteSets, SequencesExt

CONSTANTS
  Pids,        \* the pids of the target's processes
  AutoStart,   \* --auto-start
  MaxSpawns,   \* processes ever started
  MaxEnds,     \* processes that die and sessions that drop
  MaxWrites    \* changes of the script's file

ASSUME FridaAssumption == IsFiniteSet(Pids) /\ {MaxSpawns, MaxEnds, MaxWrites} \subseteq Nat

VARIABLES
  proc,     \* each pid: none, suspended or running
  spawns,   \* processes started so far
  deaths,     \* processes and sessions ended so far
  jobs,     \* what the reactor has to do, in order
  stopping, \* no, asked (reactor.stop was called) or done
  loader,   \* what _load_script has come to: a record with "at"
  sess,     \* sessions attached so far, by number
  registry, \* _sessions: each pid's session, or 0
  ending,   \* sessions whose detached callback is on its way
  stranded, \* history: pids whose session ended before their load could resume them
  lost,     \* history: sessions another one's callback took off the registry
  version,  \* the file's text
  cached,   \* the text the script holds; 0 is none
  unseen,   \* whether the monitor has yet to report a change
  change    \* last_change_id

procVars == <<proc, spawns, deaths>>
scriptVars == <<version, cached, unseen, change>>
sessVars == <<sess, registry, ending, lost, stranded>>
fridaVars == <<procVars, jobs, stopping, loader, sessVars, scriptVars>>

Load(p, resume) == [do |-> "load", pid |-> p, resume |-> resume]
NoLoad == [at |-> "idle"]

FridaInit ==
  /\ \E targets \in SUBSET Pids :   \* inject_all, or a spawn if there is none
       /\ proc = [p \in Pids |-> IF p \in targets THEN "running" ELSE "none"]
       /\ jobs = SetToSeq({Load(p, FALSE) : p \in targets})
  /\ spawns = 0 /\ deaths = 0 /\ stopping = "no" /\ loader = NoLoad
  /\ sess = <<>> /\ registry = [p \in Pids |-> 0] /\ ending = {} /\ lost = {} /\ stranded = {}
  /\ version = 1 /\ cached = 1 /\ unseen = FALSE /\ change = 0

Attached(s) == ~ sess[s].detached
Lives(p) == proc[p] # "none"
\* The sessions property, which drops those that were detached.
Registered == {s \in DOMAIN sess : registry[sess[s].pid] = s /\ Attached(s)}

-----------------------------------------------------------------------------
\* Processes, frida's threads, the file.

\* The callback of a detached session is called if it was registered.
Detaches(ids) ==
  /\ sess' = [s \in DOMAIN sess |-> IF s \in ids THEN [sess[s] EXCEPT !.detached = TRUE]
                                         ELSE sess[s]]
  /\ ending' = ending \cup {s \in ids : sess[s].watched}

Dies(p) ==
  /\ Lives(p) /\ deaths < MaxEnds
  /\ deaths' = deaths + 1
  /\ proc' = [proc EXCEPT ![p] = "none"]
  /\ Detaches({s \in DOMAIN sess : sess[s].pid = p /\ Attached(s)})
  /\ UNCHANGED <<spawns, jobs, stopping, loader, registry, lost, stranded, scriptVars>>

\* A session ends and the process lives on: it was replaced, or the session lost.
Drops(s) ==
  /\ Attached(s) /\ deaths < MaxEnds
  /\ deaths' = deaths + 1
  /\ Detaches({s})
  /\ UNCHANGED <<proc, spawns, jobs, stopping, loader, registry, lost, stranded, scriptVars>>

Starts(p) ==
  /\ ~ Lives(p) /\ spawns < MaxSpawns
  /\ proc' = [proc EXCEPT ![p] = "suspended"]
  /\ spawns' = spawns + 1
  /\ UNCHANGED deaths

\* on_spawn_added, in a thread of its own, for a process whose name matches.
SpawnAdded(p) ==
  /\ stopping # "done"
  /\ Starts(p)
  /\ jobs' = Append(jobs, Load(p, TRUE))
  /\ UNCHANGED <<stopping, loader, sessVars, scriptVars>>

\* on_detached: whichever session has the pid by now leaves the registry.
DetachedCallback(s) ==
  LET p == sess[s].pid IN
  /\ s \in ending
  /\ ending' = ending \ {s}
  /\ registry' = [registry EXCEPT ![p] = 0]
  /\ lost' = IF registry[p] \notin {0, s} THEN lost \cup {registry[p]} ELSE lost
  /\ jobs' = jobs \o <<[do |-> "cancel", session |-> s], [do |-> "detached", session |-> s]>>
  /\ UNCHANGED <<procVars, stopping, loader, sess, stranded, scriptVars>>

FileWritten ==
  /\ version <= MaxWrites
  /\ version' = version + 1
  /\ unseen' = TRUE
  /\ UNCHANGED <<procVars, jobs, stopping, loader, sessVars, cached, change>>

\* on_change_handler: the text is dropped, and half a second later looked at.
ChangeSeen ==
  /\ unseen /\ stopping # "done"
  /\ unseen' = FALSE /\ cached' = 0
  /\ change' = change + 1
  /\ jobs' = Append(jobs, [do |-> "change", id |-> change'])
  /\ UNCHANGED <<procVars, stopping, loader, sessVars, version>>

\* stop, or an error that stops; run then calls reactor.stop.
StopAsked ==
  /\ stopping = "no"
  /\ stopping' = "asked"
  /\ jobs' = Append(jobs, [do |-> "stop"])
  /\ UNCHANGED <<procVars, loader, sessVars, scriptVars>>

-----------------------------------------------------------------------------
\* The reactor's worker, at a load.

\* The next call: the first, or a delayed one, or the first after delayed ones.
Due(i) ==
  /\ loader = NoLoad /\ stopping # "done"
  /\ \/ jobs[i].do = "change"
     \/ \A k \in 1..i - 1 : jobs[k].do = "change"

Rest(i) == RemoveAt(jobs, i)

\* get_session and enumerate_processes: a session that is detached is dropped; a pid
\* that is not there raises.
LoadBegins(i) ==
  LET p == jobs[i].pid
      s == registry[p]
      known == s # 0 /\ Attached(s)
  IN
  /\ Due(i) /\ jobs[i].do = "load"
  /\ jobs' = Rest(i)
  /\ registry' = IF known THEN registry ELSE [registry EXCEPT ![p] = 0]
  /\ loader' = IF known THEN [at |-> "unload", session |-> s, resume |-> jobs[i].resume]
               ELSE IF Lives(p) THEN [at |-> "attach", pid |-> p, resume |-> jobs[i].resume]
               ELSE NoLoad
  /\ UNCHANGED <<procVars, stopping, sess, ending, lost, stranded, scriptVars>>

\* device.attach and set_session; it raises if the process is gone by now.
Attach ==
  LET p == loader.pid IN
  /\ loader.at = "attach"
  /\ IF Lives(p)
       THEN /\ sess' = Append(sess, [pid |-> p, detached |-> FALSE, watched |-> FALSE,
                                     scripts |-> <<>>, told |-> 0])
            /\ registry' = [registry EXCEPT ![p] = Len(sess')]
            /\ loader' = [at |-> "watch", session |-> Len(sess'), resume |-> loader.resume]
       ELSE loader' = NoLoad /\ UNCHANGED <<sess, registry>>
  /\ UNCHANGED <<procVars, jobs, stopping, ending, lost, stranded, scriptVars>>

\* add_session_handler: from here on the end of the session is reported.
Watch ==
  /\ loader.at = "watch"
  /\ sess' = [sess EXCEPT ![loader.session].watched = TRUE]
  /\ loader' = [loader EXCEPT !.at = "unload"]
  /\ UNCHANGED <<procVars, jobs, stopping, registry, ending, lost, stranded, scriptVars>>

\* Mutant: the script that is there stays.
UnloadsNone ==
  /\ loader.at = "unload"
  /\ loader' = [loader EXCEPT !.at = "create"]
  /\ UNCHANGED <<procVars, jobs, stopping, sess, registry, ending, lost, stranded, scriptVars>>

Unload ==
  /\ loader.at = "unload"
  /\ sess' = [sess EXCEPT ![loader.session].scripts = <<>>]
  /\ loader' = [loader EXCEPT !.at = "create"]
  /\ UNCHANGED <<procVars, jobs, stopping, registry, ending, lost, stranded, scriptVars>>

Resumed(p) == IF loader.resume /\ proc[p] = "suspended" THEN [proc EXCEPT ![p] = "running"]
                   ELSE proc

\* create_script raises on a session that has ended, and nothing is resumed; load and
\* load_scripts may raise too, but resume is in their finally.
Create ==
  LET s == loader.session IN
  /\ loader.at = "create"
  /\ loader' = NoLoad
  /\ \/ /\ ~ Attached(s)
        /\ stranded' = IF loader.resume THEN stranded \cup {sess[s].pid} ELSE stranded
        /\ UNCHANGED <<proc, sess, cached>>
     \/ /\ Attached(s)
        /\ UNCHANGED stranded
        /\ cached' = IF cached = 0 THEN version ELSE cached
        /\ sess' = [sess EXCEPT ![s].scripts = Append(@, cached')]
        /\ proc' = Resumed(sess[s].pid)
  /\ UNCHANGED <<spawns, deaths, jobs, stopping, registry, ending, lost, version, unseen, change>>

\* _cancel of the session's callback.
Cancel(i) ==
  /\ Due(i) /\ jobs[i].do = "cancel"
  /\ jobs' = Rest(i)
  /\ sess' = [sess EXCEPT ![jobs[i].session].watched = FALSE]
  /\ UNCHANGED <<procVars, stopping, loader, registry, ending, lost, stranded, scriptVars>>

\* on_session_detached of the android command: with no session left, start again.
SessionDetached(i) ==
  /\ Due(i) /\ jobs[i].do = "detached"
  /\ sess' = [sess EXCEPT ![jobs[i].session].told = @ + 1]
  /\ IF AutoStart /\ Registered = {} /\ spawns < MaxSpawns /\ \E p \in Pids : ~ Lives(p)
       THEN \E p \in Pids : Starts(p) /\ jobs' = Append(Rest(i), Load(p, TRUE))
       ELSE jobs' = Rest(i) /\ UNCHANGED procVars
  /\ UNCHANGED <<stopping, loader, registry, ending, lost, stranded, scriptVars>>

\* on_change_schedule, on_file_change: of several changes only the last one counts.
FileChange(i) ==
  /\ Due(i) /\ jobs[i].do = "change"
  /\ jobs' = Rest(i) \o (IF jobs[i].id = change
                           THEN SetToSeq({Load(sess[s].pid, FALSE) : s \in Registered}) ELSE <<>>)
  /\ UNCHANGED <<procVars, stopping, loader, sessVars, scriptVars>>

\* _stop and _on_stop: what is registered is unloaded and detached; what was
\* scheduled and not run never will be.
Stop(i) ==
  /\ Due(i) /\ jobs[i].do = "stop"
  /\ stopping' = "done" /\ jobs' = <<>>
  /\ sess' = [s \in DOMAIN sess |->
               IF s \in Registered THEN [sess[s] EXCEPT !.detached = TRUE, !.scripts = <<>>]
               ELSE sess[s]]
  /\ UNCHANGED <<procVars, loader, registry, ending, lost, stranded, scriptVars>>

LoaderStep ==
  \/ Attach \/ Watch \/ Unload \/ Create
  \/ \E i \in DOMAIN jobs : LoadBegins(i) \/ Cancel(i) \/ SessionDetached(i)
                              \/ FileChange(i) \/ Stop(i)

FridaNext ==
  \/ \E p \in Pids : Dies(p) \/ SpawnAdded(p)
  \/ \E s \in DOMAIN sess : Drops(s) \/ DetachedCallback(s)
  \/ FileWritten \/ ChangeSeen \/ StopAsked
  \/ LoaderStep

-----------------------------------------------------------------------------
\* Types.
FridaTypeOK ==
  /\ proc \in [Pids -> {"none", "suspended", "running"}] /\ spawns \in 0..MaxSpawns
  /\ stopping \in {"no", "asked", "done"}
  /\ loader.at \in {"idle", "attach", "watch", "unload", "create"}
  /\ registry \in [Pids -> 0..Len(sess)]
  /\ \A s \in DOMAIN sess : sess[s].pid \in Pids
  /\ ending \subseteq DOMAIN sess /\ lost \subseteq DOMAIN sess /\ stranded \subseteq Pids
  /\ version \in 1..MaxWrites + 1 /\ cached \in 0..version /\ unseen \in BOOLEAN

\* A session has one script at a time, and a process one session, but for a session
\* that the late callback of an earlier one took off the registry.
OneScript ==
  /\ \A s \in DOMAIN sess : Len(sess[s].scripts) <= 1
  /\ \A s, t \in DOMAIN sess :
       sess[s].pid = sess[t].pid /\ Attached(s) /\ Attached(t) /\ s # t => {s, t} \cap lost # {}

\* No session is reported as ended while it lives, or twice.
ToldOnce == \A s \in DOMAIN sess : sess[s].told > 0 => sess[s].told = 1 /\ ~ Attached(s)

\* When the application has stopped, it left no session behind but a lost one, and no
\* script in a session it had.
StopLeavesNone ==
  stopping = "done" => \A s \in DOMAIN sess : Attached(s) => s \in lost

\* A spawned process that matches is resumed, whether its script loads or not, unless
\* it dies, its session ends before the load comes to its try, or the application
\* stops.
SpawnResumed ==
  (\E p \in Pids : proc[p] = "suspended") ~>
    stopping # "no" \/ \A p \in Pids : proc[p] = "suspended" => p \in stranded

\* The end of a session whose callback is in place is reported, or the application
\* stops: what is on its way is not forgotten, and comes.
Unheard == ending \cup {jobs[i].session : i \in {k \in DOMAIN jobs : jobs[k].do = "detached"}}
EndsKept ==
  [][\A s \in Unheard : s \in Unheard' \/ sess'[s].told = 1 \/ stopping' = "done"]_fridaVars
EndTold == Unheard # {} ~> Unheard = {} \/ stopping # "no"

\* When the file stops changing every session that is registered gets its last text,
\* though changes, loads and reports of changes cross.
LastTextLoaded ==
  version = MaxWrites + 1 ~>
    stopping # "no" \/ \A s \in Registered : sess[s].scripts = <<MaxWrites + 1>>

\* The frida application (frida/app.py): one script in each process, its end told once, nothing
\* left behind a stop.
FridaCorrect == FridaTypeOK /\ OneScript /\ ToldOnce /\ StopLeavesNone
=============================================================================

---------------------------- MODULE MCLinktools ----------------------------
(***************************************************************************)
(* The parts of linktools that share nothing with one another, checked     *)
(* together: a behaviour is one of one of them.                            *)
(***************************************************************************)
EXTENDS Reactor, UrlFile, SubprocessOutput, ContainerResolve, SshForward,
        FridaApp, TLC

CONSTANTS j1, j2, s1
MCDelay == (j1 :> 0 @@ j2 :> 1 @@ s1 :> 0)

VARIABLE part
others == <<urlVars, subVars, containerVars, sshVars, fridaVars>>
vars == <<part, reactorVars, others>>

\* The parts that do not run stay in one of their initial states.
Pinned ==
  /\ part # "url" => kind = "move"
  /\ part # "frida" => jobs = <<>>
  /\ part # "container" =>
       depends = [c \in Containers |-> {}] /\ installed = {} /\ phase = "manage"

Init ==
  /\ part \in {"reactor", "url", "subprocess", "container", "ssh", "frida"}
  /\ ReactorInit /\ UrlInit /\ SubInit /\ ContainerInit /\ SshInit /\ FridaInit
  /\ Pinned

OfReactor(A) == part = "reactor" /\ A /\ UNCHANGED <<part, others>>
OfUrl(A) ==
  part = "url" /\ A
    /\ UNCHANGED <<part, reactorVars, subVars, containerVars, sshVars, fridaVars>>
OfSub(A) ==
  part = "subprocess" /\ A
    /\ UNCHANGED <<part, reactorVars, urlVars, containerVars, sshVars, fridaVars>>
OfContainer(A) ==
  part = "container" /\ A
    /\ UNCHANGED <<part, reactorVars, urlVars, subVars, sshVars, fridaVars>>
OfSsh(A) ==
  part = "ssh" /\ A
    /\ UNCHANGED <<part, reactorVars, urlVars, subVars, containerVars, fridaVars>>
OfFrida(A) ==
  part = "frida" /\ A
    /\ UNCHANGED <<part, reactorVars, urlVars, subVars, containerVars, sshVars>>

Next ==
  \/ OfReactor(ReactorNext) \/ OfUrl(UrlNext) \/ OfSub(SubNext)
  \/ OfContainer(ContainerNext) \/ OfSsh(SshNext) \/ OfFrida(FridaNext)

\* Threads and processes go on and frida calls back; commands, peers, kills and limits may or
\* may not happen.
Fairness ==
  /\ WF_reactorVars(OfReactor(Tick)) /\ WF_reactorVars(OfReactor(WorkerStep))
  /\ (\A u \in Users : WF_urlVars(OfUrl(UserStep(u))))
  /\ (\A s \in Streams : WF_subVars(OfSub(StreamStep(s))))
  /\ (\A r \in Readers : WF_subVars(OfSub(ReaderStep(r))))
  /\ (\A t \in Tunnels : WF_sshVars(OfSsh(HandlerStep(t))))
  /\ WF_fridaVars(OfFrida(LoaderStep)) /\ WF_fridaVars(OfFrida(ChangeSeen))
  /\ WF_fridaVars(OfFrida(\E s \in ending : DetachedCallback(s)))

Spec == Init /\ [][Next]_vars /\ Fairness

\* linktools in the end: what is put in the reactor is run or it stops, a stop ends it; who wants
\* a file gets a result, a partial one only by a race; readers of a command's output are
\* released; a tunnel that ends closes both its sides; spawned processes are resumed, the end of
\* a session is told and the last text of a script is loaded.
LinktoolsServe ==
  /\ JobsRun /\ StopEnds
  /\ PartialOnlyRaced /\ UsersEnd
  /\ ReadersEnd
  /\ TunnelsEnd
  /\ SpawnResumed /\ EndsKept /\ EndTold /\ LastTextLoaded
=============================================================================

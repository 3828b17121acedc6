----------------------------- MODULE MCServices -----------------------------
(***************************************************************************)
(* Two of adbd's services: a behaviour is one copy of files with its       *)
(* client, or the life of the processes that can be debugged.              *)
(***************************************************************************)
EXTENDS FileSyncClient, AdbJdwp

\* A file of two blocks, one of the system partition and a link.
Sizes == "file" :> 2 @@ "system" :> 1 @@ "link" :> 1
\* What the device may have of them: of "file" an older one, longer than the one that is sent.
OldSizes == "file" :> 3 @@ "system" :> 1 @@ "link" :> 1

CONSTANTS p1, p2
MCPid == p1 :> 1 @@ p2 :> 2

VARIABLE part
vars == <<part, syncVars, jdwpVars>>

\* The service that does not run stays in one of its initial states.
Init ==
  /\ part \in {"sync", "jdwp"}
  /\ SyncInit /\ JdwpInit
  \* What the copy is not about is not there: nothing looks at it.
  /\ \A f \in Files \ job.files : remote[f] = Absent
  /\ \A f \in Files : remote[f] = Old(f) => f = "file"
  /\ part # "sync" => /\ job = [op |-> "push", files |-> {"file"}, attrs |-> FALSE]
                     /\ \A f \in Files : remote[f] = Absent

OfSync(A) == part = "sync" /\ A /\ UNCHANGED <<part, jdwpVars>>
OfJdwp(A) == part = "jdwp" /\ A /\ UNCHANGED <<part, syncVars>>

Next == OfSync(SyncNext) \/ OfJdwp(JdwpNext)

\* The threads of a copy and main's loop run; no call need fail, the link need not break, and
\* nothing is said of the processes and the host.
Fairness ==
  /\ WF_syncVars(OfSync(SvcStep /\ UNCHANGED copyVars)) /\ WF_syncVars(OfSync(CopyStep))
  /\ WF_jdwpVars(OfJdwp(Accept))
  /\ \A p \in Procs : WF_jdwpVars(OfJdwp(ProcEvent(p)))

Spec == Init /\ [][Next]_vars /\ Fairness
=============================================================================

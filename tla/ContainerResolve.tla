-------------------------- MODULE ContainerResolve --------------------------
(***************************************************************************)
(* The containers of linktools (container/manager.py): which are installed *)
(* and removed, and in which order they and what they depend on are        *)
(* started.  The order is computed with a set that gives its members in    *)
(* any order; a container lowered below another one follows it, as its     *)
(* order is a function that is evaluated when it is compared.              *)
(***************************************************************************)
EXTENDS Integers, FiniteSets, SequencesExt

CONSTANTS
  Containers, \* numbers, a container depends on smaller ones only: no cycles
  Orders,     \* the values of order
  MayDisable  \* those whose enable may be false

ASSUME ContainerAssumption ==
  Containers \subseteq Nat /\ IsFiniteSet(Containers) /\ Orders \subseteq Int /\ Orders # {}

VARIABLES
  depends,   \* dependencies of each container
  prefers,   \* order of each
  enabled,   \* those with enable
  installed, \* the installed ones
  removal,   \* the removal: none, refused or done, with what was asked
  waiting,   \* container_queue
  position,  \* result: for each container absent, own, or the one it precedes
  popped,      \* history: containers taken from the queue
  lowered,   \* history: containers lowered after they were taken from it
  phase      \* manage, removed, resolve or resolved

inputVars == <<depends, prefers, enabled>>
resolveVars == <<waiting, position, popped, lowered>>
containerVars == <<inputVars, installed, removal, resolveVars, phase>>

NoRemoval == [names |-> {}, refused |-> FALSE]
Absent == -1
Own == -2

\* Either something is removed, for which orders do not matter, or the installed
\* containers are put in order.
ContainerInit ==
  /\ depends \in {d \in [Containers -> SUBSET Containers] :
                    \A c \in Containers : \A b \in d[c] : b < c}
  /\ installed \in SUBSET Containers
  /\ \/ /\ phase = "manage" /\ enabled = Containers
        /\ prefers = [c \in Containers |-> CHOOSE o \in Orders : TRUE]
        /\ waiting = {}
     \/ /\ phase = "resolve" /\ prefers \in [Containers -> Orders]
        /\ \E disabled \in {{}} \cup {{c} : c \in MayDisable} : enabled = Containers \ disabled
        /\ waiting = installed
  /\ removal = NoRemoval
  /\ position = [c \in Containers |-> Absent] /\ popped = {} /\ lowered = {}

\* From some containers on, what each depends on, among those that count.
Reached(start, among) ==
  LET from[n \in 0..Cardinality(Containers)] ==
        IF n = 0 THEN start
        ELSE from[n - 1] \cup (among \cap UNION {depends[c] : c \in from[n - 1]})
  IN from[Cardinality(Containers)]

\* is_depend_on: directly, or through containers in between.
DependsOn(c) == Reached(depends[c], Containers)

\* remove_installed_containers: what else depends on the names stops it, or goes too.
RemoveInstalled(names, force) ==
  LET others == {c \in installed : DependsOn(c) \cap names # {} /\ c \notin names} IN
  /\ phase = "manage" /\ phase' = "removed" /\ names # {}
  /\ IF others # {} /\ ~ force
       THEN removal' = [names |-> names, refused |-> TRUE] /\ UNCHANGED installed
       ELSE /\ removal' = [names |-> names, refused |-> FALSE]
            /\ installed' = installed \ (names \cup others)
  /\ UNCHANGED <<inputVars, resolveVars>>

\* order(result[c]), evaluated now; it is asked of what is in result.
Order(pos) ==
  LET value[c \in Containers] ==
        IF pos[c] \in Containers THEN value[pos[c]] - 1 ELSE prefers[c]
  IN value

\* Mutant: a container that was seen already does not move.
PlacedOnce(pos, c, b) ==
  LET known == IF pos[b] = Absent THEN [pos EXCEPT ![b] = Own] ELSE pos
  IN IF pos[b] = Absent /\ Order(known)[b] >= Order(known)[c] THEN [known EXCEPT ![b] = c]
          ELSE known

\* The dependency b of c is put into result, and below c if it is not.
Placed(pos, c, b) ==
  LET known == IF pos[b] = Absent THEN [pos EXCEPT ![b] = Own] ELSE pos
  IN IF Order(known)[b] >= Order(known)[c] THEN [known EXCEPT ![b] = c] ELSE known

\* One container leaves the queue; what it depends on, and was not known, enters it.
Pop ==
  /\ phase = "resolve"
  /\ \E c \in waiting :
       LET needs == depends[c] \cap enabled
           start == IF position[c] = Absent THEN [position EXCEPT ![c] = Own] ELSE position
       IN IF c \notin enabled
            THEN waiting' = waiting \ {c} /\ UNCHANGED <<position, popped, lowered>>
          ELSE /\ \E order \in SetToSeqs(needs) :
                    position' = FoldLeft(LAMBDA pos, b : Placed(pos, c, b), start, order)
               /\ waiting' = (waiting \ {c}) \cup {b \in needs : start[b] = Absent}
               /\ popped' = popped \cup {c}
               /\ lowered' = lowered \cup
                    {b \in popped : Order(position')[b] < Order(position)[b]}
  /\ UNCHANGED <<inputVars, installed, removal, phase>>

Resolved ==
  /\ phase = "resolve" /\ waiting = {}
  /\ phase' = "resolved"
  /\ UNCHANGED <<inputVars, installed, removal, resolveVars>>

ContainerNext ==
  \/ \E names \in SUBSET Containers, force \in BOOLEAN : RemoveInstalled(names, force)
  \/ Pop \/ Resolved

-----------------------------------------------------------------------------
\* What has to be started: the installed containers that are enabled, and from them on
\* what each of them depends on and is enabled.
Needed == Reached(installed \cap enabled, enabled)

Listed == {c \in Containers : position[c] # Absent}

\* Types.
ContainerTypeOK ==
  /\ installed \subseteq Containers /\ waiting \subseteq Containers /\ popped \subseteq Listed
  /\ position \in [Containers -> Containers \cup {Absent, Own}]
  /\ \A c \in Containers :
       position[c] \in Containers => position[c] \in Listed /\ c \in depends[position[c]]

\* Exactly what is needed is started, in whatever order the set gave its members.
NeededListed == phase = "resolved" => Listed = Needed

\* A container is started after what it depends on, unless it was lowered itself after
\* it had been looked at: nobody looks at its dependencies again.
DependenciesFirst ==
  phase = "resolved" =>
    \A c \in Listed : \A b \in depends[c] \cap enabled :
      Order(position)[b] < Order(position)[c] \/ c \in lowered

\* What stays installed does not depend on what was removed.
RemovalSafe ==
  LET below(c) == {n \in Containers :
                     \A S \in SUBSET Containers :
                       depends[c] \subseteq S /\ (\A b \in S : depends[b] \subseteq S) => n \in S}
  IN phase = "removed" /\ ~ removal.refused =>
       \A c \in installed : below(c) \cap removal.names = {}

\* The containers chosen (linktools/container): all that are needed, each after what it needs,
\* and none removed that another one needs.
ContainersCorrect ==
  /\ ContainerTypeOK /\ NeededListed /\ DependenciesFirst /\ RemovalSafe
=============================================================================

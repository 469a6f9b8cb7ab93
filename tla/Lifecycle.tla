------------------------------- MODULE Lifecycle -------------------------------
(****************************************************************************)
(* What process control promises, without lists, pids, levels or slices:    *)
(* the phases of a process, which of them may have the CPU, and who wakes   *)
(* the shell.  Pc implements this specification (module PcLifecycle).       *)
(****************************************************************************)
CONSTANTS Child, Idle, Shell

Task == Child \cup {Idle, Shell}

VARIABLES
    phase,   \* phase of each task
    cpu,     \* the task on the CPU
    awaits   \* the children whose exit wakes the sleeping shell

vars == <<phase, cpu, awaits>>

Ready(ph) == { t \in Task : ph[t] = "ready" }

Init ==
    /\ phase = [t \in Task |-> IF t \in Child THEN "free" ELSE "ready"]
    /\ cpu = Idle
    /\ awaits = {}

\* The timer: the dead are cleared away, and a ready task gets the CPU.
Schedule ==
    /\ phase' = [t \in Task |-> IF phase[t] = "dead" THEN "free" ELSE phase[t]]
    /\ cpu' \in Ready(phase)
    /\ UNCHANGED awaits

Create(t) ==
    /\ cpu = Shell /\ phase[t] = "free"
    /\ phase' = [phase EXCEPT ![t] = "new"]
    /\ UNCHANGED <<cpu, awaits>>

Start(t) ==
    /\ cpu = Shell /\ phase[t] = "new"
    /\ phase' = [phase EXCEPT ![t] = "ready"]
    /\ UNCHANGED <<cpu, awaits>>

\* The shell sleeps until one of S exits; for ever if S is empty, which it is
\* when the child has exited before.
Sleep(S) ==
    /\ cpu = Shell
    /\ S \subseteq Ready(phase)
    /\ phase' = [phase EXCEPT ![Shell] = "asleep"]
    /\ cpu' \in Ready(phase')
    /\ awaits' = S

\* The shell kills a child that is not on the CPU.
Kill(t) ==
    /\ cpu = Shell /\ phase[t] = "ready"
    /\ phase' = [phase EXCEPT ![t] = "dead"]
    /\ UNCHANGED <<cpu, awaits>>

\* The child on the CPU exits, and wakes the shell if that waits for it.
Exit ==
    /\ cpu \in Child
    /\ phase' = IF cpu \in awaits THEN [phase EXCEPT ![cpu] = "dead", ![Shell] = "ready"]
                ELSE [phase EXCEPT ![cpu] = "dead"]
    /\ awaits' = IF cpu \in awaits THEN {} ELSE awaits
    /\ cpu' \in Ready(phase')

Next ==
    \/ Schedule
    \/ \E t \in Child : Create(t) \/ Start(t) \/ Kill(t)
    \/ \E S \in SUBSET Child : Sleep(S)
    \/ Exit

Spec == Init /\ [][Next]_vars
================================================================================

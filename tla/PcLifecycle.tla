------------------------------ MODULE PcLifecycle ------------------------------
(* Pc implements Lifecycle. *)
EXTENDS Pc

phase == [t \in Task |->
            IF t \notin tasks THEN "free"
            ELSE CASE task[t].state = S_UNINIT   -> "new"
                   [] task[t].state = S_READY    -> "ready"
                   [] task[t].state = S_TERMINAL -> "dead"
                   [] OTHER                      -> "asleep"]

\* The shell waits for a pid, and any child that lives under it will do.
awaits == { t \in Child : Live(t) /\ task[t].pid = -task[Shell].state }

Life == INSTANCE Lifecycle WITH cpu <- current_task

\* Process control keeps its promise: only ready tasks get the CPU, only dead
\* ones are cleared, a sleeping shell is woken by the exit of a child that has
\* the pid it waits for and by nothing else, and by that exit without fail.
ImplementsLifecycle == Life!Spec
================================================================================

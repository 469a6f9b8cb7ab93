----------------------------------- MODULE Pc -----------------------------------
(****************************************************************************)
(* Process control, kernel/pc/pc.c: creation, waiting, killing and exit of  *)
(* processes, and the multilevel feedback scheduler run by the timer.       *)
(*                                                                          *)
(* One CPU.  A step is a stretch of code no timer interrupt can split: code *)
(* between disable_interrupts and enable_interrupts, code after EXL is set, *)
(* an interrupt handler, or one update of shared state made with interrupts *)
(* enabled.  Only the kernel shell creates, waits for and kills processes   *)
(* (usr/ps.c); a child runs until it calls pc_exit.                         *)
(****************************************************************************)
EXTENDS Pid, SequencesExt

CONSTANTS
    Child,         \* task structures besides those of idle and the shell
    Idle, Shell, Null,
    SCHED_LV_MAX,  \* last level of the background queues (3 in pc.h)
    CNT_BASE,      \* slices of level 1 (500 in pc.h)
    CNT_LV0,       \* time_cnt of a foreground task; never read
    FastTyping     \* may the shell run two commands within one clock tick?

Task == Child \cup {Idle, Shell}

ASSUME PcAssumption ==
    /\ Idle # Shell /\ Idle \notin Child /\ Shell \notin Child
    /\ Null \notin Task
    /\ SCHED_LV_MAX \in Nat \ {0}
    /\ CNT_BASE \in Nat \ {0}
    /\ CNT_LV0 \in Nat
    /\ FastTyping \in BOOLEAN

VARIABLES
    list,          \* the lists linked through task_struct.sched, by index
    tasks,         \* members of the list linked through task_struct.node
    before,        \* order of that list: <<a, b>> if a comes before b
    task,          \* contents of the task structures
    current_task,
    asid,          \* EntryHi.ASID of the TLB
    at,            \* what the shell does next
    newpid, byte, new,  \* its locals in task_create, pid_alloc and waitpid
    fault          \* where the kernel stopped for good, if it did

pidVars == <<pidmap, next_pid>>
shVars  == <<at, newpid, byte, new>>
vars == <<list, tasks, before, task, current_task, asid, shVars, fault, pidVars>>

S_UNINIT == 0
S_READY == 1
S_TERMINAL == 4      \* a state -pid means: waits for pid to exit

SCHED_LV0 == 0
SCHED_LV_MIN == 1
Level  == 0 .. SCHED_LV_MAX
WAIT   == SCHED_LV_MAX + 1
EXITED == SCHED_LV_MAX + 2
List   == Level \cup {WAIT, EXITED}  \* list[0] is sched, list[i] sched_back[i]

sched_time_cnt(lv) == CNT_BASE * lv

\* A structure no list refers to: not yet allocated, or cleared.
NoTask == [pid |-> 0, parent |-> 0, state |-> S_UNINIT, time_cnt |-> 0,
           sched_lv |-> 0, mm |-> "null", exiting |-> FALSE]

--------------------------------------------------------------------------------
(* Lists *)

\* list_del of t's node: the caller does not say which list it is on.
Without(s, t) ==
    IF t \in Range(s) THEN RemoveAt(s, CHOOSE i \in DOMAIN s : s[i] = t) ELSE s
remove_sched(ls, t) == [q \in List |-> Without(ls[q], t)]

\* Mutant: list_add where list_add_tail is meant.
add_tail_AtHead(ls, q, t) == [ls EXCEPT ![q] = <<t>> \o @]
add_tail(ls, q, t) == [ls EXCEPT ![q] = Append(@, t)]
add_head(ls, q, t) == [ls EXCEPT ![q] = <<t>> \o @]

\* The first node of s in S, found by list_for_each, or Null.
First(s, S) ==
    IF Range(s) \cap S = {} THEN Null
    ELSE s[CHOOSE i \in DOMAIN s : s[i] \in S /\ \A j \in 1 .. i - 1 : s[j] \notin S]

\* The same for the list of all tasks.
FirstTask(S) ==
    IF tasks \cap S = {} THEN Null
    ELSE CHOOSE t \in tasks \cap S :
            \A u \in tasks \cap S : u # t => <<t, u>> \in before

find_in_tasks(p) == FirstTask({ t \in Task : task[t].pid = p })

add_task(t) ==
    /\ tasks' = tasks \cup {t}
    /\ before' = before \cup (tasks \X {t})

--------------------------------------------------------------------------------
(* Scheduling, as functions of the lists ls and the task structures tk *)

\* Mutants: the last level is charged too; no level is.
Preemptive_LastLevel(tk) == tk[current_task].sched_lv \in SCHED_LV_MIN .. SCHED_LV_MAX
Preemptive_Never(tk) == FALSE

\* A background task above the last level pays a slice for its turn, and drops
\* a level when it has paid the last one.
Preemptive(tk) == tk[current_task].sched_lv \in SCHED_LV_MIN .. SCHED_LV_MAX - 1

\* Mutant: time_cnt is compared before it is decremented.
Pay_Late(r) ==
    IF r.time_cnt = 0
    THEN [r EXCEPT !.sched_lv = @ + 1, !.time_cnt = sched_time_cnt(r.sched_lv + 1)]
    ELSE [r EXCEPT !.time_cnt = @ - 1]

Pay(r) ==
    IF r.time_cnt = 1
    THEN [r EXCEPT !.sched_lv = @ + 1, !.time_cnt = sched_time_cnt(r.sched_lv + 1)]
    ELSE [r EXCEPT !.time_cnt = @ - 1]

Charged(tk) ==
    IF Preemptive(tk) THEN [tk EXCEPT ![current_task] = Pay(@)] ELSE tk

\* Mutant: the last level is rotated like the others.
Requeued_LastLevel(ls, tk) ==
    LET lv == tk[current_task].sched_lv
    IN  IF lv = SCHED_LV0 THEN ls
        ELSE add_tail(remove_sched(ls, current_task),
                      IF lv = SCHED_LV_MAX THEN lv ELSE Pay(tk[current_task]).sched_lv,
                      current_task)

Requeued(ls, tk) ==
    IF Preemptive(tk)
    THEN add_tail(remove_sched(ls, current_task), Pay(tk[current_task]).sched_lv,
                  current_task)
    ELSE ls

\* Mutants: the state is not looked at; the loop runs over i < SCHED_LV_MAX.
find_in_sched_back_AnyState(ls, tk) ==
    LET Lv == { i \in SCHED_LV_MIN .. SCHED_LV_MAX : ls[i] # <<>> }
    IN  IF Lv = {} THEN Null ELSE Head(ls[CHOOSE i \in Lv : \A j \in Lv : i <= j])

find_in_sched_back_OffByOne(ls, tk) ==
    LET Ready == { t \in Task : tk[t].state = S_READY }
        Lv == { i \in SCHED_LV_MIN .. SCHED_LV_MAX - 1 : Range(ls[i]) \cap Ready # {} }
    IN  IF Lv = {} THEN Null
        ELSE First(ls[CHOOSE i \in Lv : \A j \in Lv : i <= j], Ready)

find_in_sched_back(ls, tk) ==
    LET Ready == { t \in Task : tk[t].state = S_READY }
        Lv == { i \in SCHED_LV_MIN .. SCHED_LV_MAX : Range(ls[i]) \cap Ready # {} }
    IN  IF Lv = {} THEN Null
        ELSE First(ls[CHOOSE i \in Lv : \A j \in Lv : i <= j], Ready)

\* Mutant: the background gets its turn before the foreground list is walked.
NextTask_BackFirst(ls, tk) ==
    LET s == ls[SCHED_LV0]
        foreground == tk[current_task].sched_lv = SCHED_LV0
        back == find_in_sched_back(ls, tk)
    IN  IF foreground /\ back # Null THEN back
        ELSE IF foreground /\ current_task # Last(s)
        THEN s[(CHOOSE i \in DOMAIN s : s[i] = current_task) + 1]
        ELSE Head(s)

\* The task find_next_task returns.  The foreground list is walked to its end,
\* then the background queues get one turn.
NextTask(ls, tk) ==
    LET s == ls[SCHED_LV0]
        foreground == tk[current_task].sched_lv = SCHED_LV0
        back == find_in_sched_back(ls, tk)
    IN  IF foreground /\ current_task # Last(s)
        THEN s[(CHOOSE i \in DOMAIN s : s[i] = current_task) + 1]
        ELSE IF foreground /\ back # Null THEN back
        ELSE Head(s)

\* Mutant: the test of task->mm is inverted.
Activated_Inverted(tk, next) == IF tk[next].mm = "null" THEN tk[next].pid ELSE asid

\* The ASID after a switch to next: a task without an mm keeps the last one.
Activated(tk, next) == IF tk[next].mm # "null" THEN tk[next].pid ELSE asid

--------------------------------------------------------------------------------
(* State after boot: init_pid, init_pc and create_startup_process *)

Booted(p) == [pid |-> p, parent |-> IDLE_PID, state |-> S_READY,
              time_cnt |-> CNT_LV0, sched_lv |-> SCHED_LV0, mm |-> "null",
              exiting |-> FALSE]

Init ==
    /\ pidmap = {IDLE_PID, INIT_PID}
    /\ next_pid = INIT_PID + 1
    /\ list = [q \in List |-> IF q = SCHED_LV0 THEN <<Idle, Shell>> ELSE <<>>]
    /\ tasks = {Idle, Shell}
    /\ before = {<<Idle, Shell>>}
    /\ task = [t \in Task |-> CASE t = Idle  -> Booted(IDLE_PID)
                                [] t = Shell -> Booted(INIT_PID)
                                [] OTHER     -> NoTask]
    /\ current_task = Idle
    /\ asid = IDLE_PID
    /\ at = "prompt" /\ newpid = 0 /\ byte = {} /\ new = Null
    /\ fault = "none"

--------------------------------------------------------------------------------
(* The timer interrupt *)

\* pc_schedule: clear the exited tasks, pick the next task, switch to it.  It
\* stops the machine on an exited task that is not terminal, and when the task
\* picked is the current one.
Tick ==
    LET dead == Range(list[EXITED])
        ls   == [list EXCEPT ![EXITED] = <<>>]
        tk   == [t \in Task |-> IF t \in dead THEN NoTask ELSE task[t]]
        next == NextTask(Requeued(ls, tk), Charged(tk))
    IN  /\ fault = "none"
        /\ list' = Requeued(ls, tk)
        /\ task' = Charged(tk)
        /\ tasks' = tasks \ dead
        /\ before' = before \cap (tasks' \X tasks')
        /\ current_task' = next
        /\ asid' = IF next # current_task THEN Activated(tk, next) ELSE asid
        /\ fault' = IF \E t \in dead : task[t].state # S_TERMINAL THEN "exited"
                    ELSE IF next = current_task THEN "idle" ELSE "none"
        /\ UNCHANGED <<shVars, pidVars>>

--------------------------------------------------------------------------------
(* The shell: task_create, waitpid and pc_kill *)

ShellAt(label) == fault = "none" /\ current_task = Shell /\ at = label

\* Commands are typed by hand: unless FastTyping, a tick has passed since the
\* last kill when the next command starts.
Command == ShellAt("prompt") /\ (FastTyping \/ list[EXITED] = <<>>)

\* pid_alloc up to the load of the byte it is about to change.
PidAlloc(p) ==
    /\ Command
    /\ pid_scan(p)
    /\ at' = "store" /\ newpid' = p /\ byte' = pid_load(p)
    /\ UNCHANGED <<list, tasks, before, task, current_task, asid, new, fault, pidVars>>

PidAllocFails ==
    /\ Command
    /\ pid_scan_fails
    /\ UNCHANGED vars

PidAllocStore ==
    /\ ShellAt("store")
    /\ pid_store(newpid, byte)
    /\ at' = "kmalloc" /\ byte' = {}
    /\ UNCHANGED <<list, tasks, before, task, current_task, asid, newpid, new, fault>>

\* kmalloc returns 0: pid_free, whose check and load come first.
KmallocFails ==
    /\ ShellAt("kmalloc")
    /\ IF pid_check(newpid)
       THEN at' = "free" /\ byte' = pid_load(newpid) /\ UNCHANGED newpid
       ELSE at' = "prompt" /\ newpid' = 0 /\ UNCHANGED byte
    /\ UNCHANGED <<list, tasks, before, task, current_task, asid, new, fault, pidVars>>

PidFreeStore ==
    /\ ShellAt("free")
    /\ pid_free_store(newpid, byte)
    /\ at' = "prompt" /\ newpid' = 0 /\ byte' = {}
    /\ UNCHANGED <<list, tasks, before, task, current_task, asid, new, fault>>

\* kmalloc returns t: its fields are set, then it is linked into tasks.  A
\* user process gets an mm unless mm_create fails.
FillTask(t, mm) ==
    /\ ShellAt("kmalloc")
    /\ t \in Child \ tasks
    /\ task' = [task EXCEPT ![t] =
                   [NoTask EXCEPT !.pid = newpid, !.parent = task[Shell].pid,
                                  !.mm = mm]]
    /\ add_task(t)
    /\ at' = "sched" /\ new' = t
    /\ UNCHANGED <<list, current_task, asid, newpid, byte, fault, pidVars>>

EnterSched ==
    /\ ShellAt("sched")
    /\ LET lv == IF task[new].pid = INIT_PID THEN SCHED_LV0 ELSE SCHED_LV_MIN
           cnt == IF lv = SCHED_LV0 THEN CNT_LV0 ELSE sched_time_cnt(lv)
       IN  /\ task' = [task EXCEPT ![new].sched_lv = lv, ![new].time_cnt = cnt]
           /\ list' = add_tail(list, lv, new)
    /\ at' = "ready"
    /\ UNCHANGED <<tasks, before, current_task, asid, newpid, byte, new, fault, pidVars>>

\* The end of task_create; exec_from_kernel goes on to waitpid or returns.
SetReady(is_wait) ==
    /\ ShellAt("ready")
    /\ task' = [task EXCEPT ![new].state = S_READY]
    /\ at' = IF is_wait THEN "check" ELSE "prompt"
    /\ newpid' = IF is_wait THEN newpid ELSE 0
    /\ new' = Null
    /\ UNCHANGED <<list, tasks, before, current_task, asid, byte, fault, pidVars>>

\* waitpid up to its last enable_interrupts.
WaitCheck ==
    LET next == FirstTask({ t \in Task : /\ task[t].pid = newpid
                                         /\ task[t].state # S_TERMINAL })
        gone == IF next = Null THEN TRUE ELSE task[next].parent # task[Shell].pid
    IN  /\ ShellAt("check")
        /\ at' = IF gone THEN "prompt" ELSE "sleep"
        /\ newpid' = IF gone THEN 0 ELSE newpid
        /\ UNCHANGED <<list, tasks, before, task, current_task, asid, byte, new,
                       fault, pidVars>>

\* The rest of waitpid, under EXL.
WaitSleep ==
    LET tk   == [task EXCEPT ![Shell].state = -newpid]
        next == NextTask(Requeued(list, tk), Charged(tk))
    IN  /\ ShellAt("sleep")
        /\ task' = Charged(tk)
        /\ list' = add_tail(remove_sched(Requeued(list, tk), Shell), WAIT, Shell)
        /\ current_task' = next
        /\ asid' = tk[next].pid
        /\ at' = "prompt" /\ newpid' = 0
        /\ UNCHANGED <<tasks, before, byte, new, fault, pidVars>>

mm_delete(mm) ==
    CASE mm = "null" -> "null" [] mm = "live" -> "freed" [] OTHER -> "freed twice"

\* pc_kill of an allocated pid; other arguments change nothing.
Kill(p) ==
    LET t == find_in_tasks(p)
    IN  /\ Command
        /\ p \notin {IDLE_PID, INIT_PID, task[current_task].pid}
        /\ pid_check(p)
        /\ t # Null
        /\ task' = [task EXCEPT ![t].state = S_TERMINAL, ![t].mm = mm_delete(@)]
        /\ list' = add_tail(remove_sched(list, t), EXITED, t)
        /\ pid_free(p)
        /\ UNCHANGED <<tasks, before, current_task, asid, shVars, fault>>

\* The task_struct of an allocated pid is not found: pc_kill writes through 0.
KillNull(p) ==
    /\ Command
    /\ p \notin {IDLE_PID, INIT_PID, task[current_task].pid}
    /\ pid_check(p)
    /\ find_in_tasks(p) = Null
    /\ fault' = "kill"
    /\ UNCHANGED <<list, tasks, before, task, current_task, asid, shVars, pidVars>>

--------------------------------------------------------------------------------
(* A child: pc_exit *)

ChildRuns == fault = "none" /\ current_task \in Child

\* mm_delete runs with interrupts enabled and leaves task->mm as it is.
ExitMm ==
    /\ ChildRuns
    /\ task[current_task].mm # "null" /\ ~task[current_task].exiting
    /\ task' = [task EXCEPT ![current_task].mm = mm_delete(@),
                            ![current_task].exiting = TRUE]
    /\ UNCHANGED <<list, tasks, before, current_task, asid, shVars, fault, pidVars>>

\* Mutant: wakeup_parent does not compare the state with -pid.
Waiter_AnyState ==
    First(list[WAIT], { t \in Task : task[t].pid = task[current_task].parent })

\* The task wakeup_parent finds waiting for the exiting one, or Null.
Waiter ==
    First(list[WAIT], { t \in Task : /\ task[t].pid = task[current_task].parent
                                     /\ task[t].state = -task[current_task].pid })

\* Mutant: the woken task stays on the wait list too.
WokenList_NoRemove(w) ==
    IF w = Null THEN list
    ELSE IF task[w].sched_lv = SCHED_LV0 THEN add_tail(list, SCHED_LV0, w)
    ELSE add_head(list, task[w].sched_lv, w)

WokenList(w) ==
    LET ls == remove_sched(list, w)
    IN  IF w = Null THEN list
        ELSE IF task[w].sched_lv = SCHED_LV0 THEN add_tail(ls, SCHED_LV0, w)
        ELSE add_head(ls, task[w].sched_lv, w)

\* Mutant: the exiting task keeps its state.
WokenTasks_NotTerminal(w) ==
    IF w = Null THEN task ELSE [task EXCEPT ![w].state = S_READY]

\* The exiting task is terminal by then.
WokenTasks(w) ==
    LET dying == [task EXCEPT ![current_task].state = S_TERMINAL]
    IN  IF w = Null THEN dying ELSE [dying EXCEPT ![w].state = S_READY]

\* pc_exit from the point where it sets EXL.
Exit ==
    LET cur  == current_task
        w    == Waiter
        tk   == WokenTasks(w)
        ls   == Requeued(WokenList(w), tk)
        next == NextTask(ls, Charged(tk))
    IN  /\ ChildRuns
        /\ task[cur].mm # "null" => task[cur].exiting
        /\ task' = Charged(tk)
        /\ list' = add_tail(remove_sched(ls, cur), EXITED, cur)
        /\ current_task' = next
        /\ asid' = Activated(tk, next)
        /\ pid_free(task[cur].pid)
        /\ UNCHANGED <<tasks, before, shVars, fault>>

--------------------------------------------------------------------------------
CreateStep ==
    \/ \E p \in 0 .. PID_CAP : PidAlloc(p)
    \/ PidAllocFails
    \/ PidAllocStore
    \/ KmallocFails
    \/ PidFreeStore
    \/ \E t \in Child, mm \in {"null", "live"} : FillTask(t, mm)
    \/ EnterSched
    \/ \E is_wait \in BOOLEAN : SetReady(is_wait)

Next ==
    \/ Tick
    \/ CreateStep
    \/ WaitCheck
    \/ WaitSleep
    \/ \E p \in Pids : Kill(p)
    \/ \E p \in Pids : KillNull(p)
    \/ ExitMm
    \/ Exit

Spec == Init /\ [][Next]_vars

\* The timer keeps interrupting.  Nothing else is promised: a process may loop
\* forever and the operator may type nothing.
FairSpec == Spec /\ WF_vars(Tick)
--------------------------------------------------------------------------------
(* Properties *)

Faults == {"none", "exited", "idle", "kill"}
Labels == {"prompt", "store", "kmalloc", "free", "sched", "ready", "check", "sleep"}
Mms == {"null", "live", "freed", "freed twice"}

TaskStruct ==
    [pid : 0 .. PID_CAP, parent : 0 .. PID_CAP, state : Int, time_cnt : Nat,
     sched_lv : Level, mm : Mms, exiting : BOOLEAN]

\* Every variable has its type.
TypeOK ==
    /\ PidTypeOK
    /\ list \in [List -> Seq(Task)]
    /\ tasks \subseteq Task /\ before \subseteq Task \X Task
    /\ task \in [Task -> TaskStruct]
    /\ current_task \in Task
    /\ asid \in 0 .. PID_CAP
    /\ at \in Labels /\ newpid \in 0 .. PID_CAP
    /\ byte \subseteq Pids /\ new \in Task \cup {Null}
    /\ fault \in Faults

On(q, t) == t \in Range(list[q])

\* No node is linked twice, on one list or on two.
WellLinked(ls) ==
    /\ \A q \in List : IsInjective(ls[q])
    /\ \A q, r \in List : q # r => Range(ls[q]) \cap Range(ls[r]) = {}

\* Every process is linked on exactly the one list its state calls for, once,
\* across ticks that split task_create, waitpid and pc_exit: a ready one on the
\* run queue of its level, a waiting one on wait, a terminal one on exited, and
\* the one task_create has not finished at most on a run queue.
ListsMatchStates ==
    /\ WellLinked(list)
    /\ \A t \in Task :
        /\ t \in tasks <=> \/ \E q \in List : On(q, t)
                          \/ t = new
        /\ \A q \in Level : On(q, t) => /\ task[t].sched_lv = q
                                       /\ task[t].state \in {S_UNINIT, S_READY}
        /\ task[t].state = S_READY => On(task[t].sched_lv, t)
        /\ On(WAIT, t) <=> task[t].state < 0
        /\ On(EXITED, t) <=> task[t].state = S_TERMINAL

\* The task on the CPU is ready and still on the run queue of its level: no
\* interleaving of a kill, an exit or a sleep with ticks leaves the CPU running
\* a task that is dead, asleep or half created.
CurrentRunnable ==
    /\ task[current_task].state = S_READY
    /\ On(task[current_task].sched_lv, current_task)

\* time_cnt of a task that can be charged never reaches 0, from where the
\* unsigned decrement in find_next_task would wrap, nor exceeds its level's.
SliceBounds ==
    \A t \in Child, q \in SCHED_LV_MIN .. SCHED_LV_MAX :
        On(q, t) => task[t].time_cnt \in 1 .. sched_time_cnt(q)

\* Whenever a task with an address space is on the CPU, the TLB matches with
\* its ASID, whichever of pc_schedule, pc_exit and waitpid switched to it.
AsidOfCurrent ==
    task[current_task].mm # "null" => asid = task[current_task].pid

\* pc_schedule stops the machine only when no other task is ready to run.
HaltsOnlyWithoutWork ==
    fault = "idle" => \A t \in Task \ {Idle} : task[t].state # S_READY

\* clear_exited never meets an exited task that is not terminal.
ExitedAreTerminal == fault # "exited"

\* The shell leaves the wait list only in the step in which the very process it
\* waits for turns terminal.
WokenByItsChild ==
    [][ On(WAIT, Shell) /\ ~On(WAIT, Shell)' =>
          \E t \in Child : /\ task[t].pid = -task[Shell].state
                           /\ task[t].state = S_READY
                           /\ task'[t].state = S_TERMINAL ]_vars

\* The last level is first come, first served: its head stays the head until it
\* exits or is killed, whatever is created, killed or demoted meanwhile.
LastLevelFifo ==
    [][ LET q == list[SCHED_LV_MAX]
        IN  q # <<>> => \/ list'[SCHED_LV_MAX] # <<>> /\ Head(list'[SCHED_LV_MAX]) = Head(q)
                        \/ task'[Head(q)].state = S_TERMINAL ]_vars

\* No task overtakes another on a background queue: whoever is ahead of a task
\* after a step was ahead of it before, except that a task that has just had its
\* turn goes behind all others.
Ahead(s, y, x) == \E i, j \in DOMAIN s : i < j /\ s[i] = y /\ s[j] = x
NoOvertaking ==
    [][ \A q \in SCHED_LV_MIN .. SCHED_LV_MAX :
          \A x \in Range(list[q]) \ {current_task}, y \in Range(list'[q]) :
             Ahead(list'[q], y, x) => Ahead(list[q], y, x) ]_vars

\* While the machine runs, a ready shell gets the CPU again and again, however
\* many background processes there are.
ShellGetsCpu ==
    task[Shell].state = S_READY ~> (current_task = Shell \/ fault # "none")

\* No process stays on the first background level for good: others may loop
\* forever and new ones may keep coming, it still runs until it has used up its
\* slices there or is gone.
FirstLevelDrains ==
    \A t \in Child :
        (On(SCHED_LV_MIN, t) /\ task[t].state = S_READY)
            ~> (~On(SCHED_LV_MIN, t) \/ fault # "none")

\* Live processes have distinct pids, and the bitmap marks each of them as
\* allocated, so that no pid is handed out twice.  (Of pids the bitmap has: the
\* bits past its end are not the kernel's to keep.)
Live(t) == t \in tasks /\ task[t].state # S_TERMINAL
PidsOwned ==
    \A t \in Task : Live(t) /\ task[t].pid \in Pids =>
        /\ task[t].pid \in pidmap
        /\ \A u \in Task : Live(u) /\ task[u].pid = task[t].pid => u = t

--------------------------------------------------------------------------------
(* The inductive strengthening of the invariants above *)

\* The foreground list holds idle and, unless it sleeps, the shell.
Foreground ==
    /\ {Idle, Shell} \subseteq tasks
    /\ task[Idle].pid = IDLE_PID /\ task[Shell].pid = INIT_PID
    /\ task[Idle].sched_lv = SCHED_LV0 /\ task[Shell].sched_lv = SCHED_LV0
    /\ task[Idle].state = S_READY
    /\ task[Shell].state = S_READY \/ task[Shell].state < 0
    /\ list[SCHED_LV0] = IF task[Shell].state < 0 THEN <<Idle>> ELSE <<Idle, Shell>>
    /\ list[WAIT] = IF task[Shell].state < 0 THEN <<Shell>> ELSE <<>>
    /\ \A t \in Child :
        /\ task[t].state \in {S_UNINIT, S_READY, S_TERMINAL}
        /\ t \in tasks => task[t].pid \notin {IDLE_PID, INIT_PID}
        /\ t \in tasks /\ task[t].state = S_UNINIT => t = new
        /\ t \notin tasks => task[t].state = S_UNINIT

Creating == at \in {"store", "kmalloc", "free", "sched", "ready", "check", "sleep"}

\* What the shell knows while it is inside a command.
ShellControl ==
    /\ Creating => task[Shell].state = S_READY
    /\ {IDLE_PID, INIT_PID} \subseteq pidmap
    /\ Creating => newpid \notin {IDLE_PID, INIT_PID}
    /\ at \in {"store", "free"} =>
          byte \subseteq Byte(newpid) /\ {IDLE_PID, INIT_PID} \cap Byte(newpid) \subseteq byte
    /\ IF at \in {"sched", "ready"}
       THEN /\ new \in Child \cap tasks
            /\ task[new].state = S_UNINIT
            /\ at = "sched" => \A q \in List : ~On(q, new)
            /\ at = "ready" => On(SCHED_LV_MIN, new)
       ELSE new = Null

\* Every set of processes has a first one on the list of all tasks.
TasksOrdered ==
    \A S \in SUBSET tasks :
        S # {} => \E t \in S : \A u \in S : u # t => <<t, u>> \in before

\* The inductive invariant: the invariants above that the proofs reach, and what
\* it takes to keep them through every step.
IInv ==
    /\ TypeOK
    /\ ListsMatchStates
    /\ Foreground
    /\ TasksOrdered
    /\ ShellControl
    /\ CurrentRunnable
    /\ SliceBounds
    /\ AsidOfCurrent
    /\ ExitedAreTerminal

--------------------------------------------------------------------------------
(* What comments of the code say, which it does not keep to *)

\* pc.c:699: pc_schedule finds no other task only if there is just idle.
HaltsOnlyWithIdleAlone == fault = "idle" => tasks = {Idle}

\* pid.c:14: pid_check answers 1 for every pid that is allocated.
LivePidChecks == \A t \in Task : Live(t) => pid_check(task[t].pid)

\* pc.c:569: the task_struct of a pid that pid_check knows is always found.
KillFindsTask == fault # "kill"

\* pc.c:533: pc_kill takes the task_struct of the process it has to kill, not
\* one that died earlier with the same pid.
KillsTheLiving ==
    [][ \A p \in Pids : Kill(p) => task[find_in_tasks(p)].state # S_TERMINAL ]_vars

\* No address space is deleted twice.
MmDeletedOnce == \A t \in Task : task[t].mm # "freed twice"
================================================================================

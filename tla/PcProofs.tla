-------------------------------- MODULE PcProofs --------------------------------
(****************************************************************************)
(* Process control, for every number of processes, of levels, of slices and *)
(* of pids: the inductive invariant IInv of Pc and what follows, then that  *)
(* Pc implements Lifecycle, that the shell is woken by its child, that no   *)
(* two live processes have the same pid, that nobody overtakes on a         *)
(* background queue, and that the last level is first come, first served.   *)
(****************************************************************************)
EXTENDS PcLifecycle, SequenceFacts

--------------------------------------------------------------------------------
(* Lists *)

\* Unlinking t keeps a duplicate-free list duplicate-free and takes t off it.
LEMMA WithoutProperties ==
    ASSUME NEW S, NEW s \in Seq(S), IsInjective(s), NEW t
    PROVE  /\ Without(s, t) \in Seq(S)
           /\ IsInjective(Without(s, t))
           /\ Range(Without(s, t)) = Range(s) \ {t}
<1>1. CASE t \notin Range(s)
  BY <1>1 DEF Without
<1>2. CASE t \in Range(s)
  <2> DEFINE k == CHOOSE i \in DOMAIN s : s[i] = t
  <2>1. k \in 1 .. Len(s) /\ s[k] = t
    BY <1>2, LenProperties DEF Range
  <2>2. Without(s, t) = RemoveAt(s, k)
    BY <1>2 DEF Without
  <2> HIDE DEF k
  <2> QED BY <2>1, <2>2, RemoveAtRange
<1> QED BY <1>1, <1>2

\* list_for_each finds a node of X exactly when the list has one.
LEMMA FirstProperties ==
    ASSUME NEW s \in Seq(Task), NEW X
    PROVE  /\ Range(s) \cap X = {} => First(s, X) = Null
           /\ Range(s) \cap X # {} => First(s, X) \in Range(s) \cap X
<1>1. CASE Range(s) \cap X = {}
  BY <1>1 DEF First
<1>2. CASE Range(s) \cap X # {}
  <2> DEFINE I == { i \in DOMAIN s : s[i] \in X }
             least(i) == i \in DOMAIN s /\ s[i] \in X /\ \A j \in 1 .. i - 1 : s[j] \notin X
             k == CHOOSE i \in DOMAIN s : s[i] \in X /\ \A j \in 1 .. i - 1 : s[j] \notin X
  <2>1. DOMAIN s = 1 .. Len(s) /\ Len(s) \in Nat
    BY LenProperties
  <2>2. I \in SUBSET Nat /\ I # {}
    BY <1>2, <2>1 DEF Range
  <2>3. PICK x \in I : \A y \in I : x <= y
    BY <2>2, LeastNat
  <2>4. ASSUME NEW j \in 1 .. x - 1  PROVE s[j] \notin X
    <3>1. x \in 1 .. Len(s) /\ j \in 1 .. Len(s) /\ ~(x <= j)
      BY <2>1
    <3> QED BY <2>1, <2>3, <3>1
  <2>5. \E i \in DOMAIN s : s[i] \in X /\ \A j \in 1 .. i - 1 : s[j] \notin X
    BY <2>4
  <2>6. k \in DOMAIN s /\ s[k] \in X
    BY <2>5
  <2> HIDE DEF k
  <2>7. s[k] \in Range(s) \cap X
    BY <2>6 DEF Range
  <2>8. First(s, X) = s[k]
    BY <1>2 DEF First, k
  <2> QED BY <1>2, <2>7, <2>8
<1> QED BY <1>1, <1>2

Lists == [List -> Seq(Task)]

\* m is ls with node t moved to list q, wherever it was.
Moved(ls, m, t, q) ==
    /\ Range(m[q]) = Range(ls[q]) \cup {t}
    /\ \A r \in List : r # q => m[r] = Without(ls[r], t)
    /\ \A r \in List : r # q => Range(m[r]) = Range(ls[r]) \ {t}

\* list_del and list_add_tail move a node.
LEMMA MoveProperties ==
    ASSUME NEW ls \in Lists, WellLinked(ls), NEW t \in Task, NEW q \in List,
           NEW m, m = add_tail(remove_sched(ls, t), q, t)
    PROVE  m \in Lists /\ WellLinked(m) /\ Moved(ls, m, t, q)
<1> DEFINE w == remove_sched(ls, t)
<1>1. ASSUME NEW r \in List
      PROVE  /\ Without(ls[r], t) \in Seq(Task)
             /\ IsInjective(Without(ls[r], t))
             /\ Range(Without(ls[r], t)) = Range(ls[r]) \ {t}
  BY WithoutProperties DEF WellLinked, Lists
<1>2. w \in Lists /\ \A r \in List : w[r] = Without(ls[r], t)
  BY <1>1 DEF remove_sched, Lists
<1> HIDE DEF w
<1>3. /\ Append(w[q], t) \in Seq(Task)
      /\ IsInjective(Append(w[q], t))
      /\ Range(Append(w[q], t)) = Range(w[q]) \cup {t}
  <2>1. w[q] \in Seq(Task) /\ IsInjective(w[q]) /\ t \notin Range(w[q])
    BY <1>1, <1>2
  <2> QED BY <2>1, AppendRange
<1>4. /\ m \in Lists /\ m[q] = Append(w[q], t)
      /\ \A r \in List : r # q => m[r] = w[r]
  BY <1>2, <1>3 DEF add_tail, Lists, w
<1>5. /\ Range(m[q]) = Range(ls[q]) \cup {t}
      /\ \A r \in List : r # q => Range(m[r]) = Range(ls[r]) \ {t}
  BY <1>1, <1>2, <1>3, <1>4
<1>6. \A r \in List : IsInjective(m[r])
  BY <1>1, <1>2, <1>3, <1>4
<1>7. \A r1, r2 \in List : r1 # r2 => Range(m[r1]) \cap Range(m[r2]) = {}
  BY <1>5 DEF WellLinked
<1>8. WellLinked(m)
  BY <1>6, <1>7 DEF WellLinked
<1>9. \A r \in List : r # q => m[r] = Without(ls[r], t)
  BY <1>2, <1>4
<1> QED BY <1>4, <1>5, <1>8, <1>9 DEF Moved

--------------------------------------------------------------------------------
(* Scheduling *)

\* A slice count is positive on every background level.
LEMMA SlicesPositive ==
    ASSUME NEW lv \in SCHED_LV_MIN .. SCHED_LV_MAX
    PROVE  sched_time_cnt(lv) \in Nat \ {0}
<1>1. CNT_BASE \in Nat /\ CNT_BASE >= 1 /\ lv \in Nat /\ lv >= 1
  BY PcAssumption DEF SCHED_LV_MIN
<1>2. \A x, y \in Nat : x >= 1 /\ y >= 1 => x * y \in Nat /\ x * y >= 1
  OBVIOUS
<1> QED BY <1>1, <1>2 DEF sched_time_cnt

\* Paying for a turn keeps a task within the levels and within its slices.
LEMMA PayProperties ==
    ASSUME NEW r \in TaskStruct,
           r.sched_lv \in SCHED_LV_MIN .. SCHED_LV_MAX - 1,
           r.time_cnt \in 1 .. sched_time_cnt(r.sched_lv)
    PROVE  /\ Pay(r) \in TaskStruct
           /\ Pay(r).sched_lv \in SCHED_LV_MIN .. SCHED_LV_MAX
           /\ Pay(r).time_cnt \in 1 .. sched_time_cnt(Pay(r).sched_lv)
           /\ Pay(r).state = r.state /\ Pay(r).pid = r.pid /\ Pay(r).mm = r.mm
<1>1. SCHED_LV_MAX \in Nat
  BY PcAssumption
<1>2. r.sched_lv + 1 \in SCHED_LV_MIN .. SCHED_LV_MAX
  BY <1>1 DEF SCHED_LV_MIN
<1>3. /\ sched_time_cnt(r.sched_lv + 1) \in Nat \ {0}
      /\ sched_time_cnt(r.sched_lv) \in Nat \ {0}
  BY <1>1, <1>2, SlicesPositive DEF SCHED_LV_MIN
<1>4. CASE r.time_cnt = 1
  <2>1. Pay(r) = [r EXCEPT !.sched_lv = r.sched_lv + 1,
                           !.time_cnt = sched_time_cnt(r.sched_lv + 1)]
    BY <1>4 DEF Pay
  <2> DEFINE cnt == sched_time_cnt(r.sched_lv + 1)
  <2>2. r.sched_lv + 1 \in Level
    BY <1>1, <1>2 DEF Level, SCHED_LV_MIN
  <2>3. cnt \in Nat /\ cnt \in 1 .. cnt
    BY <1>3
  <2>4. Pay(r) = [r EXCEPT !.sched_lv = r.sched_lv + 1, !.time_cnt = cnt]
    BY <2>1
  <2>5. sched_time_cnt(Pay(r).sched_lv) = cnt
    <3>1. Pay(r).sched_lv = r.sched_lv + 1
      BY <2>1 DEF TaskStruct
    <3> QED BY <3>1
  <2> HIDE DEF cnt
  <2> QED BY <1>2, <2>2, <2>3, <2>4, <2>5 DEF TaskStruct
<1>5. CASE r.time_cnt # 1
  <2>1. Pay(r) = [r EXCEPT !.time_cnt = r.time_cnt - 1]
    BY <1>5 DEF Pay
  <2>2. r.time_cnt - 1 \in Nat /\ r.time_cnt - 1 \in 1 .. sched_time_cnt(r.sched_lv)
    BY <1>3, <1>5
  <2> QED BY <1>1, <2>1, <2>2 DEF TaskStruct
<1> QED BY <1>4, <1>5

\* m and ck are the lists ls and the structures tk after a turn of the
\* scheduler: the task that had the CPU stays in its place, or has moved to the
\* tail of the level it has been charged to.  Nothing else has changed.
Turned(ls, tk, m, ck) ==
    LET c == current_task
        lv == ck[c].sched_lv
    IN  /\ \A t \in Task : /\ ck[t].state = tk[t].state /\ ck[t].pid = tk[t].pid
                           /\ ck[t].mm = tk[t].mm
                           /\ t # c => ck[t] = tk[t]
                           /\ tk[t].sched_lv = SCHED_LV0 => ck[t] = tk[t]
        /\ lv \in SCHED_LV_MIN .. SCHED_LV_MAX => ck[c].time_cnt \in 1 .. sched_time_cnt(lv)
        /\ tk[c].sched_lv # SCHED_LV0 => lv # SCHED_LV0
        /\ Range(m[lv]) = Range(ls[lv]) \cup {c}
        /\ \A r \in List : r # lv => Range(m[r]) = Range(ls[r]) \ {c}
        /\ \A r \in {SCHED_LV0, WAIT, EXITED} : m[r] = ls[r]

\* find_next_task, but for its choice, takes one turn.
LEMMA RequeueProperties ==
    ASSUME NEW ls \in Lists, WellLinked(ls),
           NEW tk \in [Task -> TaskStruct],
           current_task \in Task,
           current_task \in Range(ls[tk[current_task].sched_lv]),
           tk[current_task].sched_lv \in SCHED_LV_MIN .. SCHED_LV_MAX
              => tk[current_task].time_cnt \in 1 .. sched_time_cnt(tk[current_task].sched_lv),
           NEW m, m = Requeued(ls, tk),
           NEW ck, ck = Charged(tk)
    PROVE  /\ m \in Lists /\ WellLinked(m)
           /\ ck \in [Task -> TaskStruct]
           /\ Turned(ls, tk, m, ck)
<1> DEFINE c  == current_task
           lv == tk[c].sched_lv
<1>1. /\ SCHED_LV_MAX \in Nat \ {0} /\ Level \subseteq List
      /\ WAIT \in List /\ EXITED \in List /\ WAIT \notin Level /\ EXITED \notin Level
      /\ SCHED_LV0 \in Level /\ lv \in Level
  BY PcAssumption DEF Level, List, WAIT, EXITED, SCHED_LV0, TaskStruct
<1>2. \A r \in List : r # lv => c \notin Range(ls[r])
  BY <1>1 DEF WellLinked
<1>3. CASE ~Preemptive(tk)
  <2>1. m = ls /\ ck = tk
    BY <1>3 DEF Requeued, Charged
  <2> QED BY <1>1, <1>2, <2>1 DEF Turned
<1>4. CASE Preemptive(tk)
  <2> DEFINE p == Pay(tk[c])
  <2>1. /\ lv \in SCHED_LV_MIN .. SCHED_LV_MAX - 1
        /\ lv \in SCHED_LV_MIN .. SCHED_LV_MAX /\ lv # SCHED_LV0
    BY <1>1, <1>4 DEF Preemptive, SCHED_LV_MIN, SCHED_LV0
  <2>2. /\ p \in TaskStruct
        /\ p.sched_lv \in SCHED_LV_MIN .. SCHED_LV_MAX
        /\ p.time_cnt \in 1 .. sched_time_cnt(p.sched_lv)
        /\ p.state = tk[c].state /\ p.pid = tk[c].pid /\ p.mm = tk[c].mm
    BY <2>1, PayProperties
  <2>3. ck = [tk EXCEPT ![c] = p]
    BY <1>4 DEF Charged
  <2>4. m = add_tail(remove_sched(ls, c), p.sched_lv, c)
    BY <1>4 DEF Requeued
  <2>5. p.sched_lv \in List /\ p.sched_lv \notin {SCHED_LV0, WAIT, EXITED}
    BY <1>1, <2>2 DEF Level, SCHED_LV_MIN, SCHED_LV0, WAIT, EXITED
  <2>6. ck[c] = p /\ ck \in [Task -> TaskStruct]
    BY <2>2, <2>3
  <2>7. \A t \in Task : t # c => ck[t] = tk[t]
    BY <2>3
  <2> HIDE DEF p
  <2> DEFINE q == p.sched_lv
  <2>q. q \in List /\ m = add_tail(remove_sched(ls, c), q, c)
    BY <2>4, <2>5
  <2> HIDE DEF q
  <2>8. m \in Lists /\ WellLinked(m) /\ Moved(ls, m, c, q)
    BY <2>q, MoveProperties
  <2>9. ASSUME NEW r \in {SCHED_LV0, WAIT, EXITED}  PROVE m[r] = ls[r]
    <3>1. r \in List /\ r # p.sched_lv /\ r # lv
      BY <1>1, <2>1, <2>5
    <3> QED BY <1>2, <2>8, <3>1 DEF Moved, Without, q
  <2> QED BY <2>1, <2>2, <2>5, <2>6, <2>7, <2>8, <2>9 DEF Moved, Turned, q
<1> QED BY <1>3, <1>4

\* find_in_sched_back returns a ready background task, if there is one.
LEMMA BackProperties ==
    ASSUME NEW ls \in Lists, NEW tk \in [Task -> TaskStruct],
           NEW back, back = find_in_sched_back(ls, tk)
    PROVE  /\ back # Null =>
                \E q \in SCHED_LV_MIN .. SCHED_LV_MAX :
                   back \in Range(ls[q]) /\ back \in Task /\ tk[back].state = S_READY
           /\ (\E q \in SCHED_LV_MIN .. SCHED_LV_MAX, t \in Task :
                   t \in Range(ls[q]) /\ tk[t].state = S_READY) => back # Null
<1> DEFINE Ready == { t \in Task : tk[t].state = S_READY }
           Lv == { i \in SCHED_LV_MIN .. SCHED_LV_MAX : Range(ls[i]) \cap Ready # {} }
           q == CHOOSE i \in Lv : \A j \in Lv : i <= j
<1>0. SCHED_LV_MAX \in Nat /\ SCHED_LV_MIN .. SCHED_LV_MAX \subseteq List
      /\ SCHED_LV_MIN .. SCHED_LV_MAX \subseteq Nat
  BY PcAssumption DEF List, Level, SCHED_LV_MIN
<1>1. CASE Lv = {}
  <2>1. back = Null
    BY <1>1 DEF find_in_sched_back
  <2>2. \A i \in SCHED_LV_MIN .. SCHED_LV_MAX : Range(ls[i]) \cap Ready = {}
    BY <1>1
  <2> QED BY <2>1, <2>2
<1>2. CASE Lv # {}
  <2>1. Lv \in SUBSET Nat
    BY <1>0
  <2>2. q \in Lv
    BY <1>2, <2>1, LeastNat
  <2>3. back = First(ls[q], Ready)
    BY <1>2 DEF find_in_sched_back
  <2> HIDE DEF q
  <2>4. q \in SCHED_LV_MIN .. SCHED_LV_MAX /\ Range(ls[q]) \cap Ready # {}
    BY <2>2
  <2>5. ls[q] \in Seq(Task)
    BY <1>0, <2>4 DEF Lists
  <2>6. back \in Range(ls[q]) \cap Ready
    BY <2>3, <2>4, <2>5, FirstProperties
  <2>7. back # Null
    BY <2>6, PcAssumption
  <2> QED BY <2>4, <2>6, <2>7
<1> QED BY <1>1, <1>2

\* n is idle, the shell in its turn after idle, or a ready task of a background
\* queue.
Pickable(ls, tk, n) ==
    \/ n = Idle
    \/ n = Shell /\ ls[SCHED_LV0] = <<Idle, Shell>> /\ current_task = Idle
    \/ \E q \in SCHED_LV_MIN .. SCHED_LV_MAX :
          n \in Range(ls[q]) /\ n \in Task /\ tk[n].state = S_READY

\* find_next_task picks such a task.
LEMMA NextTaskProperties ==
    ASSUME NEW ls \in Lists, NEW tk \in [Task -> TaskStruct],
           current_task \in Task,
           ls[SCHED_LV0] = <<Idle>> \/ ls[SCHED_LV0] = <<Idle, Shell>>,
           tk[current_task].sched_lv = SCHED_LV0 => current_task \in {Idle, Shell},
           tk[current_task].sched_lv = SCHED_LV0 /\ current_task = Shell
              => ls[SCHED_LV0] = <<Idle, Shell>>,
           NEW n, n = NextTask(ls, tk)
    PROVE  Pickable(ls, tk, n)
<1> DEFINE s == ls[SCHED_LV0]
           back == find_in_sched_back(ls, tk)
<1>1. ASSUME back # Null
      PROVE  \E q \in SCHED_LV_MIN .. SCHED_LV_MAX :
                back \in Range(ls[q]) /\ back \in Task /\ tk[back].state = S_READY
  BY <1>1, BackProperties
<1>2. CASE n = back /\ back # Null
  <2>1. PICK q \in SCHED_LV_MIN .. SCHED_LV_MAX :
           back \in Range(ls[q]) /\ back \in Task /\ tk[back].state = S_READY
    BY <1>1, <1>2
  <2> HIDE DEF back
  <2> QED BY <1>2, <2>1 DEF Pickable
<1>3. CASE n = Head(s)
  <2>1. n = Idle
    BY <1>3
  <2> QED BY <2>1 DEF Pickable
<1>4. CASE /\ tk[current_task].sched_lv = SCHED_LV0 /\ current_task # Last(s)
           /\ n = s[(CHOOSE i \in DOMAIN s : s[i] = current_task) + 1]
  <2>1. s = <<Idle, Shell>> /\ current_task = Idle
    BY <1>4 DEF Last
  <2>2. DOMAIN s = {1, 2} /\ s[1] = Idle /\ s[2] = Shell /\ Idle # Shell
    BY <2>1, PcAssumption
  <2>3. (CHOOSE i \in DOMAIN s : s[i] = current_task) = 1
    BY <2>1, <2>2
  <2>4. n = Shell
    BY <1>4, <2>2, <2>3
  <2> QED BY <2>1, <2>4 DEF Pickable
<1>5. \/ n = back /\ back # Null
      \/ n = Head(s)
      \/ /\ tk[current_task].sched_lv = SCHED_LV0 /\ current_task # Last(s)
         /\ n = s[(CHOOSE i \in DOMAIN s : s[i] = current_task) + 1]
  BY DEF NextTask
<1> QED BY <1>2, <1>3, <1>4, <1>5

--------------------------------------------------------------------------------
(* The inductive invariant: what steps share *)

USE DEF S_UNINIT, S_READY, S_TERMINAL, IDLE_PID, INIT_PID

\* The indexes of the run queues, of wait and of exited are distinct.
LEMMA ListIndexes ==
    /\ SCHED_LV_MAX \in Nat \ {0}
    /\ Level \subseteq List /\ WAIT \in List /\ EXITED \in List
    /\ WAIT \notin Level /\ EXITED \notin Level /\ WAIT # EXITED
    /\ SCHED_LV0 \in Level /\ SCHED_LV_MIN \in Level /\ SCHED_LV_MIN # SCHED_LV0
    /\ SCHED_LV_MIN .. SCHED_LV_MAX \subseteq Level \ {SCHED_LV0}
    /\ \A q \in List : q \in Level \/ q = WAIT \/ q = EXITED
    /\ \A q \in Level : q = SCHED_LV0 \/ q \in SCHED_LV_MIN .. SCHED_LV_MAX
    /\ SCHED_LV_MIN \in SCHED_LV_MIN .. SCHED_LV_MAX
BY PcAssumption DEF Level, List, WAIT, EXITED, SCHED_LV0, SCHED_LV_MIN

\* A search of the list of all tasks that does not return 0 returns a task.
LEMMA FirstTaskProperties ==
    ASSUME TasksOrdered, NEW S, FirstTask(S) # Null
    PROVE  FirstTask(S) \in tasks \cap S
<1>1. tasks \cap S # {}
  BY DEF FirstTask
<1>2. \E t \in tasks \cap S : \A u \in tasks \cap S : u # t => <<t, u>> \in before
  BY <1>1 DEF TasksOrdered
<1>3. FirstTask(S) = CHOOSE t \in tasks \cap S :
                        \A u \in tasks \cap S : u # t => <<t, u>> \in before
  BY <1>1 DEF FirstTask
<1> QED BY <1>2, <1>3

\* Task t is linked on the lists ls as its structure in tk says; ts are the
\* tasks and nw the one task_create has not finished.
Placed(ls, tk, ts, nw, t) ==
    /\ t \in ts <=> (t = nw \/ \E q \in List : t \in Range(ls[q]))
    /\ \A q \in Level : t \in Range(ls[q]) => /\ tk[t].sched_lv = q
                                             /\ tk[t].state \in {S_UNINIT, S_READY}
    /\ tk[t].state = S_READY => t \in Range(ls[tk[t].sched_lv])
    /\ t \in Range(ls[WAIT]) <=> tk[t].state < 0
    /\ t \in Range(ls[EXITED]) <=> tk[t].state = S_TERMINAL

\* ListsMatchStates says so of every task.
LEMMA PlacedEverywhere ==
    ListsMatchStates <=> /\ WellLinked(list)
                         /\ \A t \in Task : Placed(list, task, tasks, new, t)
BY DEF ListsMatchStates, Placed, On

\* The part of the invariant that a step inside pid_alloc, pid_free, the start
\* of waitpid or the end of a command leaves alone.
LEMMA Untouched ==
    ASSUME IInv, UNCHANGED <<list, tasks, before, task, current_task, asid, new>>
    PROVE  /\ ListsMatchStates' /\ Foreground' /\ TasksOrdered'
           /\ CurrentRunnable' /\ SliceBounds' /\ AsidOfCurrent'
<1>1. ListsMatchStates'
  BY DEF IInv, ListsMatchStates, On
<1>2. Foreground'
  BY DEF IInv, Foreground
<1>3. TasksOrdered'
  BY DEF IInv, TasksOrdered
<1>4. CurrentRunnable' /\ SliceBounds' /\ AsidOfCurrent'
  BY DEF IInv, CurrentRunnable, SliceBounds, AsidOfCurrent, On
<1> QED BY <1>1, <1>2, <1>3, <1>4

--------------------------------------------------------------------------------
(* The inductive invariant: initially, and through the shell's steps *)

\* The kernel has booted into a state that satisfies the invariant.
LEMMA InitIInv == Init => IInv
<1> SUFFICES ASSUME Init PROVE IInv
  OBVIOUS
<1> USE DEF Init
<1>1. /\ \A q \in List : Range(list[q]) = IF q = SCHED_LV0 THEN {Idle, Shell} ELSE {}
      /\ \A q \in List : IsInjective(list[q])
      /\ list \in Lists
  <2>1. Idle # Shell /\ Idle \in Task /\ Shell \in Task
    BY PcAssumption DEF Task
  <2>2. <<Idle, Shell>> \in Seq(Task) /\ << >> \in Seq(Task)
    BY <2>1
  <2>3. Range(<<Idle, Shell>>) = {Idle, Shell} /\ Range(<< >>) = {}
    BY DEF Range
  <2>4. IsInjective(<<Idle, Shell>>) /\ IsInjective(<< >>)
    BY <2>1 DEF IsInjective
  <2> QED BY <2>2, <2>3, <2>4 DEF Lists
<1>2. TypeOK
  <2>1. PidTypeOK
    BY PidAssumption DEF PidTypeOK, Pids
  <2>2. task \in [Task -> TaskStruct]
    BY PidAssumption, PcAssumption
       DEF Task, TaskStruct, Booted, NoTask, Level, SCHED_LV0, Mms
  <2> QED BY <1>1, <2>1, <2>2, PidAssumption DEF TypeOK, Task, Lists, Labels, Faults, Pids
<1>3. ListsMatchStates
  <2>1. \A t \in Task : Placed(list, task, tasks, new, t)
    BY <1>1, ListIndexes, PcAssumption DEF Placed, Task, Booted, NoTask, SCHED_LV0
  <2>2. WellLinked(list)
    BY <1>1 DEF WellLinked
  <2> QED BY <2>1, <2>2, PlacedEverywhere
<1>4. Foreground
  BY ListIndexes, PcAssumption DEF Foreground, Task, Booted, NoTask
<1>5. TasksOrdered
  <2> SUFFICES ASSUME NEW S \in SUBSET tasks, S # {}
               PROVE  \E t \in S : \A u \in S : u # t => <<t, u>> \in before
    BY DEF TasksOrdered
  <2>1. CASE Idle \in S
    BY <2>1
  <2>2. CASE Idle \notin S
    BY <2>2
  <2> QED BY <2>1, <2>2
<1>6. ShellControl
  BY PcAssumption DEF ShellControl, Creating, Task
<1>7. CurrentRunnable
  BY <1>1, ListIndexes, PcAssumption DEF CurrentRunnable, On, Task, Booted
<1>8. SliceBounds
  BY <1>1, ListIndexes, PcAssumption DEF SliceBounds, On
<1>9. AsidOfCurrent /\ ExitedAreTerminal
  BY PcAssumption DEF AsidOfCurrent, ExitedAreTerminal, Booted, Task
<1> QED BY <1>2, <1>3, <1>4, <1>5, <1>6, <1>7, <1>8, <1>9 DEF IInv

\* pid_alloc's scan.  The pid it stops at is neither idle's nor init's.
LEMMA PidAllocStep ==
    ASSUME IInv, NEW p \in 0 .. PID_CAP, PidAlloc(p)
    PROVE  IInv'
<1> USE DEF PidAlloc, Command, ShellAt, pidVars
<1>1. UNCHANGED <<list, tasks, before, task, current_task, asid, new>>
  OBVIOUS
<1>2. TypeOK'
  BY DEF IInv, TypeOK, PidTypeOK, Labels, pid_load, Byte
<1>3. p \notin {IDLE_PID, INIT_PID}
  BY DEF IInv, ShellControl, pid_scan, MayBeClear
<1>4. ShellControl'
  BY <1>3 DEF IInv, ShellControl, Creating, CurrentRunnable, pid_load
<1> QED BY <1>1, <1>2, <1>4, Untouched DEF IInv, ExitedAreTerminal

\* pid_alloc's store.
LEMMA PidAllocStoreStep ==
    ASSUME IInv, PidAllocStore
    PROVE  IInv'
<1> USE DEF PidAllocStore, ShellAt, pid_store
<1>1. UNCHANGED <<list, tasks, before, task, current_task, asid, new>>
  OBVIOUS
<1>2. TypeOK'
  BY PidAssumption DEF IInv, TypeOK, PidTypeOK, Labels
<1>3. ShellControl'
  BY DEF IInv, ShellControl, Creating
<1> QED BY <1>1, <1>2, <1>3, Untouched DEF IInv, ExitedAreTerminal

\* kmalloc fails in task_create, and pid_free starts.
LEMMA KmallocFailsStep ==
    ASSUME IInv, KmallocFails
    PROVE  IInv'
<1> USE DEF KmallocFails, ShellAt, pidVars
<1>1. UNCHANGED <<list, tasks, before, task, current_task, asid, new>>
  OBVIOUS
<1>2. TypeOK'
  BY PidAssumption DEF IInv, TypeOK, PidTypeOK, Labels, pid_load
<1>3. ShellControl'
  BY DEF IInv, ShellControl, Creating, pid_load
<1> QED BY <1>1, <1>2, <1>3, Untouched DEF IInv, ExitedAreTerminal

\* pid_free's store.
LEMMA PidFreeStoreStep ==
    ASSUME IInv, PidFreeStore
    PROVE  IInv'
<1> USE DEF PidFreeStore, ShellAt, pid_free_store
<1>1. UNCHANGED <<list, tasks, before, task, current_task, asid, new>>
  OBVIOUS
<1>2. TypeOK'
  BY PidAssumption DEF IInv, TypeOK, PidTypeOK, Labels
<1>3. ShellControl'
  BY DEF IInv, ShellControl, Creating
<1> QED BY <1>1, <1>2, <1>3, Untouched DEF IInv, ExitedAreTerminal

\* waitpid looks for the process.
LEMMA WaitCheckStep ==
    ASSUME IInv, WaitCheck
    PROVE  IInv'
<1> USE DEF WaitCheck, ShellAt, pidVars
<1>1. UNCHANGED <<list, tasks, before, task, current_task, asid, new>>
  BY DEF IInv, ShellControl
<1>2. TypeOK'
  BY PidAssumption DEF IInv, TypeOK, PidTypeOK, Labels
<1>3. ShellControl'
  BY DEF IInv, ShellControl, Creating
<1> QED BY <1>1, <1>2, <1>3, Untouched DEF IInv, ExitedAreTerminal

\* pc_kill writes through a null pointer.
LEMMA KillNullStep ==
    ASSUME IInv, NEW p \in Pids, KillNull(p)
    PROVE  IInv'
<1> USE DEF KillNull, shVars, pidVars
<1>1. UNCHANGED <<list, tasks, before, task, current_task, asid, new>>
  OBVIOUS
<1>2. TypeOK'
  BY DEF IInv, TypeOK, PidTypeOK, Faults
<1>3. ShellControl'
  BY DEF IInv, ShellControl, Creating, On
<1> QED BY <1>1, <1>2, <1>3, Untouched DEF IInv, ExitedAreTerminal

\* A cleared structure is one of a task that has not been initialised.
LEMMA NoTaskStruct == NoTask \in TaskStruct /\ NoTask.state = S_UNINIT
<1>1. 0 \in Level
  BY ListIndexes DEF SCHED_LV0
<1>2. "null" \in Mms
  BY DEF Mms
<1>3. 0 \in 0 .. PID_CAP
  BY PidAssumption
<1> QED BY <1>1, <1>2, <1>3 DEF TaskStruct, NoTask

\* A task put at the end of the list of all tasks keeps that list in order.
LEMMA AddTaskOrdered ==
    ASSUME TasksOrdered, NEW t, add_task(t)
    PROVE  TasksOrdered'
<1> SUFFICES ASSUME NEW S \in SUBSET tasks', S # {}
             PROVE  \E x \in S : \A u \in S : u # x => <<x, u>> \in before'
  BY DEF TasksOrdered
<1>1. tasks' = tasks \cup {t} /\ before' = before \cup (tasks \X {t})
  BY DEF add_task
<1>2. CASE S \cap tasks = {}
  BY <1>1, <1>2
<1>3. CASE S \cap tasks # {}
  <2>1. PICK x \in S \cap tasks : \A u \in S \cap tasks : u # x => <<x, u>> \in before
    BY <1>3 DEF TasksOrdered
  <2>2. \A u \in S : u # x => <<x, u>> \in before'
    BY <1>1, <2>1
  <2> QED BY <2>1, <2>2
<1> QED BY <1>2, <1>3

\* task_create fills the new structure and links it into the list of tasks.
LEMMA FillTaskStep ==
    ASSUME IInv, NEW t \in Child, NEW mm \in {"null", "live"}, FillTask(t, mm)
    PROVE  IInv'
<1> DEFINE r == [NoTask EXCEPT !.pid = newpid, !.parent = task[Shell].pid, !.mm = mm]
<1>1. /\ t \notin tasks /\ t \in Task /\ t # Shell /\ t # Idle /\ t # Null
      /\ task' = [task EXCEPT ![t] = r] /\ add_task(t) /\ tasks' = tasks \cup {t}
      /\ at = "kmalloc" /\ at' = "sched" /\ new' = t /\ fault = "none"
      /\ UNCHANGED <<list, current_task, asid, newpid, byte, fault, pidmap, next_pid>>
  BY PcAssumption DEF FillTask, ShellAt, add_task, pidVars, Task
<1>2. r \in TaskStruct /\ r.state = S_UNINIT /\ r.pid = newpid
  <2>1. newpid \in 0 .. PID_CAP /\ task[Shell].pid \in 0 .. PID_CAP
    BY DEF IInv, TypeOK, TaskStruct, Task
  <2>2. mm \in Mms
    BY DEF Mms
  <2> QED BY <2>1, <2>2, NoTaskStruct DEF TaskStruct
<1> HIDE DEF r
<1>3. /\ task'[t] = r
      /\ \A u \in Task : u # t => task'[u] = task[u]
      /\ task' \in [Task -> TaskStruct]
  BY <1>1, <1>2 DEF IInv, TypeOK
<1>4. new = Null
  BY <1>1 DEF IInv, ShellControl
<1>5. \A q \in List : t \notin Range(list[q])
  BY <1>1 DEF IInv, ListsMatchStates, On
<1>6. TypeOK'
  <2>1. before' \subseteq Task \X Task /\ tasks' \subseteq Task
    BY <1>1 DEF IInv, TypeOK, add_task
  <2> QED BY <1>1, <1>3, <2>1 DEF IInv, TypeOK, PidTypeOK, Labels, Faults
<1>7. ListsMatchStates'
  <2>1. ASSUME NEW u \in Task PROVE Placed(list, task', tasks', new', u)
    <3>1. CASE u = t
      BY <1>1, <1>2, <1>3, <1>5, <3>1, ListIndexes DEF Placed
    <3>2. CASE u # t
      <4>1. Placed(list, task, tasks, new, u) /\ u # Null
        BY PlacedEverywhere, PcAssumption DEF IInv
      <4> QED BY <1>1, <1>3, <1>4, <3>2, <4>1 DEF Placed
    <3> QED BY <3>1, <3>2
  <2> QED BY <1>1, <2>1 DEF IInv, ListsMatchStates, Placed, On
<1>8. current_task # t /\ current_task \in Task
  BY <1>5, ListIndexes DEF IInv, CurrentRunnable, On, TypeOK, TaskStruct
<1>9. Foreground'
  BY <1>1, <1>2, <1>3, <1>4, PcAssumption DEF IInv, Foreground, ShellControl, Creating, Task
<1>10. TasksOrdered'
  BY <1>1, AddTaskOrdered DEF IInv
<1>11. ShellControl'
  BY <1>1, <1>2, <1>3, <1>5, PcAssumption DEF IInv, ShellControl, Creating, On, Task
<1>12. CurrentRunnable' /\ AsidOfCurrent'
  BY <1>1, <1>3, <1>8 DEF IInv, CurrentRunnable, AsidOfCurrent, On
<1>13. SliceBounds'
  BY <1>1, <1>3, <1>5, ListIndexes DEF IInv, SliceBounds, On, Task
<1> QED BY <1>1, <1>6, <1>7, <1>9, <1>10, <1>11, <1>12, <1>13 DEF IInv, ExitedAreTerminal

\* task_create links the new task at the tail of the first background level.
LEMMA EnterSchedStep ==
    ASSUME IInv, EnterSched
    PROVE  IInv'
<1> DEFINE lv == SCHED_LV_MIN
<1>1. /\ at = "sched" /\ at' = "ready" /\ fault = "none"
      /\ new \in Child \cap tasks /\ new \in Task /\ new # Shell /\ new # Idle
      /\ task[new].state = S_UNINIT /\ task[new].pid \notin {IDLE_PID, INIT_PID}
      /\ \A q \in List : new \notin Range(list[q])
      /\ UNCHANGED <<tasks, before, current_task, asid, newpid, byte, new, fault,
                     pidmap, next_pid>>
  BY PcAssumption DEF IInv, EnterSched, ShellAt, ShellControl, Foreground, On, pidVars, Task
<1>2. /\ task' = [task EXCEPT ![new].sched_lv = lv, ![new].time_cnt = sched_time_cnt(lv)]
      /\ list' = add_tail(list, lv, new)
  BY <1>1, ListIndexes DEF EnterSched
<1>3. sched_time_cnt(lv) \in Nat \ {0} /\ lv \in SCHED_LV_MIN .. SCHED_LV_MAX
  BY ListIndexes, SlicesPositive
<1>4. /\ task' \in [Task -> TaskStruct]
      /\ task'[new].sched_lv = lv /\ task'[new].time_cnt = sched_time_cnt(lv)
      /\ task'[new].state = S_UNINIT /\ task'[new].pid = task[new].pid
      /\ \A t \in Task : t # new => task'[t] = task[t]
  <2> DEFINE cnt == sched_time_cnt(lv)
  <2>1. cnt \in Nat /\ lv \in Level
    BY <1>3, ListIndexes
  <2>2. task' = [task EXCEPT ![new].sched_lv = lv, ![new].time_cnt = cnt]
    BY <1>2
  <2> HIDE DEF cnt
  <2>3. task[new] \in TaskStruct /\ task \in [Task -> TaskStruct]
    BY <1>1 DEF IInv, TypeOK
  <2>4. /\ task' \in [Task -> TaskStruct]
        /\ task'[new].sched_lv = lv /\ task'[new].time_cnt = cnt
        /\ task'[new].state = task[new].state /\ task'[new].pid = task[new].pid
        /\ \A t \in Task : t # new => task'[t] = task[t]
    BY <1>1, <2>1, <2>2, <2>3 DEF TaskStruct
  <2> QED BY <1>1, <2>4 DEF cnt
<1>5. /\ list' \in Lists /\ WellLinked(list')
      /\ Range(list'[lv]) = Range(list[lv]) \cup {new}
      /\ \A q \in List : q # lv => list'[q] = list[q]
  <2>1. list \in Lists /\ WellLinked(list) /\ lv \in List
    BY ListIndexes DEF IInv, TypeOK, Lists, ListsMatchStates
  <2>2. /\ Append(list[lv], new) \in Seq(Task)
        /\ IsInjective(Append(list[lv], new))
        /\ Range(Append(list[lv], new)) = Range(list[lv]) \cup {new}
    BY <1>1, <2>1, AppendRange DEF Lists, WellLinked
  <2>3. /\ list' \in Lists /\ list'[lv] = Append(list[lv], new)
        /\ \A q \in List : q # lv => list'[q] = list[q]
    BY <1>2, <2>1, <2>2 DEF add_tail, Lists
  <2>4. \A q \in List : IsInjective(list'[q])
    BY <2>1, <2>2, <2>3 DEF WellLinked
  <2>5. ASSUME NEW q \in List, NEW r \in List, q # r
        PROVE  Range(list'[q]) \cap Range(list'[r]) = {}
    <3>1. Range(list[q]) \cap Range(list[r]) = {}
      BY <2>1, <2>5 DEF WellLinked
    <3>2. new \notin Range(list[q]) /\ new \notin Range(list[r])
      BY <1>1
    <3>3. /\ list'[q] = list[q] \/ (q = lv /\ Range(list'[q]) = Range(list[q]) \cup {new})
          /\ list'[r] = list[r] \/ (r = lv /\ Range(list'[r]) = Range(list[r]) \cup {new})
      BY <2>2, <2>3
    <3> QED BY <2>5, <3>1, <3>2, <3>3
  <2> QED BY <2>2, <2>3, <2>4, <2>5 DEF WellLinked
<1> HIDE DEF lv
<1>6. lv \in Level /\ lv \in List /\ lv # SCHED_LV0 /\ lv # WAIT /\ lv # EXITED
  BY ListIndexes DEF lv
<1>7. TypeOK'
  BY <1>1, <1>4, <1>5 DEF IInv, TypeOK, PidTypeOK, Labels, Lists
<1>8. ListsMatchStates'
  <2>1. ASSUME NEW t \in Task PROVE Placed(list', task', tasks, new, t)
    <3>1. Placed(list, task, tasks, new, t)
      BY PlacedEverywhere DEF IInv
    <3>2. CASE t = new
      BY <1>1, <1>4, <1>5, <1>6, <3>2, ListIndexes DEF Placed
    <3>3. CASE t # new
      <4>1. \A q \in List : t \in Range(list'[q]) <=> t \in Range(list[q])
        BY <1>5, <3>3
      <4>2. task[t].sched_lv \in List
        BY ListIndexes DEF IInv, TypeOK, TaskStruct
      <4> QED BY <1>4, <3>1, <3>3, <4>1, <4>2, ListIndexes DEF Placed
    <3> QED BY <3>2, <3>3
  <2> QED BY <1>1, <1>5, <2>1 DEF ListsMatchStates, Placed, On
<1>9. Foreground'
  BY <1>1, <1>4, <1>5, <1>6, ListIndexes, PcAssumption DEF IInv, Foreground, Task
<1>10. TasksOrdered'
  BY <1>1 DEF IInv, TasksOrdered
<1>11. ShellControl'
  BY <1>1, <1>4, <1>5, PcAssumption DEF IInv, ShellControl, Creating, On, lv, Task
<1>12. CurrentRunnable' /\ AsidOfCurrent'
  <2>1. current_task # new /\ current_task \in Task /\ task[current_task].sched_lv \in List
    BY <1>1, ListIndexes DEF IInv, CurrentRunnable, On, TypeOK, TaskStruct
  <2> QED BY <1>1, <1>4, <1>5, <2>1 DEF IInv, CurrentRunnable, AsidOfCurrent, On
<1>13. SliceBounds'
  <2> SUFFICES ASSUME NEW t \in Child, NEW q \in SCHED_LV_MIN .. SCHED_LV_MAX,
                      t \in Range(list'[q])
               PROVE  task'[t].time_cnt \in 1 .. sched_time_cnt(q)
    BY DEF SliceBounds, On
  <2>1. q \in List /\ t \in Task
    BY ListIndexes DEF Task
  <2>2. CASE t = new
    <3>1. q = lv
      BY <1>1, <1>5, <2>1, <2>2
    <3>2. sched_time_cnt(q) \in Nat \ {0} /\ task'[t].time_cnt = sched_time_cnt(q)
      BY <1>3, <1>4, <2>2, <3>1 DEF lv
    <3> QED BY <3>2
  <2>3. CASE t # new
    <3>1. t \in Range(list[q])
      BY <1>5, <2>1, <2>3
    <3> QED BY <1>4, <2>1, <2>3, <3>1 DEF IInv, SliceBounds, On
  <2> QED BY <2>2, <2>3
<1> QED BY <1>1, <1>7, <1>8, <1>9, <1>10, <1>11, <1>12, <1>13 DEF IInv, ExitedAreTerminal

\* The end of task_create: the new task may run from now on.
LEMMA SetReadyStep ==
    ASSUME IInv, NEW is_wait \in BOOLEAN, SetReady(is_wait)
    PROVE  IInv'
<1>1. /\ at = "ready" /\ at' \in {"check", "prompt"} /\ fault = "none"
      /\ newpid' \in 0 .. PID_CAP /\ (at' = "check" => newpid' = newpid)
      /\ new \in Child \cap tasks /\ new \in Task /\ new # Shell /\ new # Idle
      /\ new # Null /\ new' = Null
      /\ task[new].state = S_UNINIT /\ new \in Range(list[SCHED_LV_MIN])
      /\ UNCHANGED <<list, tasks, before, current_task, asid, byte, fault, pidmap, next_pid>>
  BY PidAssumption, PcAssumption
     DEF IInv, SetReady, ShellAt, ShellControl, On, pidVars, Task, TypeOK
<1>2. /\ task' \in [Task -> TaskStruct]
      /\ task'[new].state = S_READY /\ task'[new].pid = task[new].pid
      /\ task'[new].sched_lv = task[new].sched_lv
      /\ task'[new].time_cnt = task[new].time_cnt
      /\ \A t \in Task : t # new => task'[t] = task[t]
  <2>1. task \in [Task -> TaskStruct] /\ task[new] \in TaskStruct
    BY <1>1 DEF IInv, TypeOK
  <2>2. task' = [task EXCEPT ![new].state = S_READY]
    BY DEF SetReady
  <2> QED BY <1>1, <2>1, <2>2 DEF TaskStruct
<1>3. TypeOK'
  BY <1>1, <1>2 DEF IInv, TypeOK, PidTypeOK, Labels
<1>4. ListsMatchStates'
  <2>1. ASSUME NEW t \in Task PROVE Placed(list, task', tasks, Null, t)
    <3>1. Placed(list, task, tasks, new, t) /\ t # Null
      BY PlacedEverywhere, PcAssumption DEF IInv
    <3>2. CASE t = new
      BY <1>1, <1>2, <3>1, <3>2, ListIndexes DEF Placed
    <3>3. CASE t # new
      BY <1>2, <3>1, <3>3 DEF Placed
    <3> QED BY <3>2, <3>3
  <2> QED BY <1>1, <2>1 DEF IInv, ListsMatchStates, Placed, On
<1>5. Foreground'
  BY <1>1, <1>2, PcAssumption DEF IInv, Foreground, Task
<1>6. TasksOrdered'
  BY <1>1 DEF IInv, TasksOrdered
<1>7. ShellControl'
  BY <1>1, <1>2, PcAssumption DEF IInv, ShellControl, Creating, Task
<1>8. CurrentRunnable' /\ AsidOfCurrent'
  <2>1. current_task # new /\ current_task \in Task
    BY <1>1 DEF IInv, CurrentRunnable, TypeOK
  <2> QED BY <1>1, <1>2, <2>1 DEF IInv, CurrentRunnable, AsidOfCurrent, On
<1>9. SliceBounds'
  BY <1>1, <1>2 DEF IInv, SliceBounds, On, Task
<1> QED BY <1>1, <1>3, <1>4, <1>5, <1>6, <1>7, <1>8, <1>9 DEF IInv, ExitedAreTerminal

--------------------------------------------------------------------------------
(* The inductive invariant: kill, sleep, exit and the timer *)

\* pc_exit deletes the address space of the task, interrupts enabled.
LEMMA ExitMmStep ==
    ASSUME IInv, ExitMm
    PROVE  IInv'
<1> DEFINE c == current_task
<1>1. /\ c \in Child /\ c \in Task /\ fault = "none" /\ task[c].mm # "null"
      /\ UNCHANGED <<list, tasks, before, current_task, asid, at, newpid, byte, new,
                     fault, pidmap, next_pid>>
  BY DEF ExitMm, ChildRuns, shVars, pidVars, Task
<1>2. mm_delete(task[c].mm) \in Mms \ {"null"}
  BY <1>1 DEF mm_delete, Mms
<1>3. /\ task' \in [Task -> TaskStruct]
      /\ \A t \in Task : /\ task'[t].state = task[t].state /\ task'[t].pid = task[t].pid
                         /\ task'[t].sched_lv = task[t].sched_lv
                         /\ task'[t].time_cnt = task[t].time_cnt
                         /\ task'[t].mm = "null" => task[t].mm = "null"
  <2> DEFINE mm == mm_delete(task[c].mm)
  <2>1. task' = [task EXCEPT ![c].mm = mm, ![c].exiting = TRUE]
    BY DEF ExitMm
  <2>2. mm \in Mms /\ mm # "null"
    BY <1>2
  <2> HIDE DEF mm
  <2> QED BY <1>1, <2>1, <2>2 DEF IInv, TypeOK, TaskStruct
<1>4. TypeOK'
  BY <1>1, <1>3 DEF IInv, TypeOK, PidTypeOK
<1>5. ListsMatchStates'
  BY <1>1, <1>3 DEF IInv, ListsMatchStates, On
<1>6. Foreground'
  BY <1>1, <1>3 DEF IInv, Foreground, Task
<1>7. TasksOrdered'
  BY <1>1 DEF IInv, TasksOrdered
<1>8. ShellControl'
  BY <1>1, <1>3 DEF IInv, ShellControl, Creating, On, Task
<1>9. CurrentRunnable' /\ SliceBounds' /\ AsidOfCurrent'
  BY <1>1, <1>3 DEF IInv, CurrentRunnable, SliceBounds, AsidOfCurrent, On, Task
<1> QED BY <1>1, <1>4, <1>5, <1>6, <1>7, <1>8, <1>9 DEF IInv, ExitedAreTerminal

\* pc_kill moves a task, dead or alive, to the exited list and frees its pid.
LEMMA KillStep ==
    ASSUME IInv, NEW p \in Pids, Kill(p)
    PROVE  IInv'
<1> DEFINE t == find_in_tasks(p)
           mm == mm_delete(task[t].mm)
<1>1. /\ at = "prompt" /\ fault = "none" /\ current_task = Shell
      /\ p \notin {IDLE_PID, INIT_PID} /\ t # Null
      /\ task' = [task EXCEPT ![t].state = S_TERMINAL, ![t].mm = mm]
      /\ list' = add_tail(remove_sched(list, t), EXITED, t)
      /\ pidmap' \in {pidmap, pidmap \ {p}}
      /\ UNCHANGED <<tasks, before, current_task, asid, at, newpid, byte, new, fault,
                     next_pid>>
  BY DEF Kill, Command, ShellAt, pid_free, shVars
<1>2. t \in tasks /\ t \in Task /\ task[t].pid = p
  BY <1>1, FirstTaskProperties DEF IInv, find_in_tasks
<1> HIDE DEF t
<1>3. t \in Child /\ t # Idle /\ t # Shell
  BY <1>1, <1>2 DEF IInv, Foreground, Task
<1>4. mm \in Mms
  BY DEF mm_delete, Mms
<1> HIDE DEF mm
<1>5. /\ task' \in [Task -> TaskStruct]
      /\ task'[t].state = S_TERMINAL /\ task'[t].pid = task[t].pid
      /\ \A u \in Task : u # t => task'[u] = task[u]
  <2>1. task \in [Task -> TaskStruct] /\ task[t] \in TaskStruct
    BY <1>2 DEF IInv, TypeOK
  <2>2. task' = [task EXCEPT ![t].state = S_TERMINAL, ![t].mm = mm]
    BY <1>1
  <2> DEFINE x == S_TERMINAL
             r == [task[t] EXCEPT !.state = x, !.mm = mm]
  <2>3. x \in Int
    OBVIOUS
  <2> HIDE DEF x
  <2>3a. task' = [task EXCEPT ![t].state = x, ![t].mm = mm]
    BY <2>2 DEF x
  <2>3b. task' = [task EXCEPT ![t] = r]
    BY <2>1, <2>3a
  <2>4. r \in TaskStruct /\ r.state = x /\ r.pid = task[t].pid
    BY <1>4, <2>1, <2>3 DEF TaskStruct
  <2> HIDE DEF r
  <2>5. /\ task' \in [Task -> TaskStruct]
        /\ task'[t] = r /\ \A u \in Task : u # t => task'[u] = task[u]
    BY <1>2, <2>1, <2>3b, <2>4
  <2> QED BY <2>4, <2>5 DEF x
<1>6. new = Null
  BY <1>1 DEF IInv, ShellControl
<1>7. list' \in Lists /\ WellLinked(list') /\ Moved(list, list', t, EXITED)
  <2>1. list \in Lists /\ WellLinked(list)
    BY DEF IInv, TypeOK, Lists, ListsMatchStates
  <2> QED BY <1>1, <1>2, <2>1, ListIndexes, MoveProperties
<1>8. TypeOK'
  BY <1>1, <1>5, <1>7 DEF IInv, TypeOK, PidTypeOK, Lists
<1>9. ListsMatchStates'
  <2>1. ASSUME NEW u \in Task PROVE Placed(list', task', tasks, new, u)
    <3>1. Placed(list, task, tasks, new, u)
      BY PlacedEverywhere DEF IInv
    <3>2. CASE u = t
      BY <1>2, <1>5, <1>7, <3>2, ListIndexes DEF Placed, Moved
    <3>3. CASE u # t
      <4>1. \A q \in List : u \in Range(list'[q]) <=> u \in Range(list[q])
        BY <1>7, <3>3 DEF Moved
      <4>2. task[u].sched_lv \in List
        BY ListIndexes DEF IInv, TypeOK, TaskStruct
      <4> QED BY <1>5, <3>1, <3>3, <4>1, <4>2, ListIndexes DEF Placed
    <3> QED BY <3>2, <3>3
  <2> QED BY <1>1, <1>7, <2>1 DEF ListsMatchStates, Placed, On
<1>10. list'[SCHED_LV0] = list[SCHED_LV0] /\ list'[WAIT] = list[WAIT]
  <2>1. t \notin Range(list[SCHED_LV0]) /\ t \notin Range(list[WAIT])
    BY <1>2, <1>3 DEF IInv, Foreground, Range
  <2> QED BY <1>7, <2>1, ListIndexes DEF Moved, Without
<1>11. Foreground'
  BY <1>1, <1>2, <1>3, <1>5, <1>10, PcAssumption DEF IInv, Foreground, Task
<1>12. TasksOrdered'
  BY <1>1 DEF IInv, TasksOrdered
<1>13. ShellControl'
  BY <1>1, <1>3, <1>5, <1>6, PcAssumption DEF IInv, ShellControl, Creating, Task
<1>14. CurrentRunnable' /\ AsidOfCurrent'
  <2>1. Shell \in Task /\ SCHED_LV0 \in List /\ task[Shell].sched_lv = SCHED_LV0
    BY ListIndexes DEF Task, IInv, Foreground
  <2> QED BY <1>1, <1>3, <1>5, <1>10, <2>1 DEF IInv, CurrentRunnable, AsidOfCurrent, On
<1>15. SliceBounds'
  <2> SUFFICES ASSUME NEW u \in Child, NEW q \in SCHED_LV_MIN .. SCHED_LV_MAX,
                      u \in Range(list'[q])
               PROVE  task'[u].time_cnt \in 1 .. sched_time_cnt(q)
    BY DEF SliceBounds, On
  <2>1. q \in List /\ q # EXITED /\ u \in Task
    BY ListIndexes DEF Task
  <2>2. u # t /\ u \in Range(list[q])
    BY <1>7, <2>1 DEF Moved
  <2> QED BY <1>5, <2>1, <2>2 DEF IInv, SliceBounds, On
<1> QED BY <1>1, <1>8, <1>9, <1>11, <1>12, <1>13, <1>14, <1>15 DEF IInv, ExitedAreTerminal

\* A list with the one node x.
LEMMA OneNode ==
    ASSUME NEW s \in Seq(Task), IsInjective(s), NEW x, Range(s) = {x}
    PROVE  s = <<x>>
<1>1. DOMAIN s = 1 .. Len(s) /\ Len(s) \in Nat
  BY LenProperties
<1>2. \A i \in 1 .. Len(s) : s[i] = x
  BY <1>1 DEF Range
<1>3. \A i, j \in 1 .. Len(s) : i = j
  BY <1>1, <1>2 DEF IsInjective
<1>4. Len(s) # 0
  BY <1>1 DEF Range
<1>5. Len(s) = 1
  <2>1. 1 \in 1 .. Len(s) /\ Len(s) \in 1 .. Len(s)
    BY <1>1, <1>4
  <2> QED BY <1>3, <2>1
<1> QED BY <1>2, <1>5

\* A list with no node.
LEMMA NoNode ==
    ASSUME NEW s \in Seq(Task), Range(s) = {}
    PROVE  s = << >>
<1>1. DOMAIN s = 1 .. Len(s) /\ Len(s) \in Nat
  BY LenProperties
<1>2. Len(s) = 0
  <2>1. ASSUME Len(s) # 0 PROVE FALSE
    <3>1. 1 \in DOMAIN s
      BY <1>1, <2>1
    <3> QED BY <3>1 DEF Range
  <2> QED BY <2>1
<1> QED BY <1>2, EmptySeq

\* A task that did not have the CPU is where it was after a turn.
LEMMA TurnOthers ==
    ASSUME NEW ls \in Lists, NEW tk \in [Task -> TaskStruct],
           NEW m, NEW ck, Turned(ls, tk, m, ck),
           NEW t \in Task, t # current_task
    PROVE  /\ ck[t] = tk[t]
           /\ \A q \in List : t \in Range(m[q]) <=> t \in Range(ls[q])
           /\ \A ts, nw : Placed(ls, tk, ts, nw, t) => Placed(m, ck, ts, nw, t)
<1>1. ck[t] = tk[t]
  BY DEF Turned
<1>2. \A q \in List : t \in Range(m[q]) <=> t \in Range(ls[q])
  BY DEF Turned
<1>3. tk[t].sched_lv \in List
  BY ListIndexes DEF TaskStruct
<1>4. ASSUME NEW ts, NEW nw, Placed(ls, tk, ts, nw, t)
      PROVE  Placed(m, ck, ts, nw, t)
  BY <1>1, <1>2, <1>3, <1>4, ListIndexes DEF Placed
<1> QED BY <1>1, <1>2, <1>4

\* A ready task that had the CPU is on the run queue of its level afterwards.
LEMMA TurnCurrent ==
    ASSUME NEW ls \in Lists, NEW tk \in [Task -> TaskStruct],
           NEW m, NEW ck \in [Task -> TaskStruct], Turned(ls, tk, m, ck),
           current_task \in Task, tk[current_task].state = S_READY,
           NEW ts, NEW nw, Placed(ls, tk, ts, nw, current_task)
    PROVE  Placed(m, ck, ts, nw, current_task)
<1> DEFINE c == current_task
<1>1. ck[c].state = S_READY /\ ck[c].sched_lv \in Level /\ ck[c].sched_lv \in List
  BY ListIndexes DEF Turned, TaskStruct
<1>2. c \in Range(m[ck[c].sched_lv])
  BY DEF Turned
<1>3. \A q \in List : q # ck[c].sched_lv => c \notin Range(m[q])
  BY DEF Turned
<1>4. c \in ts
  <2>1. c \in Range(ls[tk[c].sched_lv]) /\ tk[c].sched_lv \in List
    BY ListIndexes DEF Placed, TaskStruct
  <2> QED BY <2>1 DEF Placed
<1> QED BY <1>1, <1>2, <1>3, <1>4, ListIndexes DEF Placed

\* waitpid puts the shell to sleep and switches to another task.
LEMMA WaitSleepStep ==
    ASSUME IInv, WaitSleep
    PROVE  IInv'
<1> DEFINE tk == [task EXCEPT ![Shell].state = -newpid]
           next == NextTask(list, tk)
<1>1. /\ current_task = Shell /\ Shell \in Task /\ Idle \in Task /\ Idle # Shell
      /\ fault = "none" /\ at = "sleep"
      /\ task[Shell].state = S_READY /\ task[Shell].sched_lv = SCHED_LV0
      /\ list[SCHED_LV0] = <<Idle, Shell>> /\ list[WAIT] = << >>
      /\ newpid \in 0 .. PID_CAP /\ newpid # 0 /\ new = Null
  BY PcAssumption
     DEF WaitSleep, ShellAt, IInv, Foreground, ShellControl, Creating, Task, TypeOK
<1>2. /\ tk \in [Task -> TaskStruct] /\ tk[Shell].state < 0
      /\ tk[Shell].sched_lv = SCHED_LV0 /\ tk[Shell].pid = task[Shell].pid
      /\ \A t \in Task : t # Shell => tk[t] = task[t]
  <2> DEFINE x == -newpid
  <2>1. x \in Int /\ x < 0
    BY <1>1, PidAssumption
  <2> HIDE DEF x
  <2>2. task \in [Task -> TaskStruct] /\ task[Shell] \in TaskStruct
    BY <1>1 DEF IInv, TypeOK
  <2>3. tk = [task EXCEPT ![Shell].state = x]
    BY DEF x
  <2> HIDE DEF tk
  <2> QED BY <1>1, <2>1, <2>2, <2>3 DEF TaskStruct
<1> HIDE DEF tk
<1>3. ~Preemptive(tk)
  BY <1>1, <1>2, ListIndexes DEF Preemptive, SCHED_LV0, SCHED_LV_MIN
<1>4. /\ task' = tk
      /\ list' = add_tail(remove_sched(list, Shell), WAIT, Shell)
      /\ current_task' = next /\ asid' = tk[next].pid
      /\ at' = "prompt" /\ newpid' = 0
      /\ UNCHANGED <<tasks, before, byte, new, fault, pidmap, next_pid>>
  BY <1>1, <1>3 DEF WaitSleep, Requeued, Charged, tk, pidVars
<1> HIDE DEF next
<1>5. list \in Lists /\ WellLinked(list)
  BY DEF IInv, TypeOK, Lists, ListsMatchStates
<1>6. list' \in Lists /\ WellLinked(list') /\ Moved(list, list', Shell, WAIT)
  BY <1>1, <1>4, <1>5, ListIndexes, MoveProperties
<1>7. ASSUME NEW t \in Task, t # Shell, NEW q \in List
      PROVE  t \in Range(list'[q]) <=> t \in Range(list[q])
  BY <1>6, <1>7 DEF Moved
<1>8. list'[SCHED_LV0] = <<Idle>> /\ list'[WAIT] = <<Shell>>
  <2>1. Range(list[SCHED_LV0]) = {Idle, Shell} /\ Range(list[WAIT]) = {}
    BY <1>1 DEF Range
  <2>2. Range(list'[SCHED_LV0]) = {Idle} /\ Range(list'[WAIT]) = {Shell}
    <3>1. SCHED_LV0 \in List /\ SCHED_LV0 # WAIT
      BY ListIndexes
    <3>2. /\ Range(list'[SCHED_LV0]) = Range(list[SCHED_LV0]) \ {Shell}
          /\ Range(list'[WAIT]) = Range(list[WAIT]) \cup {Shell}
      BY <1>6, <3>1 DEF Moved
    <3> QED BY <1>1, <2>1, <3>2
  <2>3. /\ list'[SCHED_LV0] \in Seq(Task) /\ IsInjective(list'[SCHED_LV0])
        /\ list'[WAIT] \in Seq(Task) /\ IsInjective(list'[WAIT])
    BY <1>6, ListIndexes DEF Lists, WellLinked
  <2> QED BY <2>2, <2>3, OneNode
<1>9. Pickable(list, tk, next)
  <2>1. next = NextTask(list, tk)
    BY DEF next
  <2> QED BY <1>1, <1>2, <1>5, <2>1, NextTaskProperties
<1>10. next \in Task /\ next # Shell
  BY <1>1, <1>2, <1>9 DEF Pickable
<1>11. TypeOK'
  <2>1. tk[next].pid \in 0 .. PID_CAP
    BY <1>2, <1>10 DEF TaskStruct
  <2> QED BY <1>2, <1>4, <1>6, <1>10, <2>1, PidAssumption
          DEF IInv, TypeOK, PidTypeOK, Labels, Lists
<1>12. ASSUME NEW t \in Task PROVE Placed(list', task', tasks, new, t)
  <2>1. Placed(list, task, tasks, new, t) /\ task[t].sched_lv \in List
    BY PlacedEverywhere, ListIndexes DEF IInv, TypeOK, TaskStruct
  <2>2. CASE t = Shell
    <3>1. Shell \in Range(list'[WAIT]) /\ \A q \in List : q # WAIT => Shell \notin Range(list'[q])
      BY <1>6, ListIndexes DEF Moved
    <3>2. Shell \in tasks
      BY DEF IInv, Foreground
    <3> QED BY <1>2, <1>4, <2>2, <3>1, <3>2, ListIndexes DEF Placed
  <2>3. CASE t # Shell
    BY <1>2, <1>4, <1>7, <2>1, <2>3, ListIndexes DEF Placed
  <2> QED BY <2>2, <2>3
<1>13. ListsMatchStates'
  BY <1>4, <1>6, <1>12 DEF ListsMatchStates, Placed, On
<1>14. Foreground'
  BY <1>1, <1>2, <1>4, <1>8, PcAssumption DEF IInv, Foreground, Task
<1>15. TasksOrdered'
  BY <1>4 DEF IInv, TasksOrdered
<1>16. ShellControl'
  BY <1>1, <1>4 DEF IInv, ShellControl, Creating
<1>17. tk[next].state = S_READY
  BY <1>1, <1>2, <1>9, <1>10 DEF Pickable, IInv, Foreground
<1>18. CurrentRunnable' /\ AsidOfCurrent'
  BY <1>4, <1>10, <1>12, <1>17 DEF CurrentRunnable, AsidOfCurrent, Placed, On
<1>19. SliceBounds'
  <2> SUFFICES ASSUME NEW u \in Child, NEW q \in SCHED_LV_MIN .. SCHED_LV_MAX,
                      u \in Range(list'[q])
               PROVE  task'[u].time_cnt \in 1 .. sched_time_cnt(q)
    BY DEF SliceBounds, On
  <2>1. q \in List /\ u \in Task /\ u # Shell
    BY ListIndexes, PcAssumption DEF Task
  <2> QED BY <1>2, <1>4, <1>7, <2>1 DEF IInv, SliceBounds, On
<1> QED BY <1>1, <1>4, <1>11, <1>13, <1>14, <1>15, <1>16, <1>18, <1>19 DEF IInv, ExitedAreTerminal

\* The timer: exited tasks are cleared, the task on the CPU has had its turn,
\* the next one gets the CPU.
LEMMA TickStep ==
    ASSUME IInv, Tick
    PROVE  IInv'
<1> DEFINE c    == current_task
           dead == Range(list[EXITED])
           ls   == [list EXCEPT ![EXITED] = << >>]
           tk   == [t \in Task |-> IF t \in dead THEN NoTask ELSE task[t]]
           next == NextTask(Requeued(ls, tk), Charged(tk))
<1>1. /\ list' = Requeued(ls, tk) /\ task' = Charged(tk)
      /\ tasks' = tasks \ dead /\ before' = before \cap (tasks' \X tasks')
      /\ current_task' = next
      /\ asid' = IF next # c THEN Activated(tk, next) ELSE asid
      /\ fault' = IF \E t \in dead : task[t].state # S_TERMINAL THEN "exited"
                  ELSE IF next = c THEN "idle" ELSE "none"
      /\ UNCHANGED <<at, newpid, byte, new, pidmap, next_pid>>
  BY DEF Tick, shVars, pidVars
<1>2. /\ list \in Lists /\ WellLinked(list) /\ task \in [Task -> TaskStruct] /\ c \in Task
      /\ Idle \in Task /\ Shell \in Task /\ Idle # Shell /\ Child \subseteq Task
      /\ task[c].state = S_READY
  BY PcAssumption DEF IInv, TypeOK, Lists, ListsMatchStates, CurrentRunnable, Task
<1>3. /\ dead \subseteq Task
      /\ \A t \in Task : t \in dead <=> task[t].state = S_TERMINAL
  <2>1. \A t \in Task : t \in dead <=> task[t].state = S_TERMINAL
    BY DEF IInv, ListsMatchStates, On
  <2>2. list[EXITED] \in Seq(Task)
    BY <1>2, ListIndexes DEF Lists
  <2>3. dead \subseteq Task
    BY <2>2, RangeOfSeq DEF Range
  <2> QED BY <2>1, <2>3
<1> HIDE DEF dead
<1>4. c \notin dead /\ Idle \notin dead /\ Shell \notin dead /\ new \notin dead
  BY <1>2, <1>3, PcAssumption DEF IInv, Foreground, ShellControl
<1>5. /\ ls \in Lists /\ WellLinked(ls)
      /\ \A q \in List : q # EXITED => ls[q] = list[q]
      /\ Range(ls[EXITED]) = {} /\ Range(ls[EXITED]) \subseteq Range(list[EXITED])
  <2>1. << >> \in Seq(Task) /\ Range(<< >>) = {} /\ IsInjective(<< >>)
    BY DEF Range, IsInjective
  <2>2. /\ ls \in Lists /\ ls[EXITED] = << >>
        /\ \A q \in List : q # EXITED => ls[q] = list[q]
    BY <1>2, <2>1, ListIndexes DEF Lists
  <2> HIDE DEF ls
  <2>3. \A q \in List : IsInjective(ls[q])
    BY <1>2, <2>1, <2>2 DEF WellLinked
  <2>4. \A q, r \in List : q # r => Range(ls[q]) \cap Range(ls[r]) = {}
    BY <1>2, <2>1, <2>2 DEF WellLinked
  <2> QED BY <2>1, <2>2, <2>3, <2>4 DEF WellLinked
<1> HIDE DEF ls
<1>6. /\ tk \in [Task -> TaskStruct]
      /\ \A t \in Task : t \notin dead => tk[t] = task[t]
      /\ \A t \in Task : t \in dead => tk[t].state = S_UNINIT
  <2>1. NoTask \in TaskStruct /\ NoTask.state = S_UNINIT
    BY NoTaskStruct
  <2> QED BY <1>2, <2>1
<1> HIDE DEF tk
<1>7. ASSUME NEW t \in Task PROVE Placed(ls, tk, tasks \ dead, new, t)
  <2>1. Placed(list, task, tasks, new, t) /\ task[t].sched_lv \in List
    BY <1>2, PlacedEverywhere, ListIndexes DEF IInv, TaskStruct
  <2>2. CASE t \in dead
    <3>1. \A q \in List : q # EXITED => t \notin Range(list[q])
      BY <1>2, <2>2, ListIndexes DEF WellLinked, dead
    <3>2. \A q \in List : t \notin Range(ls[q])
      BY <1>5, <3>1
    <3> QED BY <1>4, <1>6, <2>2, <3>2, ListIndexes DEF Placed
  <2>3. CASE t \notin dead
    <3>1. \A q \in List : t \in Range(ls[q]) <=> t \in Range(list[q])
      BY <1>5, <2>3 DEF dead
    <3> QED BY <1>6, <2>1, <2>3, <3>1, ListIndexes DEF Placed
  <2> QED BY <2>2, <2>3
<1>8. /\ tk[c].state = S_READY /\ tk[c].sched_lv \in List
      /\ c \in Range(ls[tk[c].sched_lv])
  BY <1>2, <1>4, <1>6, <1>7, ListIndexes DEF Placed, TaskStruct
<1>9. /\ c \in Child \/ tk[c].sched_lv = SCHED_LV0
      /\ tk[c].sched_lv \in SCHED_LV_MIN .. SCHED_LV_MAX
            => tk[c].time_cnt \in 1 .. sched_time_cnt(tk[c].sched_lv)
  <2>1. c \in Child \/ task[c].sched_lv = SCHED_LV0
    BY <1>2 DEF IInv, Foreground, Task
  <2>2. c \in Range(list[task[c].sched_lv])
    BY DEF IInv, CurrentRunnable, On
  <2> QED BY <1>2, <1>4, <1>6, <2>1, <2>2, ListIndexes DEF IInv, SliceBounds, On
<1>10. /\ list' \in Lists /\ WellLinked(list')
       /\ task' \in [Task -> TaskStruct]
       /\ Turned(ls, tk, list', task')
  BY <1>1, <1>2, <1>5, <1>6, <1>8, <1>9, RequeueProperties
<1>11. ASSUME NEW t \in Task PROVE Placed(list', task', tasks', new', t)
  <2>1. Placed(ls, tk, tasks', new', t)
    BY <1>1, <1>7
  <2>2. CASE t = c
    BY <1>2, <1>5, <1>6, <1>8, <1>10, <2>1, <2>2, TurnCurrent
  <2>3. CASE t # c
    BY <1>5, <1>6, <1>10, <2>1, <2>3, TurnOthers
  <2> QED BY <2>2, <2>3
<1>12. ListsMatchStates'
  BY <1>10, <1>11 DEF ListsMatchStates, Placed, On
<1>13. \A t \in Task : task'[t].state = tk[t].state /\ task'[t].pid = tk[t].pid
                       /\ task'[t].mm = tk[t].mm
  BY <1>10 DEF Turned
<1>14. /\ list'[SCHED_LV0] = list[SCHED_LV0] /\ list'[WAIT] = list[WAIT]
       /\ task'[Idle] = task[Idle] /\ task'[Shell] = task[Shell]
  <2>1. list'[SCHED_LV0] = ls[SCHED_LV0] /\ list'[WAIT] = ls[WAIT]
    BY <1>10 DEF Turned
  <2>2. tk[Idle] = task[Idle] /\ tk[Shell] = task[Shell]
    BY <1>2, <1>4, <1>6
  <2>3. task[Idle].sched_lv = SCHED_LV0 /\ task[Shell].sched_lv = SCHED_LV0
    BY DEF IInv, Foreground
  <2> QED BY <1>2, <1>5, <1>10, <2>1, <2>2, <2>3, ListIndexes DEF Turned
<1>15. Foreground'
  <2>1. \A t \in Child : t \in tasks' => t \notin dead /\ t \in tasks
    BY <1>1
  <2>2. \A t \in Child : t \notin tasks' => t \in dead \/ t \notin tasks
    BY <1>1
  <2>3. {Idle, Shell} \subseteq tasks'
    BY <1>1, <1>4 DEF IInv, Foreground
  <2>4. ASSUME NEW t \in Child
        PROVE  /\ task'[t].state \in {S_UNINIT, S_READY, S_TERMINAL}
               /\ t \in tasks' => task'[t].pid \notin {IDLE_PID, INIT_PID}
               /\ t \in tasks' /\ task'[t].state = S_UNINIT => t = new'
               /\ t \notin tasks' => task'[t].state = S_UNINIT
    BY <1>1, <1>2, <1>6, <1>13, <2>1, <2>2 DEF IInv, Foreground
  <2> QED BY <1>14, <2>3, <2>4 DEF IInv, Foreground
<1>16. TasksOrdered'
  <2> SUFFICES ASSUME NEW S \in SUBSET tasks', S # {}
               PROVE  \E t \in S : \A u \in S : u # t => <<t, u>> \in before'
    BY DEF TasksOrdered
  <2>1. PICK t \in S : \A u \in S : u # t => <<t, u>> \in before
    BY <1>1 DEF IInv, TasksOrdered
  <2> QED BY <1>1, <2>1
<1>17. ShellControl'
  <2>1. ASSUME at \in {"sched", "ready"}
        PROVE  /\ new \in Child \cap tasks' /\ task'[new].state = S_UNINIT
               /\ \A q \in List : new \in Range(list'[q]) <=> new \in Range(list[q])
    <3>1. new \in Child \cap tasks /\ task[new].state = S_UNINIT /\ new # c
      BY <1>2, <2>1 DEF IInv, ShellControl
    <3>2. \A q \in List : new \in Range(list'[q]) <=> new \in Range(ls[q])
      BY <1>2, <1>5, <1>6, <1>10, <3>1, TurnOthers
    <3>3. \A q \in List : new \in Range(ls[q]) <=> new \in Range(list[q])
      BY <1>4, <1>5 DEF dead
    <3> QED BY <1>1, <1>2, <1>4, <1>6, <1>13, <3>1, <3>2, <3>3
  <2> QED BY <1>1, <1>14, <2>1, ListIndexes DEF IInv, ShellControl, Creating, On
<1>18. Pickable(list', task', next)
  <2>1. next = NextTask(list', task')
    BY <1>1
  <2>2. task'[c].sched_lv = SCHED_LV0 => c \in {Idle, Shell}
    BY <1>2, <1>9, <1>10, <1>11, <1>13, <1>14, <1>8
       DEF IInv, Foreground, Placed, Range
  <2>3. list[SCHED_LV0] = <<Idle>> \/ list[SCHED_LV0] = <<Idle, Shell>>
    BY DEF IInv, Foreground
  <2>4. c = Shell => list[SCHED_LV0] = <<Idle, Shell>>
    BY <1>2 DEF IInv, Foreground
  <2> HIDE DEF next
  <2> QED BY <1>2, <1>10, <1>14, <2>1, <2>2, <2>3, <2>4, NextTaskProperties
<1> HIDE DEF next
<1>19. /\ next \in Task
       /\ task'[next].state = S_READY
  <2>1. list[SCHED_LV0] = <<Idle, Shell>> => task[Shell].state = S_READY
    <3>1. Len(<<Idle>>) = 1 /\ Len(<<Idle, Shell>>) = 2
      OBVIOUS
    <3>2. <<Idle>> # <<Idle, Shell>>
      BY <3>1
    <3>3. /\ task[Shell].state < 0 => list[SCHED_LV0] = <<Idle>>
          /\ task[Shell].state = S_READY \/ task[Shell].state < 0
      BY DEF IInv, Foreground
    <3> QED BY <3>2, <3>3
  <2> QED BY <1>2, <1>14, <1>18, <2>1 DEF Pickable, IInv, Foreground
<1>20. CurrentRunnable'
  BY <1>1, <1>11, <1>19 DEF CurrentRunnable, Placed, On
<1>21. AsidOfCurrent'
  BY <1>1, <1>2, <1>4, <1>6, <1>13, <1>19 DEF IInv, AsidOfCurrent, Activated
<1>22. SliceBounds'
  <2> SUFFICES ASSUME NEW u \in Child, NEW q \in SCHED_LV_MIN .. SCHED_LV_MAX,
                      u \in Range(list'[q])
               PROVE  task'[u].time_cnt \in 1 .. sched_time_cnt(q)
    BY DEF SliceBounds, On
  <2>1. q \in List /\ q # EXITED /\ u \in Task /\ task'[u].sched_lv = q
    BY <1>2, <1>11, ListIndexes DEF Placed
  <2>2. CASE u = c
    BY <1>10, <2>1, <2>2 DEF Turned
  <2>3. CASE u # c
    <3>1. task'[u] = tk[u] /\ u \in Range(ls[q])
      BY <1>5, <1>6, <1>10, <2>1, <2>3, TurnOthers
    <3>2. u \in Range(list[q]) /\ u \notin dead
      BY <1>2, <1>5, <2>1, <3>1, ListIndexes DEF WellLinked, dead
    <3> QED BY <1>6, <2>1, <3>1, <3>2 DEF IInv, SliceBounds, On
  <2> QED BY <2>2, <2>3
<1>23. TypeOK'
  <2>1. Activated(tk, next) \in 0 .. PID_CAP
    BY <1>6, <1>19 DEF Activated, TaskStruct, IInv, TypeOK
  <2>2. tasks' \subseteq Task /\ before' \subseteq Task \X Task
    BY <1>1 DEF IInv, TypeOK
  <2> QED BY <1>1, <1>10, <1>19, <2>1, <2>2 DEF IInv, TypeOK, PidTypeOK, Lists, Faults
<1>24. ExitedAreTerminal'
  BY <1>1, <1>3 DEF ExitedAreTerminal
<1> QED BY <1>12, <1>15, <1>16, <1>17, <1>20, <1>21, <1>22, <1>23, <1>24 DEF IInv

\* ls and tk are the lists and the structures after wakeup_parent, when the
\* exiting task is terminal but still on its run queue.
Wakes(ls, tk) ==
    LET c == current_task
        sleeps == tk[Shell].state < 0
    IN  /\ tk[c].state = S_TERMINAL
        /\ tk[c].sched_lv = task[c].sched_lv /\ tk[c].time_cnt = task[c].time_cnt
        /\ \A t \in Task : tk[t].pid = task[t].pid /\ tk[t].mm = task[t].mm
        /\ \A t \in Task \ {c, Shell} : tk[t] = task[t]
        /\ tk[Shell].sched_lv = SCHED_LV0
        /\ sleeps \/ tk[Shell].state = S_READY
        /\ sleeps => task[Shell].state < 0
        /\ ls[SCHED_LV0] = IF sleeps THEN <<Idle>> ELSE <<Idle, Shell>>
        /\ ls[WAIT] = IF sleeps THEN <<Shell>> ELSE << >>
        /\ \A q \in List : /\ Shell \in Range(ls[q]) <=> q = IF sleeps THEN WAIT ELSE SCHED_LV0
                           /\ \A t \in Task \ {Shell} : t \in Range(ls[q]) <=> t \in Range(list[q])

\* wakeup_parent can wake no one but the shell.
LEMMA WakesProperties ==
    ASSUME IInv, current_task \in Child,
           NEW w, w = Waiter,
           NEW tk, tk = WokenTasks(w),
           NEW ls, ls = WokenList(w)
    PROVE  ls \in Lists /\ WellLinked(ls) /\ tk \in [Task -> TaskStruct] /\ Wakes(ls, tk)
<1> DEFINE c == current_task
           dying == [task EXCEPT ![current_task].state = S_TERMINAL]
<1>0. tk = IF w = Null THEN dying ELSE [dying EXCEPT ![w].state = S_READY]
  BY DEF WokenTasks
<1>1. /\ list \in Lists /\ WellLinked(list) /\ task \in [Task -> TaskStruct]
      /\ c \in Task /\ Shell \in Task /\ Idle \in Task /\ c # Shell /\ c # Idle /\ Idle # Shell
      /\ task[Shell].sched_lv = SCHED_LV0
      /\ Shell # Null /\ Null \notin Task
  BY PcAssumption DEF IInv, TypeOK, Lists, ListsMatchStates, Foreground, Task
<1>2. /\ dying \in [Task -> TaskStruct]
      /\ dying[c].state = S_TERMINAL /\ dying[c].sched_lv = task[c].sched_lv
      /\ dying[c].time_cnt = task[c].time_cnt
      /\ dying[c].pid = task[c].pid /\ dying[c].mm = task[c].mm
      /\ \A t \in Task : t # c => dying[t] = task[t]
  <2> DEFINE x == S_TERMINAL
  <2>1. x \in Int
    OBVIOUS
  <2> HIDE DEF x
  <2>2. dying = [task EXCEPT ![c].state = x]
    BY DEF x
  <2>3. /\ dying \in [Task -> TaskStruct]
        /\ dying[c].state = x /\ dying[c].sched_lv = task[c].sched_lv
        /\ dying[c].time_cnt = task[c].time_cnt
        /\ dying[c].pid = task[c].pid /\ dying[c].mm = task[c].mm
        /\ \A t \in Task : t # c => dying[t] = task[t]
    BY <1>1, <2>1, <2>2 DEF TaskStruct
  <2> QED BY <2>3 DEF x
<1> HIDE DEF dying
<1>3. \A q \in List : Shell \in Range(list[q])
                        <=> q = IF task[Shell].state < 0 THEN WAIT ELSE SCHED_LV0
  <2>1. Shell \in Range(list[IF task[Shell].state < 0 THEN WAIT ELSE SCHED_LV0])
    BY DEF IInv, Foreground, Range
  <2> QED BY <1>1, <2>1, ListIndexes DEF WellLinked
<1>4. CASE w = Null
  <2>1. tk = dying /\ ls = list
    BY <1>0, <1>4 DEF WokenList
  <2>2. tk[Shell] = task[Shell]
    BY <1>1, <1>2, <2>1
  <2> QED BY <1>1, <1>2, <1>3, <2>1, <2>2 DEF IInv, Foreground, Wakes
<1>5. CASE w # Null
  <2> DEFINE W == { t \in Task : /\ task[t].pid = task[current_task].parent
                                 /\ task[t].state = -task[current_task].pid }
  <2>1. list[WAIT] \in Seq(Task)
    BY <1>1, ListIndexes DEF Lists
  <2>2. w = First(list[WAIT], W)
    BY DEF Waiter
  <2> HIDE DEF W
  <2>3. w \in Range(list[WAIT])
    BY <1>5, <2>1, <2>2, FirstProperties
  <2>4. w = Shell /\ task[Shell].state < 0 /\ list[SCHED_LV0] = <<Idle>>
        /\ list[WAIT] = <<Shell>>
    <3>1. /\ task[Shell].state < 0 => list[SCHED_LV0] = <<Idle>> /\ list[WAIT] = <<Shell>>
          /\ ~(task[Shell].state < 0) => list[WAIT] = << >>
      BY DEF IInv, Foreground
    <3>2. Range(<< >>) = {} /\ Range(<<Shell>>) = {Shell}
      BY DEF Range
    <3>3. task[Shell].state < 0
      BY <2>3, <3>1, <3>2
    <3> QED BY <2>3, <3>1, <3>2, <3>3
  <2>5. ls = add_tail(remove_sched(list, Shell), SCHED_LV0, Shell)
    BY <1>1, <1>5, <2>4 DEF WokenList
  <2>6. ls \in Lists /\ WellLinked(ls) /\ Moved(list, ls, Shell, SCHED_LV0)
    BY <1>1, <2>5, ListIndexes, MoveProperties
  <2>7. ls[SCHED_LV0] = <<Idle, Shell>>
    <3>1. Shell \notin Range(<<Idle>>)
      BY <1>1 DEF Range
    <3>2. remove_sched(list, Shell)[SCHED_LV0] = <<Idle>>
      BY <2>4, <3>1, ListIndexes DEF remove_sched, Without
    <3>3. remove_sched(list, Shell) = [q \in List |-> Without(list[q], Shell)]
      BY DEF remove_sched
    <3>4. ls[SCHED_LV0] = Append(<<Idle>>, Shell)
      BY <2>5, <3>2, <3>3, ListIndexes DEF add_tail
    <3>5. Append(<<Idle>>, Shell) = <<Idle, Shell>>
      <4>1. <<Idle>> \in Seq(Task) /\ <<Idle, Shell>> \in Seq(Task)
        BY <1>1
      <4>2. /\ Append(<<Idle>>, Shell) \in Seq(Task)
            /\ Len(Append(<<Idle>>, Shell)) = 2
            /\ Append(<<Idle>>, Shell)[1] = Idle /\ Append(<<Idle>>, Shell)[2] = Shell
        BY <1>1, <4>1, AppendProperties
      <4> DEFINE a == Append(<<Idle>>, Shell)
                 b == <<Idle, Shell>>
      <4>3. Len(b) = 2 /\ b[1] = Idle /\ b[2] = Shell
        OBVIOUS
      <4>4. /\ a \in Seq(Task) /\ b \in Seq(Task) /\ Len(a) = Len(b)
            /\ \A i \in 1 .. 2 : a[i] = b[i]
        BY <4>1, <4>2, <4>3
      <4> HIDE DEF a, b
      <4>5. a = b
        BY <4>3, <4>4, SeqEqual
      <4> QED BY <4>5 DEF a, b
    <3> QED BY <3>4, <3>5
  <2>8. ls[WAIT] = << >>
    <3>1. Range(ls[WAIT]) = {}
      <4>1. Range(list[WAIT]) = {Shell}
        BY <2>4 DEF Range
      <4> QED BY <2>6, <4>1, ListIndexes DEF Moved
    <3>2. ls[WAIT] \in Seq(Task)
      BY <2>6, ListIndexes DEF Lists
    <3> QED BY <3>1, <3>2, NoNode
  <2>9. /\ tk \in [Task -> TaskStruct] /\ tk[Shell].state = S_READY
        /\ tk[Shell].sched_lv = task[Shell].sched_lv
        /\ tk[Shell].pid = task[Shell].pid /\ tk[Shell].mm = task[Shell].mm
        /\ \A t \in Task : t # Shell => tk[t] = dying[t]
    <3> DEFINE x == S_READY
    <3>1. x \in Int
      OBVIOUS
    <3> HIDE DEF x
    <3>2. tk = [dying EXCEPT ![Shell].state = x] /\ dying[Shell] = task[Shell]
      BY <1>0, <1>1, <1>2, <1>5, <2>4 DEF x
    <3>3. /\ tk \in [Task -> TaskStruct] /\ tk[Shell].state = x
          /\ tk[Shell].sched_lv = task[Shell].sched_lv
          /\ tk[Shell].pid = task[Shell].pid /\ tk[Shell].mm = task[Shell].mm
          /\ \A t \in Task : t # Shell => tk[t] = dying[t]
      <4> DEFINE r == [task[Shell] EXCEPT !.state = x]
      <4>1. task[Shell] \in TaskStruct
        BY <1>1
      <4>2. /\ r \in TaskStruct /\ r.state = x /\ r.sched_lv = task[Shell].sched_lv
            /\ r.pid = task[Shell].pid /\ r.mm = task[Shell].mm
        BY <3>1, <4>1 DEF TaskStruct
      <4>3. tk = [dying EXCEPT ![Shell] = r]
        BY <1>1, <1>2, <3>2
      <4> HIDE DEF r
      <4>4. dying \in [Task -> TaskStruct] /\ Shell \in Task
        BY <1>1, <1>2
      <4>5. tk \in [Task -> TaskStruct] /\ tk[Shell] = r
        BY <4>2, <4>3, <4>4
      <4>6. \A t \in Task : t # Shell => tk[t] = dying[t]
        BY <4>3, <4>4
      <4> QED BY <4>2, <4>5, <4>6
    <3> QED BY <3>3 DEF x
  <2>10. \A q \in List : Shell \in Range(ls[q]) <=> q = SCHED_LV0
    BY <2>6, ListIndexes DEF Moved
  <2>11. \A q \in List, t \in Task \ {Shell} : t \in Range(ls[q]) <=> t \in Range(list[q])
    BY <2>6 DEF Moved
  <2>12. \A t \in Task : tk[t].pid = task[t].pid /\ tk[t].mm = task[t].mm
    BY <1>1, <1>2, <2>9
  <2>13. tk[c] = dying[c] /\ \A t \in Task \ {c, Shell} : tk[t] = task[t]
    BY <1>1, <1>2, <2>9
  <2>14. ~(tk[Shell].state < 0)
    BY <2>9
  <2> QED BY <1>1, <1>2, <2>6, <2>7, <2>8, <2>9, <2>10, <2>11, <2>12, <2>13, <2>14
          DEF Wakes
<1> QED BY <1>4, <1>5

\* pc_exit: the task is terminal, its parent perhaps woken, the CPU given up.
LEMMA ExitStep ==
    ASSUME IInv, Exit
    PROVE  IInv'
<1> DEFINE c     == current_task
           w     == Waiter
           tk    == WokenTasks(w)
           ls    == WokenList(w)
           m     == Requeued(ls, tk)
           next  == NextTask(m, Charged(tk))
<1>1. /\ c \in Child /\ fault = "none"
      /\ task' = Charged(tk)
      /\ list' = add_tail(remove_sched(m, c), EXITED, c)
      /\ current_task' = next /\ asid' = Activated(tk, next)
      /\ pidmap' \in {pidmap, pidmap \ {task[c].pid}}
      /\ UNCHANGED <<tasks, before, at, newpid, byte, new, fault, next_pid>>
  BY DEF Exit, ChildRuns, pid_free, shVars
<1>2. ls \in Lists /\ WellLinked(ls) /\ tk \in [Task -> TaskStruct] /\ Wakes(ls, tk)
  BY <1>1, WakesProperties
<1>3. m = Requeued(ls, tk) /\ next = NextTask(m, task')
  BY <1>1
<1> HIDE DEF w, tk, ls, m, next
<1>4. /\ list \in Lists /\ WellLinked(list) /\ task \in [Task -> TaskStruct] /\ c \in Task
      /\ Idle \in Task /\ Shell \in Task /\ c # Idle /\ c # Shell /\ Idle # Shell
      /\ Child \subseteq Task /\ task[c].state = S_READY
      /\ task[c].sched_lv \in Level /\ task[c].sched_lv \in List
      /\ c \in Range(list[task[c].sched_lv])
      /\ c \in tasks
  <2>1. /\ list \in Lists /\ WellLinked(list) /\ task \in [Task -> TaskStruct] /\ c \in Task
        /\ Idle \in Task /\ Shell \in Task /\ c # Idle /\ c # Shell /\ Idle # Shell
        /\ Child \subseteq Task
    BY <1>1, PcAssumption DEF IInv, TypeOK, Lists, ListsMatchStates, Task
  <2>2. task[c].state = S_READY /\ c \in Range(list[task[c].sched_lv])
    BY DEF IInv, CurrentRunnable, On
  <2>3. task[c].sched_lv \in Level /\ task[c].sched_lv \in List
    BY <2>1, ListIndexes DEF TaskStruct
  <2>4. c \in tasks
    BY <2>1, <2>2, <2>3 DEF IInv, ListsMatchStates, On
  <2> QED BY <2>1, <2>2, <2>3, <2>4
<1>5. /\ m \in Lists /\ WellLinked(m) /\ task' \in [Task -> TaskStruct]
      /\ Turned(ls, tk, m, task')
  <2>1. tk[c].sched_lv = task[c].sched_lv /\ tk[c].time_cnt = task[c].time_cnt
    BY <1>2 DEF Wakes
  <2>2. c \in Range(ls[tk[c].sched_lv])
    BY <1>2, <1>4, <2>1 DEF Wakes
  <2>3. tk[c].sched_lv \in SCHED_LV_MIN .. SCHED_LV_MAX
           => tk[c].time_cnt \in 1 .. sched_time_cnt(tk[c].sched_lv)
    BY <1>1, <1>4, <2>1 DEF IInv, SliceBounds, On
  <2> QED BY <1>1, <1>2, <1>3, <1>4, <2>2, <2>3, RequeueProperties
<1>6. list' \in Lists /\ WellLinked(list') /\ Moved(m, list', c, EXITED)
  BY <1>1, <1>4, <1>5, ListIndexes, MoveProperties
<1>7. ASSUME NEW t \in Task, t # c, NEW q \in List
      PROVE  t \in Range(list'[q]) <=> t \in Range(ls[q])
  <2>1. t \in Range(list'[q]) <=> t \in Range(m[q])
    BY <1>6, <1>7 DEF Moved
  <2>2. t \in Range(m[q]) <=> t \in Range(ls[q])
    BY <1>2, <1>5, <1>7, TurnOthers
  <2> QED BY <2>1, <2>2
<1>8. /\ \A t \in Task : task'[t].state = tk[t].state /\ task'[t].pid = task[t].pid
                         /\ task'[t].mm = task[t].mm
      /\ \A t \in Task \ {c} : task'[t] = tk[t]
      /\ \A t \in Task \ {c, Shell} : task'[t] = task[t]
      /\ task'[c].state = S_TERMINAL
  BY <1>2, <1>4, <1>5 DEF Turned, Wakes
<1>9. /\ m[SCHED_LV0] = ls[SCHED_LV0] /\ m[WAIT] = ls[WAIT]
      /\ list'[SCHED_LV0] = ls[SCHED_LV0] /\ list'[WAIT] = ls[WAIT]
  <2>1. m[SCHED_LV0] = ls[SCHED_LV0] /\ m[WAIT] = ls[WAIT]
    BY <1>5 DEF Turned
  <2>2. c \notin Range(ls[SCHED_LV0]) /\ c \notin Range(ls[WAIT])
    BY <1>2, <1>4 DEF Wakes, Range
  <2> QED BY <1>6, <2>1, <2>2, ListIndexes DEF Moved, Without
<1>10. ASSUME NEW t \in Task PROVE Placed(list', task', tasks, new, t)
  <2>1. Placed(list, task, tasks, new, t) /\ task[t].sched_lv \in List
    BY <1>4, PlacedEverywhere, ListIndexes DEF IInv, TaskStruct
  <2>2. CASE t = c
    <3>1. c \in Range(list'[EXITED]) /\ \A q \in List : q # EXITED => c \notin Range(list'[q])
      BY <1>6, ListIndexes DEF Moved
    <3> QED BY <1>4, <1>8, <2>2, <3>1, ListIndexes DEF Placed
  <2>3. CASE t = Shell
    <3>1. \A q \in List : Shell \in Range(list'[q])
                            <=> q = IF tk[Shell].state < 0 THEN WAIT ELSE SCHED_LV0
      BY <1>2, <1>4, <1>7 DEF Wakes
    <3>2. Shell \in tasks
      BY DEF IInv, Foreground
    <3>3. /\ task'[Shell].sched_lv = SCHED_LV0
          /\ task'[Shell].state = tk[Shell].state
          /\ tk[Shell].state < 0 \/ tk[Shell].state = S_READY
      BY <1>2, <1>4, <1>8 DEF Wakes
    <3> QED BY <2>3, <3>1, <3>2, <3>3, ListIndexes DEF Placed
  <2>4. CASE t # c /\ t # Shell
    <3>1. \A q \in List : t \in Range(list'[q]) <=> t \in Range(list[q])
      BY <1>2, <1>7, <2>4 DEF Wakes
    <3> QED BY <1>8, <2>1, <2>4, <3>1, ListIndexes DEF Placed
  <2> QED BY <2>2, <2>3, <2>4
<1>11. ListsMatchStates'
  BY <1>1, <1>6, <1>10 DEF ListsMatchStates, Placed, On
<1>12. /\ task'[Idle] = task[Idle]
       /\ task'[Shell].state = tk[Shell].state /\ task'[Shell].pid = task[Shell].pid
       /\ task'[Shell].sched_lv = SCHED_LV0
       /\ tk[Shell].state < 0 \/ tk[Shell].state = S_READY
  BY <1>2, <1>4, <1>8 DEF Wakes
<1>13. Foreground'
  <2>1. ASSUME NEW t \in Child
        PROVE  /\ task'[t].state \in {S_UNINIT, S_READY, S_TERMINAL}
               /\ t \in tasks' => task'[t].pid \notin {IDLE_PID, INIT_PID}
               /\ t \in tasks' /\ task'[t].state = S_UNINIT => t = new'
               /\ t \notin tasks' => task'[t].state = S_UNINIT
    <3>1. t \in Task /\ t # Shell
      BY PcAssumption DEF Task
    <3>2. CASE t = c
      BY <1>1, <1>4, <1>8, <3>1, <3>2 DEF IInv, Foreground
    <3>3. CASE t # c
      BY <1>1, <1>8, <3>1, <3>3 DEF IInv, Foreground
    <3> QED BY <3>2, <3>3
  <2>2. /\ list'[SCHED_LV0] = IF task'[Shell].state < 0 THEN <<Idle>> ELSE <<Idle, Shell>>
        /\ list'[WAIT] = IF task'[Shell].state < 0 THEN <<Shell>> ELSE << >>
    BY <1>2, <1>9, <1>12 DEF Wakes
  <2> QED BY <1>1, <1>12, <2>1, <2>2 DEF IInv, Foreground
<1>14. TasksOrdered'
  BY <1>1 DEF IInv, TasksOrdered
<1>15. ShellControl'
  <2>1. task[Shell].state = S_READY => task'[Shell].state = S_READY
    BY <1>2, <1>12 DEF Wakes
  <2>2. task[c].pid \notin {IDLE_PID, INIT_PID}
    BY <1>1, <1>4 DEF IInv, Foreground
  <2>3. ASSUME at \in {"sched", "ready"}
        PROVE  /\ new \in Child \cap tasks /\ task'[new].state = S_UNINIT
               /\ \A q \in List : new \in Range(list'[q]) <=> new \in Range(list[q])
    <3>1. new \in Child \cap tasks /\ task[new].state = S_UNINIT /\ new \in Task
          /\ new # c /\ new # Shell
      BY <1>4, <2>3, PcAssumption DEF IInv, ShellControl
    <3>2. \A q \in List : new \in Range(list'[q]) <=> new \in Range(list[q])
      BY <1>2, <1>7, <3>1 DEF Wakes
    <3> QED BY <1>8, <3>1, <3>2
  <2> QED BY <1>1, <2>1, <2>2, <2>3, ListIndexes DEF IInv, ShellControl, Creating, On
<1>16. Pickable(m, task', next)
  <2>1. m[SCHED_LV0] = <<Idle>> \/ m[SCHED_LV0] = <<Idle, Shell>>
    BY <1>2, <1>9 DEF Wakes
  <2>2. task'[c].sched_lv # SCHED_LV0
    <3>1. task[c].sched_lv # SCHED_LV0
      <4>1. c \notin Range(list[SCHED_LV0])
        BY <1>4 DEF IInv, Foreground, Range
      <4> QED BY <1>4, <4>1
    <3> QED BY <1>2, <1>5, <3>1 DEF Wakes, Turned
  <2> QED BY <1>3, <1>4, <1>5, <2>1, <2>2, NextTaskProperties
<1>17. next \in Task /\ next # c /\ task'[next].state = S_READY
  <2>1. task'[Idle].state = S_READY
    BY <1>12 DEF IInv, Foreground
  <2> QED BY <1>4, <1>8, <1>16, <2>1 DEF Pickable
<1>18. CurrentRunnable'
  BY <1>1, <1>10, <1>17 DEF CurrentRunnable, Placed, On
<1>19. asid' = IF task'[next].mm # "null" THEN task'[next].pid ELSE asid
  BY <1>1, <1>2, <1>8, <1>17 DEF Activated, Wakes
<1>20. AsidOfCurrent'
  BY <1>1, <1>19 DEF AsidOfCurrent
<1>21. SliceBounds'
  <2> SUFFICES ASSUME NEW u \in Child, NEW q \in SCHED_LV_MIN .. SCHED_LV_MAX,
                      u \in Range(list'[q])
               PROVE  task'[u].time_cnt \in 1 .. sched_time_cnt(q)
    BY DEF SliceBounds, On
  <2>1. q \in List /\ q # EXITED /\ u \in Task /\ u # Shell
    BY <1>4, ListIndexes, PcAssumption DEF Task
  <2>2. u # c
    BY <1>6, <2>1 DEF Moved
  <2>3. u \in Range(list[q])
    BY <1>2, <1>7, <2>1, <2>2 DEF Wakes
  <2> QED BY <1>8, <2>1, <2>2, <2>3 DEF IInv, SliceBounds, On
<1>22. TypeOK'
  <2>1. task'[next].pid \in 0 .. PID_CAP
    BY <1>5, <1>17 DEF TaskStruct
  <2>2. asid' \in 0 .. PID_CAP
    BY <1>19, <2>1 DEF IInv, TypeOK
  <2> QED BY <1>1, <1>5, <1>6, <1>17, <2>2 DEF IInv, TypeOK, PidTypeOK, Lists
<1> QED BY <1>1, <1>11, <1>13, <1>14, <1>15, <1>18, <1>20, <1>21, <1>22 DEF IInv, ExitedAreTerminal

\* Every step keeps the inductive invariant.
LEMMA Inductive == IInv /\ [Next]_vars => IInv'
<1> SUFFICES ASSUME IInv, [Next]_vars PROVE IInv'
  OBVIOUS
<1>1. CASE UNCHANGED vars
  <2>1. /\ UNCHANGED <<list, tasks, before, task, current_task, asid, new>>
        /\ UNCHANGED <<at, newpid, byte, fault, pidmap, next_pid>>
    BY <1>1 DEF vars, shVars, pidVars
  <2>2. TypeOK'
    BY <2>1 DEF IInv, TypeOK, PidTypeOK
  <2>3. ShellControl' /\ ExitedAreTerminal'
    BY <2>1 DEF IInv, ShellControl, Creating, On, ExitedAreTerminal
  <2> QED BY <2>1, <2>2, <2>3, Untouched DEF IInv
<1>2. CASE CreateStep
  <2>1. CASE \E p \in 0 .. PID_CAP : PidAlloc(p)
    BY <2>1, PidAllocStep
  <2>2. CASE PidAllocFails
    BY <1>1, <2>2 DEF PidAllocFails
  <2>3. CASE PidAllocStore \/ KmallocFails \/ PidFreeStore \/ EnterSched
    BY <2>3, PidAllocStoreStep, KmallocFailsStep, PidFreeStoreStep, EnterSchedStep
  <2>4. CASE \E t \in Child, mm \in {"null", "live"} : FillTask(t, mm)
    BY <2>4, FillTaskStep
  <2>5. CASE \E is_wait \in BOOLEAN : SetReady(is_wait)
    BY <2>5, SetReadyStep
  <2> QED BY <1>2, <2>1, <2>2, <2>3, <2>4, <2>5 DEF CreateStep
<1>3. CASE Tick \/ WaitCheck \/ WaitSleep \/ ExitMm \/ Exit
  BY <1>3, TickStep, WaitCheckStep, WaitSleepStep, ExitMmStep, ExitStep
<1>4. CASE (\E p \in Pids : Kill(p)) \/ (\E p \in Pids : KillNull(p))
  BY <1>4, KillStep, KillNullStep
<1> QED BY <1>1, <1>2, <1>3, <1>4 DEF Next

--------------------------------------------------------------------------------
(* Theorems *)

\* The inductive invariant holds in every state of every execution.
THEOREM Invariant == Spec => []IInv
BY InitIInv, Inductive, PTL DEF Spec

\* Every variable keeps its type.
THEOREM TypeCorrect == Spec => []TypeOK
<1>1. IInv => TypeOK
  BY DEF IInv
<1> QED BY <1>1, Invariant, PTL

\* Every process is on exactly the list its state calls for, whatever ticks,
\* kills, exits and sleeps interleave.
THEOREM ListsCorrect == Spec => []ListsMatchStates
<1>1. IInv => ListsMatchStates
  BY DEF IInv
<1> QED BY <1>1, Invariant, PTL

\* The CPU never runs a task that is dead, asleep or half created.
THEOREM CurrentCorrect == Spec => []CurrentRunnable
<1>1. IInv => CurrentRunnable
  BY DEF IInv
<1> QED BY <1>1, Invariant, PTL

\* The slice counter of find_next_task never underflows.
THEOREM SlicesCorrect == Spec => []SliceBounds
<1>1. IInv => SliceBounds
  BY DEF IInv
<1> QED BY <1>1, Invariant, PTL

\* The TLB matches with the ASID of the task on the CPU.
THEOREM AsidCorrect == Spec => []AsidOfCurrent
<1>1. IInv => AsidOfCurrent
  BY DEF IInv
<1> QED BY <1>1, Invariant, PTL

\* clear_exited finds only terminal tasks to clear.
THEOREM ExitedCorrect == Spec => []ExitedAreTerminal
<1>1. IInv => ExitedAreTerminal
  BY DEF IInv
<1> QED BY <1>1, Invariant, PTL

\* pc_schedule picks the task that has the CPU only if that is idle and no other
\* task is ready.
LEMMA HaltStep ==
    ASSUME IInv, Tick, fault' = "idle", NEW t \in Task \ {Idle}
    PROVE  task'[t].state # S_READY
<1> DEFINE c == current_task
<1>1. IInv'
  BY TickStep
<1>2. current_task' = NextTask(list', task') /\ current_task' = c
  BY DEF Tick
<1>3. /\ list' \in Lists /\ task' \in [Task -> TaskStruct] /\ WellLinked(list')
      /\ \A u \in Task : Placed(list', task', tasks', new', u)
      /\ Foreground'
  BY <1>1 DEF IInv, TypeOK, ListsMatchStates, Lists, Placed, On
<1>4. /\ c \in Task /\ Idle \in Task /\ Shell \in Task /\ Idle # Shell
      /\ task'[c].state = S_READY /\ c \in Range(list'[task'[c].sched_lv])
  BY <1>1, <1>2, PcAssumption DEF IInv, TypeOK, CurrentRunnable, On, Task
<1>5. /\ Idle \in Range(list'[SCHED_LV0]) /\ Head(list'[SCHED_LV0]) = Idle
      /\ Range(list'[SCHED_LV0]) \subseteq {Idle, Shell}
      /\ task'[Idle].sched_lv = SCHED_LV0 /\ task'[Shell].sched_lv = SCHED_LV0
      /\ list'[SCHED_LV0] = IF task'[Shell].state < 0 THEN <<Idle>> ELSE <<Idle, Shell>>
  BY <1>3 DEF Foreground, Range
<1> SUFFICES ASSUME task'[t].state = S_READY PROVE FALSE
  OBVIOUS
<1> DEFINE back == find_in_sched_back(list', task')
<1>6. \A q \in SCHED_LV_MIN .. SCHED_LV_MAX :
        Idle \notin Range(list'[q]) /\ Shell \notin Range(list'[q])
  BY <1>3, <1>4, <1>5, ListIndexes DEF Placed
<1>7. back # Null => back # Idle /\ back # Shell
  BY <1>3, <1>6, BackProperties
<1>8. t # Shell => back # Null
  <2> SUFFICES ASSUME t # Shell PROVE back # Null
    OBVIOUS
  <2>1. t \in Task /\ task'[t].sched_lv \in Level /\ t \in Range(list'[task'[t].sched_lv])
    BY <1>3 DEF Placed, TaskStruct
  <2>2. task'[t].sched_lv \in SCHED_LV_MIN .. SCHED_LV_MAX
    BY <1>5, <2>1, ListIndexes
  <2> QED BY <1>3, <2>1, <2>2, BackProperties
<1> HIDE DEF back
<1>9. CASE task'[c].sched_lv # SCHED_LV0
  <2>1. current_task' = Idle
    BY <1>2, <1>5, <1>9 DEF NextTask
  <2> QED BY <1>2, <1>5, <1>9, <2>1
<1>10. CASE task'[c].sched_lv = SCHED_LV0
  <2>1. c \in {Idle, Shell}
    BY <1>4, <1>5, <1>10
  <2>2. CASE list'[SCHED_LV0] = <<Idle, Shell>> /\ c = Idle
    <3>1. Last(list'[SCHED_LV0]) = Shell
      BY <2>2 DEF Last
    <3>2. (CHOOSE i \in DOMAIN list'[SCHED_LV0] : list'[SCHED_LV0][i] = c) = 1
      BY <1>4, <2>2
    <3>3. NextTask(list', task') = list'[SCHED_LV0][1 + 1]
      BY <1>4, <1>10, <2>2, <3>1, <3>2 DEF NextTask
    <3>4. list'[SCHED_LV0][1 + 1] = Shell
      BY <2>2
    <3> QED BY <1>2, <1>4, <2>2, <3>3, <3>4
  <2>3. CASE ~(list'[SCHED_LV0] = <<Idle, Shell>> /\ c = Idle)
    <3>1. c = Last(list'[SCHED_LV0]) /\ (c = Shell \/ task'[Shell].state < 0)
      BY <1>4, <1>5, <1>10, <2>1, <2>3 DEF Last, Range
    <3>2. NextTask(list', task') = IF back # Null THEN back ELSE Idle
      BY <1>5, <1>10, <3>1 DEF NextTask, back
    <3>3. c = Idle
      BY <1>2, <1>7, <2>1, <3>2
    <3>4. t # Shell
      BY <1>4, <3>1, <3>3
    <3> QED BY <1>2, <1>7, <1>8, <3>2, <3>3, <3>4
  <2> QED BY <2>2, <2>3
<1> QED BY <1>9, <1>10

\* pc_schedule stops the machine for want of another task only when no other
\* task is ready.
THEOREM HaltCorrect == Spec => []HaltsOnlyWithoutWork
<1>1. Init => HaltsOnlyWithoutWork
  BY DEF Init, HaltsOnlyWithoutWork
<1>2. IInv /\ HaltsOnlyWithoutWork /\ [Next]_vars => HaltsOnlyWithoutWork'
  <2> SUFFICES ASSUME IInv, HaltsOnlyWithoutWork, [Next]_vars, fault' = "idle",
                      NEW t \in Task \ {Idle}
               PROVE  task'[t].state # S_READY
    BY DEF HaltsOnlyWithoutWork
  <2>1. CASE Tick
    BY <2>1, HaltStep
  <2>2. CASE CreateStep \/ WaitCheck \/ WaitSleep \/ ExitMm \/ Exit
    BY <2>2 DEF CreateStep, PidAlloc, PidAllocFails, PidAllocStore, KmallocFails,
                PidFreeStore, FillTask, EnterSched, SetReady, WaitCheck, WaitSleep,
                ExitMm, Exit, Command, ShellAt, ChildRuns, vars, HaltsOnlyWithoutWork
  <2>3. CASE (\E p \in Pids : Kill(p)) \/ (\E p \in Pids : KillNull(p))
    BY <2>3 DEF Kill, KillNull, Command, ShellAt
  <2>4. CASE UNCHANGED vars
    BY <2>4 DEF vars, HaltsOnlyWithoutWork
  <2> QED BY <2>1, <2>2, <2>3, <2>4 DEF Next
<1> QED BY <1>1, <1>2, Invariant, PTL DEF Spec

--------------------------------------------------------------------------------
(* What each step does to the processes *)

USE DEF S_UNINIT, S_READY, S_TERMINAL, IDLE_PID, INIT_PID

\* Process t keeps its state, its pid and its parent through the step.
Kept(t) ==
    /\ task'[t].state = task[t].state
    /\ task'[t].pid = task[t].pid
    /\ task'[t].parent = task[t].parent

\* Paying for a turn changes neither of them.
LEMMA ChargedKeeps ==
    ASSUME NEW tk \in [Task -> TaskStruct], current_task \in Task,
           NEW ck, ck = Charged(tk), NEW t \in Task
    PROVE  ck[t].state = tk[t].state /\ ck[t].pid = tk[t].pid /\ ck[t].parent = tk[t].parent
<1>1. ASSUME NEW r \in TaskStruct
      PROVE  Pay(r).state = r.state /\ Pay(r).pid = r.pid /\ Pay(r).parent = r.parent
  BY DEF Pay, TaskStruct
<1>2. CASE Preemptive(tk)
  <2>1. ck = [tk EXCEPT ![current_task] = Pay(tk[current_task])]
    BY <1>2 DEF Charged
  <2>2. t # current_task => ck[t] = tk[t]
    BY <2>1
  <2>3. t = current_task => ck[t] = Pay(tk[t])
    BY <2>1
  <2> QED BY <1>1, <2>2, <2>3
<1>3. CASE ~Preemptive(tk)
  BY <1>3 DEF Charged
<1> QED BY <1>2, <1>3

\* pid_alloc, pid_free, the start of waitpid, mm_delete and the linking into a
\* run queue change no process.
LEMMA QuietEffect ==
    ASSUME IInv,
           \/ \E p \in 0 .. PID_CAP : PidAlloc(p)
           \/ PidAllocFails \/ PidAllocStore \/ KmallocFails \/ PidFreeStore
           \/ EnterSched \/ WaitCheck \/ ExitMm
           \/ \E p \in Pids : KillNull(p)
           \/ UNCHANGED vars
    PROVE  UNCHANGED <<tasks, current_task>> /\ \A t \in Task : Kept(t)
<1>1. task \in [Task -> TaskStruct]
  BY DEF IInv, TypeOK
<1>2. CASE EnterSched
  <2>1. PICK lv, cnt : task' = [task EXCEPT ![new].sched_lv = lv, ![new].time_cnt = cnt]
    BY <1>2 DEF EnterSched
  <2>2. \A t \in Task : Kept(t)
    BY <1>1, <2>1 DEF Kept, TaskStruct
  <2> QED BY <1>2, <2>2 DEF EnterSched
<1>3. CASE ExitMm
  <2>1. PICK m : task' = [task EXCEPT ![current_task].mm = m, ![current_task].exiting = TRUE]
    BY <1>3 DEF ExitMm
  <2>2. \A t \in Task : Kept(t)
    BY <1>1, <2>1 DEF Kept, TaskStruct
  <2> QED BY <1>3, <2>2 DEF ExitMm
<1>4. ASSUME UNCHANGED <<task, tasks, current_task>>
      PROVE  UNCHANGED <<tasks, current_task>> /\ \A t \in Task : Kept(t)
  BY <1>4 DEF Kept
<1> QED BY <1>2, <1>3, <1>4
        DEF PidAlloc, PidAllocFails, PidAllocStore, KmallocFails, PidFreeStore, WaitCheck,
            KillNull, vars

\* The task that gets the CPU is one of the list of all tasks.
LEMMA CurrentIsTask == IInv' => current_task' \in tasks'
<1> SUFFICES ASSUME IInv'  PROVE current_task' \in tasks'
  OBVIOUS
<1>1. PICK n \in Task : n = current_task'
  BY DEF IInv, TypeOK
<1>2. PICK lv \in Level : lv = task'[n].sched_lv
  BY DEF IInv, TypeOK, TaskStruct
<1>3. On(lv, n)'
  BY <1>1, <1>2 DEF IInv, CurrentRunnable, On
<1> QED BY <1>1, <1>3, ListIndexes DEF IInv, ListsMatchStates, On

\* The timer clears the terminal processes away.
LEMMA TickEffect ==
    ASSUME IInv, Tick
    PROVE  /\ tasks' = { t \in tasks : task[t].state # S_TERMINAL }
           /\ \A t \in tasks' : Kept(t)
           /\ Shell \in tasks' /\ Idle \in tasks'
           /\ current_task' \in tasks'
<1> DEFINE dead == Range(list[EXITED])
           tk   == [t \in Task |-> IF t \in dead THEN NoTask ELSE task[t]]
<1>1. task' = Charged(tk) /\ tasks' = tasks \ dead
  BY DEF Tick
<1>2. /\ task \in [Task -> TaskStruct] /\ current_task \in Task /\ tasks \subseteq Task
      /\ \A t \in Task : t \in dead <=> task[t].state = S_TERMINAL
  BY DEF IInv, TypeOK, ListsMatchStates, On
<1> HIDE DEF dead
<1>3. tk \in [Task -> TaskStruct] /\ \A t \in Task : t \notin dead => tk[t] = task[t]
  BY <1>2, NoTaskStruct
<1> HIDE DEF tk
<1>4. \A t \in tasks' : Kept(t)
  <2>1. ASSUME NEW t \in tasks'  PROVE Kept(t)
    <3>1. t \in Task /\ tk[t] = task[t]
      BY <1>1, <1>2, <1>3
    <3> QED BY <1>1, <1>2, <1>3, <3>1, ChargedKeeps DEF Kept
  <2> QED BY <2>1
<1>5. tasks' = { t \in tasks : task[t].state # S_TERMINAL }
  BY <1>1, <1>2
<1>6. IInv'
  BY TickStep
<1>7. Shell \in tasks' /\ Idle \in tasks'
  BY <1>6 DEF IInv, Foreground
<1>8. current_task' \in tasks'
  BY <1>6, CurrentIsTask
<1> QED BY <1>4, <1>5, <1>7, <1>8

\* task_create fills in a structure no process has.
LEMMA FillEffect ==
    ASSUME IInv, NEW t \in Child, NEW mm \in {"null", "live"}, FillTask(t, mm)
    PROVE  /\ t \notin tasks /\ tasks' = tasks \cup {t}
           /\ current_task = Shell /\ current_task' = Shell
           /\ task'[t].state = S_UNINIT /\ task'[t].parent = INIT_PID
           /\ task'[t].pid = newpid
           /\ \A u \in Task \ {t} : Kept(u)
<1>1. /\ task \in [Task -> TaskStruct] /\ t \in Task /\ task[Shell].pid = INIT_PID
      /\ t \notin tasks /\ tasks' = tasks \cup {t}
      /\ current_task = Shell /\ current_task' = Shell
      /\ task' = [task EXCEPT ![t] =
                     [NoTask EXCEPT !.pid = newpid, !.parent = task[Shell].pid, !.mm = mm]]
  BY DEF FillTask, ShellAt, add_task, IInv, TypeOK, Foreground, Task
<1>2. task'[t] = [NoTask EXCEPT !.pid = newpid, !.parent = task[Shell].pid, !.mm = mm]
  BY <1>1
<1>3. task'[t].state = S_UNINIT /\ task'[t].parent = INIT_PID /\ task'[t].pid = newpid
  BY <1>1, <1>2 DEF NoTask
<1>4. \A u \in Task \ {t} : Kept(u)
  BY <1>1 DEF Kept
<1> QED BY <1>1, <1>3, <1>4

\* The end of task_create.
LEMMA ReadyEffect ==
    ASSUME IInv, NEW is_wait \in BOOLEAN, SetReady(is_wait)
    PROVE  /\ new \in Child \cap tasks /\ UNCHANGED tasks
           /\ current_task = Shell /\ current_task' = Shell
           /\ task[new].state = S_UNINIT /\ task'[new].state = S_READY
           /\ task'[new].pid = task[new].pid /\ task'[new].parent = task[new].parent
           /\ \A u \in Task \ {new} : Kept(u)
<1>1. /\ task \in [Task -> TaskStruct] /\ new \in Child \cap tasks /\ new \in Task
      /\ task[new].state = S_UNINIT /\ UNCHANGED tasks
      /\ current_task = Shell /\ current_task' = Shell
      /\ task' = [task EXCEPT ![new].state = S_READY]
  BY DEF SetReady, ShellAt, IInv, TypeOK, ShellControl, Task
<1>2. PICK x : x = S_READY
  OBVIOUS
<1>3. task' = [task EXCEPT ![new].state = x]
  BY <1>1, <1>2
<1>4. /\ task'[new].state = x /\ task'[new].pid = task[new].pid
      /\ task'[new].parent = task[new].parent
      /\ \A u \in Task \ {new} : Kept(u)
  BY <1>1, <1>3 DEF TaskStruct, Kept
<1> QED BY <1>1, <1>2, <1>4

\* waitpid puts the shell to sleep.
LEMMA SleepEffect ==
    ASSUME IInv, WaitSleep
    PROVE  /\ UNCHANGED tasks /\ current_task = Shell /\ new = Null
           /\ task[Shell].state = S_READY /\ task'[Shell].state < 0
           /\ task'[Shell].pid = task[Shell].pid
           /\ current_task' \in tasks'
           /\ \A u \in Task \ {Shell} : Kept(u)
<1> DEFINE tk == [task EXCEPT ![Shell].state = -newpid]
<1>0. task' = Charged(tk) /\ UNCHANGED tasks /\ current_task = Shell /\ at = "sleep"
  BY DEF WaitSleep, ShellAt
<1> HIDE DEF tk
<1>1. /\ task \in [Task -> TaskStruct] /\ Shell \in Task
      /\ newpid \in 0 .. PID_CAP /\ newpid # 0 /\ new = Null
      /\ task[Shell].state = S_READY
  BY <1>0 DEF IInv, TypeOK, ShellControl, Creating, Task
<1>2. /\ tk \in [Task -> TaskStruct] /\ tk[Shell].state < 0
      /\ tk[Shell].pid = task[Shell].pid
      /\ \A u \in Task \ {Shell} : tk[u] = task[u]
  <2>1. PICK x \in Int : x = -newpid /\ x < 0
    BY <1>1, PidAssumption
  <2>2. tk = [task EXCEPT ![Shell].state = x]
    BY <2>1 DEF tk
  <2> QED BY <1>1, <2>1, <2>2 DEF TaskStruct
<1>3. \A u \in Task : /\ task'[u].state = tk[u].state /\ task'[u].pid = tk[u].pid
                      /\ task'[u].parent = tk[u].parent
  BY <1>0, <1>1, <1>2, ChargedKeeps
<1>4. IInv'
  BY WaitSleepStep
<1>5. current_task' \in tasks'
  BY <1>4, CurrentIsTask
<1> QED BY <1>0, <1>1, <1>2, <1>3, <1>5 DEF Kept

\* pc_kill makes one child terminal; it may be so already.
LEMMA KillEffect ==
    ASSUME IInv, NEW p \in Pids, Kill(p)
    PROVE  /\ UNCHANGED tasks /\ current_task = Shell /\ current_task' = Shell
           /\ \E t \in Child \cap tasks :
                 /\ task[t].state \in {S_READY, S_TERMINAL} /\ task'[t].state = S_TERMINAL
                 /\ task[t].pid = p
                 /\ task'[t].pid = task[t].pid /\ task'[t].parent = task[t].parent
                 /\ \A u \in Task \ {t} : Kept(u)
<1>1. /\ task \in [Task -> TaskStruct] /\ tasks \subseteq Task
      /\ task[Idle].pid = IDLE_PID /\ task[Shell].pid = INIT_PID
      /\ current_task = Shell /\ current_task' = Shell /\ UNCHANGED tasks
      /\ p \notin {IDLE_PID, INIT_PID} /\ new = Null /\ Null \notin Task
  BY PcAssumption
     DEF Kill, Command, ShellAt, IInv, TypeOK, Foreground, ShellControl, Creating, Task
<1>2. PICK t : t = find_in_tasks(p)
  OBVIOUS
<1>3. t \in tasks /\ task[t].pid = p
  <2>1. find_in_tasks(p) # Null
    BY DEF Kill
  <2>2. find_in_tasks(p) \in tasks \cap { u \in Task : task[u].pid = p }
    BY <2>1, FirstTaskProperties DEF find_in_tasks, IInv
  <2> QED BY <1>2, <2>2
<1>4. t \in Child \cap tasks /\ t \in Task
  BY <1>1, <1>3 DEF Task
<1>5. task[t].state \in {S_READY, S_TERMINAL}
  BY <1>1, <1>4 DEF IInv, Foreground
<1>6. PICK x, m : x = S_TERMINAL /\ task' = [task EXCEPT ![t].state = x, ![t].mm = m]
  BY <1>2 DEF Kill
<1>7. /\ task'[t].state = x /\ task'[t].pid = task[t].pid /\ task'[t].parent = task[t].parent
      /\ \A u \in Task \ {t} : Kept(u)
  BY <1>1, <1>4, <1>6 DEF TaskStruct, Kept
<1> QED BY <1>1, <1>3, <1>4, <1>5, <1>6, <1>7


\* pc_exit makes the child on the CPU terminal, and wakes the shell if that waits for the
\* child's pid and is its parent.
LEMMA ExitEffect ==
    ASSUME IInv, Exit
    PROVE  /\ UNCHANGED tasks /\ current_task \in Child \cap tasks /\ current_task' \in tasks'
           /\ task[current_task].state = S_READY /\ task'[current_task].state = S_TERMINAL
           /\ task'[current_task].pid = task[current_task].pid
           /\ task'[current_task].parent = task[current_task].parent
           /\ \A u \in Task \ {current_task, Shell} : Kept(u)
           /\ \/ Kept(Shell) /\ ~(/\ task[current_task].parent = INIT_PID
                                  /\ task[Shell].state = -task[current_task].pid)
              \/ /\ task[Shell].state = -task[current_task].pid /\ task[Shell].state < 0
                 /\ task'[Shell].state = S_READY
<1> DEFINE w  == Waiter
           tk == WokenTasks(w)
           ls == WokenList(w)
           dying == [task EXCEPT ![current_task].state = S_TERMINAL]
           W == { t \in Task : /\ task[t].pid = task[current_task].parent
                               /\ task[t].state = -task[current_task].pid }
<1>1. task' = Charged(tk) /\ UNCHANGED tasks /\ current_task \in Child
  BY DEF Exit, ChildRuns
<1>2. tk \in [Task -> TaskStruct]
  BY <1>1, WakesProperties
<1>3. /\ w = First(list[WAIT], W)
      /\ tk = IF w = Null THEN dying ELSE [dying EXCEPT ![w].state = S_READY]
  BY DEF Waiter, WokenTasks
<1> HIDE DEF w, tk, ls
<1>4. PICK c \in Child : c = current_task
  BY <1>1
<1>5. /\ task \in [Task -> TaskStruct] /\ c \in Task /\ Shell \in Task /\ c # Shell
      /\ Shell # Null /\ c \in tasks /\ task[c].state = S_READY /\ task[Shell].pid = INIT_PID
      /\ list[WAIT] \in Seq(Task)
  <2>1. /\ task \in [Task -> TaskStruct] /\ c \in Task /\ Shell \in Task /\ c # Shell
        /\ Shell # Null /\ list[WAIT] \in Seq(Task)
    BY PcAssumption, ListIndexes DEF IInv, TypeOK, Task
  <2>2. task[c].state = S_READY
    BY <1>4 DEF IInv, CurrentRunnable
  <2>3. c \in tasks /\ task[Shell].pid = INIT_PID
    BY <2>2 DEF IInv, Foreground
  <2> QED BY <2>1, <2>2, <2>3
<1>6. PICK x, y : x = S_TERMINAL /\ y = S_READY
  OBVIOUS
<1>7. /\ dying[c].state = x /\ dying[c].pid = task[c].pid /\ dying[c].parent = task[c].parent
      /\ \A u \in Task \ {c} : dying[u] = task[u]
      /\ dying[Shell] \in TaskStruct /\ DOMAIN dying = Task
  <2>1. dying = [task EXCEPT ![c].state = x]
    BY <1>4, <1>6
  <2> HIDE DEF dying
  <2> QED BY <1>5, <2>1 DEF TaskStruct
<1> HIDE DEF dying
<1>8. \A u \in Task : /\ task'[u].state = tk[u].state /\ task'[u].pid = tk[u].pid
                      /\ task'[u].parent = tk[u].parent
  BY <1>1, <1>2, <1>4, <1>5, ChargedKeeps
<1>9. IInv' /\ current_task' \in tasks'
  BY ExitStep, CurrentIsTask
<1>10. CASE w = Null
  <2>1. tk = dying
    BY <1>3, <1>10
  <2>2. ~(/\ task[c].parent = INIT_PID /\ task[Shell].state = -task[c].pid)
    <3> SUFFICES ASSUME task[c].parent = INIT_PID, task[Shell].state = -task[c].pid
                 PROVE  FALSE
      OBVIOUS
    <3>1. Shell \in W
      BY <1>4, <1>5
    <3>2. task[Shell].state < 0
      <4>1. task[c].pid \in Nat
        BY <1>5, PidAssumption DEF TaskStruct
      <4>2. task[Shell].state # S_READY
        BY <4>1
      <4> QED BY <4>2 DEF IInv, Foreground
    <3>3. Shell \in Range(list[WAIT])
      BY <1>5, <3>2 DEF IInv, ListsMatchStates, On
    <3> HIDE DEF W
    <3>4. First(list[WAIT], W) \in Task
      BY <1>5, <3>1, <3>3, FirstProperties DEF Range
    <3> QED BY <1>3, <1>10, <3>4, PcAssumption
  <2> QED BY <1>1, <1>4, <1>5, <1>6, <1>7, <1>8, <1>9, <2>1, <2>2 DEF Kept
<1>11. CASE w # Null
  <2> HIDE DEF W
  <2>1. w \in Range(list[WAIT]) /\ w \in W
    BY <1>3, <1>5, <1>11, FirstProperties
  <2>2. w = Shell /\ task[Shell].state < 0
    <3>1. /\ task[Shell].state < 0 => list[WAIT] = <<Shell>>
          /\ ~(task[Shell].state < 0) => list[WAIT] = << >>
      BY DEF IInv, Foreground
    <3>2. Range(<< >>) = {} /\ Range(<<Shell>>) = {Shell}
      BY DEF Range
    <3> QED BY <2>1, <3>1, <3>2
  <2>3. task[Shell].state = -task[c].pid
    BY <1>4, <2>1, <2>2 DEF W
  <2>4. /\ tk[Shell].state = y
        /\ \A u \in Task \ {Shell} : tk[u] = dying[u]
    <3>1. tk = [dying EXCEPT ![Shell].state = y]
      BY <1>3, <1>6, <1>11, <2>2
    <3> QED BY <1>5, <1>7, <3>1 DEF TaskStruct
  <2> QED BY <1>1, <1>4, <1>5, <1>6, <1>7, <1>8, <1>9, <2>2, <2>3, <2>4 DEF Kept
<1> QED BY <1>10, <1>11


--------------------------------------------------------------------------------
(* The refinement *)

\* Only the shell creates processes.
Parents == \A t \in Child \cap tasks : task[t].parent = INIT_PID

Inv == IInv /\ Parents

LEMMA ParentsStep ==
    ASSUME Inv, [Next]_vars
    PROVE  Parents'
<1>1. IInv /\ Parents /\ Child \subseteq Task /\ Shell \notin Child /\ tasks \subseteq Task
  BY PcAssumption DEF Inv, Task, IInv, TypeOK
<1>2. CASE UNCHANGED tasks /\ \A t \in Task : Kept(t)
  BY <1>1, <1>2 DEF Parents, Kept
<1>3. CASE Tick
  <2>1. tasks' \subseteq tasks /\ \A t \in tasks' : Kept(t)
    BY <1>1, <1>3, TickEffect
  <2> QED BY <1>1, <2>1 DEF Parents, Kept
<1>4. ASSUME NEW t \in Child, NEW mm \in {"null", "live"}, FillTask(t, mm)
      PROVE  Parents'
  <2>1. /\ tasks' = tasks \cup {t} /\ task'[t].parent = INIT_PID
        /\ \A u \in Task \ {t} : Kept(u)
    BY <1>1, <1>4, FillEffect
  <2> QED BY <1>1, <2>1 DEF Parents, Kept
<1>5. ASSUME NEW is_wait \in BOOLEAN, SetReady(is_wait)
      PROVE  Parents'
  <2>1. /\ UNCHANGED tasks /\ task'[new].parent = task[new].parent
        /\ \A u \in Task \ {new} : Kept(u)
    BY <1>1, <1>5, ReadyEffect
  <2> QED BY <1>1, <2>1 DEF Parents, Kept
<1>6. CASE WaitSleep
  <2>1. UNCHANGED tasks /\ \A u \in Task \ {Shell} : Kept(u)
    BY <1>1, <1>6, SleepEffect
  <2> QED BY <1>1, <2>1 DEF Parents, Kept
<1>7. ASSUME NEW p \in Pids, Kill(p)
      PROVE  Parents'
  <2>1. /\ UNCHANGED tasks
        /\ \E t \in Child \cap tasks : /\ task'[t].parent = task[t].parent
                                       /\ \A u \in Task \ {t} : Kept(u)
    BY <1>1, <1>7, KillEffect
  <2> QED BY <1>1, <2>1 DEF Parents, Kept
<1>8. CASE Exit
  <2>1. /\ UNCHANGED tasks /\ task'[current_task].parent = task[current_task].parent
        /\ \A u \in Task \ {current_task, Shell} : Kept(u)
    BY <1>1, <1>8, ExitEffect
  <2> QED BY <1>1, <2>1 DEF Parents, Kept
<1>9. CASE \/ \E p \in 0 .. PID_CAP : PidAlloc(p)
           \/ PidAllocFails \/ PidAllocStore \/ KmallocFails \/ PidFreeStore
           \/ EnterSched \/ WaitCheck \/ ExitMm
           \/ \E p \in Pids : KillNull(p)
           \/ UNCHANGED vars
  BY <1>1, <1>2, <1>9, QuietEffect
<1> QED BY <1>3, <1>4, <1>5, <1>6, <1>7, <1>8, <1>9 DEF Next, CreateStep

\* The phase of a task, in words.
LEMMA PhaseIs ==
    /\ phase = [t \in Task |-> phase[t]]
    /\ \A t \in Task :
        /\ t \notin tasks => phase[t] = "free"
        /\ t \in tasks /\ task[t].state = S_UNINIT => phase[t] = "new"
        /\ t \in tasks /\ task[t].state = S_READY => phase[t] = "ready"
        /\ t \in tasks /\ task[t].state = S_TERMINAL => phase[t] = "dead"
        /\ t \in tasks /\ task[t].state \notin {S_UNINIT, S_READY, S_TERMINAL}
              => phase[t] = "asleep"
BY DEF phase

\* The same of the phase after a step, and what a task keeps when it is kept.
LEMMA PhaseWillBe ==
    /\ phase' = [t \in Task |-> phase'[t]]
    /\ \A t \in Task :
        /\ t \notin tasks' => phase'[t] = "free"
        /\ t \in tasks' /\ task'[t].state = S_UNINIT => phase'[t] = "new"
        /\ t \in tasks' /\ task'[t].state = S_READY => phase'[t] = "ready"
        /\ t \in tasks' /\ task'[t].state = S_TERMINAL => phase'[t] = "dead"
        /\ t \in tasks' /\ task'[t].state \notin {S_UNINIT, S_READY, S_TERMINAL}
              => phase'[t] = "asleep"
        /\ Kept(t) /\ (t \in tasks' <=> t \in tasks) => phase'[t] = phase[t]
BY DEF phase, Kept

\* A shell that does not sleep waits for no one.
LEMMA AwaitsNone ==
    ASSUME IInv, task[Shell].state = S_READY
    PROVE  awaits = {}
<1>1. \A t \in Child : task[t].pid \in Nat
  BY PidAssumption DEF IInv, TypeOK, TaskStruct, Task
<1> QED BY <1>1 DEF awaits

LEMMA WillAwaitNone ==
    ASSUME IInv', task'[Shell].state = S_READY
    PROVE  awaits' = {}
<1>1. \A t \in Child : task'[t].pid \in Nat
  BY PidAssumption DEF IInv, TypeOK, TaskStruct, Task
<1> QED BY <1>1 DEF awaits


\* What the refinement says of a step: it is one of Lifecycle, or changes nothing there.
LEMMA StepRefines ==
    ASSUME Inv, Inv', [Next]_vars
    PROVE  [Life!Next]_(Life!vars)
<1>1. /\ IInv /\ IInv' /\ Parents /\ tasks \subseteq Task /\ current_task \in Task
      /\ Child \subseteq Task /\ Shell \in Task /\ Shell \notin Child /\ Idle \in Task
      /\ Idle \notin Child /\ Idle # Shell
      /\ task[Shell].state = S_READY \/ task[Shell].state < 0
      /\ \A t \in Child : task[t].state \in {S_UNINIT, S_READY, S_TERMINAL}
      /\ \A t \in Child : t \in tasks /\ task[t].state = S_UNINIT => t = new
      /\ Shell \in tasks /\ Idle \in tasks /\ task[Idle].state = S_READY
      /\ task[current_task].state = S_READY
  BY PcAssumption DEF Inv, Task, IInv, TypeOK, Foreground, CurrentRunnable
<1>2. task'[current_task'].state = S_READY /\ current_task' \in Task
  BY <1>1 DEF IInv, CurrentRunnable, TypeOK
<1>3. Life!Task = Task /\ \A ph : Life!Ready(ph) = { t \in Task : ph[t] = "ready" }
  BY DEF Life!Task, Life!Ready, Task
<1> DEFINE Ready(ph) == { t \in Task : ph[t] = "ready" }
<1>4. CASE UNCHANGED <<tasks, current_task>> /\ \A t \in Task : Kept(t)
  <2>1. \A t \in Task : phase'[t] = phase[t]
    BY <1>4, PhaseWillBe
  <2>2. phase' = phase
    BY <2>1, PhaseIs, PhaseWillBe
  <2>3. awaits' = awaits
    BY <1>1, <1>4 DEF awaits, Live, Kept
  <2> QED BY <1>4, <2>2, <2>3 DEF Life!vars
<1>5. CASE Tick
  <2>1. /\ tasks' = { t \in tasks : task[t].state # S_TERMINAL }
        /\ \A t \in tasks' : Kept(t)
        /\ Shell \in tasks' /\ Idle \in tasks' /\ current_task' \in tasks'
    BY <1>1, <1>5, TickEffect
  <2>2. phase' = [t \in Task |-> IF phase[t] = "dead" THEN "free" ELSE phase[t]]
    <3>1. \A t \in Task : phase'[t] = IF phase[t] = "dead" THEN "free" ELSE phase[t]
      BY <2>1, PhaseIs, PhaseWillBe
    <3> QED BY <3>1, PhaseWillBe
  <2>3. current_task' \in Ready(phase)
    BY <1>1, <1>2, <2>1, PhaseIs DEF Kept
  <2>4. awaits' = awaits
    BY <1>1, <2>1 DEF awaits, Live, Kept
  <2> QED BY <1>3, <2>2, <2>3, <2>4 DEF Life!Next, Life!Schedule
<1>6. ASSUME NEW t \in Child, NEW mm \in {"null", "live"}, FillTask(t, mm)
      PROVE  Life!Next
  <2>1. /\ t \notin tasks /\ tasks' = tasks \cup {t}
        /\ current_task = Shell /\ current_task' = Shell
        /\ task'[t].state = S_UNINIT
        /\ \A u \in Task \ {t} : Kept(u)
    BY <1>1, <1>6, FillEffect
  <2>2. phase' = [phase EXCEPT ![t] = "new"] /\ phase[t] = "free"
    <3>1. \A u \in Task : phase'[u] = IF u = t THEN "new" ELSE phase[u]
      BY <1>1, <2>1, PhaseWillBe
    <3> QED BY <1>1, <2>1, <3>1, PhaseIs, PhaseWillBe
  <2>3. awaits = {} /\ awaits' = {}
    BY <1>1, <1>2, <2>1, AwaitsNone, WillAwaitNone
  <2> QED BY <2>1, <2>2, <2>3 DEF Life!Next, Life!Create
<1>7. ASSUME NEW is_wait \in BOOLEAN, SetReady(is_wait)
      PROVE  Life!Next
  <2>1. /\ new \in Child \cap tasks /\ UNCHANGED tasks
        /\ current_task = Shell /\ current_task' = Shell
        /\ task[new].state = S_UNINIT /\ task'[new].state = S_READY
        /\ \A u \in Task \ {new} : Kept(u)
    BY <1>1, <1>7, ReadyEffect
  <2>2. PICK t \in Child : t = new
    BY <2>1
  <2>3. phase' = [phase EXCEPT ![t] = "ready"] /\ phase[t] = "new"
    <3>1. \A u \in Task : phase'[u] = IF u = t THEN "ready" ELSE phase[u]
      BY <1>1, <2>1, <2>2, PhaseWillBe
    <3> QED BY <1>1, <2>1, <2>2, <3>1, PhaseIs, PhaseWillBe
  <2>4. awaits = {} /\ awaits' = {}
    BY <1>1, <1>2, <2>1, AwaitsNone, WillAwaitNone
  <2> QED BY <2>1, <2>3, <2>4 DEF Life!Next, Life!Start
<1>8. CASE WaitSleep
  <2>1. /\ UNCHANGED tasks /\ current_task = Shell /\ new = Null
        /\ task[Shell].state = S_READY /\ task'[Shell].state < 0
        /\ current_task' \in tasks'
        /\ \A u \in Task \ {Shell} : Kept(u)
    BY <1>1, <1>8, SleepEffect
  <2>2. phase' = [phase EXCEPT ![Shell] = "asleep"]
    <3>1. \A u \in Task : phase'[u] = IF u = Shell THEN "asleep" ELSE phase[u]
      BY <1>1, <2>1, PhaseWillBe
    <3> QED BY <3>1, PhaseIs, PhaseWillBe
  <2>3. current_task' \in Ready(phase')
    BY <1>2, <2>1, PhaseWillBe
  <2>4. awaits' \subseteq Ready(phase) /\ awaits' \in SUBSET Child
    <3>1. ASSUME NEW t \in Child, t \in tasks, task'[t].state # S_TERMINAL
          PROVE  phase[t] = "ready"
      BY <1>1, <2>1, <3>1, PhaseIs, PcAssumption DEF Kept
    <3> QED BY <1>1, <2>1, <3>1 DEF awaits, Live
  <2> QED BY <1>3, <2>1, <2>2, <2>3, <2>4 DEF Life!Next, Life!Sleep
<1>9. ASSUME NEW p \in Pids, Kill(p)
      PROVE  [Life!Next]_(Life!vars)
  <2>1. /\ UNCHANGED tasks /\ current_task = Shell /\ current_task' = Shell
        /\ \E t \in Child \cap tasks :
              /\ task[t].state \in {S_READY, S_TERMINAL} /\ task'[t].state = S_TERMINAL
              /\ \A u \in Task \ {t} : Kept(u)
    BY <1>1, <1>9, KillEffect
  <2>2. PICK t \in Child \cap tasks :
              /\ task[t].state \in {S_READY, S_TERMINAL} /\ task'[t].state = S_TERMINAL
              /\ \A u \in Task \ {t} : Kept(u)
    BY <2>1
  <2>3. phase' = [phase EXCEPT ![t] = "dead"]
    <3>1. \A u \in Task : phase'[u] = IF u = t THEN "dead" ELSE phase[u]
      BY <1>1, <2>1, <2>2, PhaseWillBe
    <3> QED BY <3>1, PhaseIs, PhaseWillBe
  <2>4. awaits = {} /\ awaits' = {}
    BY <1>1, <1>2, <2>1, AwaitsNone, WillAwaitNone
  <2>5. CASE task[t].state = S_READY
    BY <1>1, <2>1, <2>2, <2>3, <2>4, <2>5, PhaseIs DEF Life!Next, Life!Kill
  <2>6. CASE task[t].state = S_TERMINAL
    <3>1. phase[t] = "dead"
      BY <1>1, <2>2, <2>6, PhaseIs
    <3>2. phase' = phase
      BY <2>3, <3>1, PhaseIs
    <3> QED BY <2>1, <2>4, <3>2 DEF Life!vars
  <2> QED BY <2>2, <2>5, <2>6
<1>10. CASE Exit
  <2>1. PICK c \in Child : c = current_task
    BY <1>1, <1>10, ExitEffect
  <2>2. /\ UNCHANGED tasks /\ c \in tasks /\ current_task' \in tasks'
        /\ task[c].state = S_READY /\ task'[c].state = S_TERMINAL
        /\ \A u \in Task \ {c, Shell} : Kept(u)
        /\ \/ Kept(Shell) /\ task[Shell].state # -task[c].pid
           \/ /\ task[Shell].state = -task[c].pid /\ task[Shell].state < 0
              /\ task'[Shell].state = S_READY
    <3>1. task[c].parent = INIT_PID
      BY <1>1, <1>10, <2>1, ExitEffect DEF Parents
    <3> QED BY <1>1, <1>10, <2>1, <3>1, ExitEffect
  <2>3. task[c].pid \in Int /\ task[Shell].state \in Int
    <3>1. task \in [Task -> TaskStruct] /\ c \in Task /\ Shell \in Task
      BY <1>1 DEF IInv, TypeOK
    <3>2. task[c] \in TaskStruct /\ task[Shell] \in TaskStruct
      BY <3>1
    <3>3. PID_CAP \in Nat
      BY PidAssumption
    <3> QED BY <3>2, <3>3 DEF TaskStruct
  <2>4. c \in awaits <=> task[Shell].state = -task[c].pid
    BY <1>1, <2>2, <2>3 DEF awaits, Live
  <2>5. current_task' \in Ready(phase')
    BY <1>2, <2>2, PhaseWillBe
  <2>6. CASE c \in awaits
    <3>1. phase' = [phase EXCEPT ![c] = "dead", ![Shell] = "ready"]
      <4>1. \A u \in Task : phase'[u] = IF u = Shell THEN "ready"
                                        ELSE IF u = c THEN "dead" ELSE phase[u]
        BY <1>1, <2>2, <2>4, <2>6, PhaseWillBe
      <4> QED BY <1>1, <4>1, PhaseIs, PhaseWillBe
    <3>2. awaits' = {}
      BY <1>1, <2>2, <2>4, <2>6, WillAwaitNone
    <3> QED BY <1>3, <2>1, <2>5, <2>6, <3>1, <3>2 DEF Life!Next, Life!Exit
  <2>7. CASE c \notin awaits
    <3>1. phase' = [phase EXCEPT ![c] = "dead"]
      <4>1. \A u \in Task : phase'[u] = IF u = c THEN "dead" ELSE phase[u]
        BY <1>1, <2>2, <2>4, <2>7, PhaseWillBe
      <4> QED BY <4>1, PhaseIs, PhaseWillBe
    <3>2. awaits' = awaits
      <4>1. Kept(Shell)
        BY <2>2, <2>4, <2>7
      <4>2. ASSUME NEW t \in Child
            PROVE  /\ Live(t)' /\ task'[t].pid = -task'[Shell].state
                   <=> Live(t) /\ task[t].pid = -task[Shell].state
        <5>1. CASE t = c
          BY <2>2, <2>7, <4>1, <5>1 DEF awaits, Live, Kept
        <5>2. CASE t # c
          BY <1>1, <2>2, <4>1, <5>2 DEF Live, Kept
        <5> QED BY <5>1, <5>2
      <4> QED BY <4>2 DEF awaits
    <3> QED BY <1>3, <2>1, <2>5, <2>7, <3>1, <3>2 DEF Life!Next, Life!Exit
  <2> QED BY <2>6, <2>7
<1>11. CASE \/ \E p \in 0 .. PID_CAP : PidAlloc(p)
            \/ PidAllocFails \/ PidAllocStore \/ KmallocFails \/ PidFreeStore
            \/ EnterSched \/ WaitCheck \/ ExitMm
            \/ \E p \in Pids : KillNull(p)
            \/ UNCHANGED vars
  BY <1>1, <1>4, <1>11, QuietEffect
<1> QED BY <1>5, <1>6, <1>7, <1>8, <1>9, <1>10, <1>11 DEF Next, CreateStep

\* pc_exit is the only step in which a sleeping shell wakes.
LEMMA WokenStep ==
    ASSUME Inv, Inv', [Next]_vars, On(WAIT, Shell), ~On(WAIT, Shell)'
    PROVE  \E t \in Child : /\ task[t].pid = -task[Shell].state
                            /\ task[t].state = S_READY /\ task'[t].state = S_TERMINAL
<1>1. /\ IInv /\ Shell \in Task /\ Shell \notin Child
      /\ task[Shell].state < 0 /\ ~(task'[Shell].state < 0)
  BY PcAssumption DEF Inv, IInv, ListsMatchStates, On, Task
<1>2. current_task # Shell /\ ~Kept(Shell)
  BY <1>1 DEF IInv, CurrentRunnable, Kept
<1>3. CASE Exit
  <2>1. PICK c \in Child : c = current_task
    BY <1>1, <1>3, ExitEffect
  <2>2. task[c].pid \in Int /\ task[Shell].state \in Int
    BY <1>1, PidAssumption DEF IInv, TypeOK, TaskStruct, Task
  <2> QED BY <1>1, <1>2, <1>3, <2>1, <2>2, ExitEffect
<1>4. ~Tick
  BY <1>1, <1>2, TickEffect
<1>5. ~(\E t \in Child, mm \in {"null", "live"} : FillTask(t, mm))
  BY <1>2 DEF FillTask, ShellAt
<1>6. ~(\E is_wait \in BOOLEAN : SetReady(is_wait)) /\ ~WaitSleep /\ ~(\E p \in Pids : Kill(p))
  BY <1>2 DEF SetReady, WaitSleep, Kill, Command, ShellAt
<1>7. ~(\/ \E p \in 0 .. PID_CAP : PidAlloc(p)
        \/ PidAllocFails \/ PidAllocStore \/ KmallocFails \/ PidFreeStore
        \/ EnterSched \/ WaitCheck \/ ExitMm
        \/ \E p \in Pids : KillNull(p)
        \/ UNCHANGED vars)
  BY <1>1, <1>2, QuietEffect
<1> QED BY <1>3, <1>4, <1>5, <1>6, <1>7 DEF Next, CreateStep

\* The booted kernel.
LEMMA InitRefines == Init => Parents /\ Life!Init
<1> SUFFICES ASSUME Init PROVE Parents /\ Life!Init
  OBVIOUS
<1>1. IInv /\ Child \subseteq Task /\ Shell \in Task /\ Shell \notin Child /\ Idle \in Task
      /\ Idle \notin Child /\ tasks = {Idle, Shell} /\ current_task = Idle
      /\ task[Idle].state = S_READY /\ task[Shell].state = S_READY
  BY InitIInv, PcAssumption DEF Init, Task, Booted
<1>2. Parents
  BY <1>1 DEF Parents
<1>3. phase = [t \in Task |-> IF t \in Child THEN "free" ELSE "ready"]
  <2>1. \A t \in Task : phase[t] = IF t \in Child THEN "free" ELSE "ready"
    BY <1>1, PhaseIs DEF Task
  <2> QED BY <2>1, PhaseIs
<1>4. Life!Task = Task
  BY DEF Life!Task, Task
<1> QED BY <1>1, <1>2, <1>3, <1>4, AwaitsNone DEF Life!Init

--------------------------------------------------------------------------------
(* Pids *)

\* What pid_alloc and pid_free, which load a byte of the bitmap and store it later, rely on:
\* nobody lives under the pid in between, and the byte they store marks all who live.
PidControl ==
    /\ at \in {"store", "kmalloc", "free"} /\ newpid \in Pids =>
          \A t \in Task : Live(t) => task[t].pid # newpid
    /\ at \in {"kmalloc", "free"} /\ newpid \in Pids => newpid \in pidmap
    /\ at \in {"store", "free"} =>
          \A t \in Task : Live(t) /\ task[t].pid \in Byte(newpid) => task[t].pid \in byte

PidInv == PidsOwned /\ PidControl

\* A step that brings nobody to life, takes no pid of the living off the bitmap and leaves
\* the shell's locals alone keeps both.
LEMMA NobodyNew ==
    ASSUME PidInv, UNCHANGED <<at, newpid, byte>>,
           \A t \in Task : Live(t)' => Live(t) /\ task'[t].pid = task[t].pid,
           \A t \in Task : Live(t)' /\ task[t].pid \in pidmap => task[t].pid \in pidmap',
           at \in {"kmalloc", "free"} /\ newpid \in Pids => newpid \in pidmap'
    PROVE  PidInv'
<1>1. PidsOwned'
  BY DEF PidInv, PidsOwned
<1>2. PidControl'
  BY DEF PidInv, PidControl
<1> QED BY <1>1, <1>2 DEF PidInv

\* A step of pid_alloc or pid_free changes no process.
LEMMA SameProcesses ==
    ASSUME UNCHANGED <<task, tasks>>
    PROVE  \A t \in Task : (Live(t)' <=> Live(t)) /\ task'[t].pid = task[t].pid
BY DEF Live

LEMMA PidAllocPids ==
    ASSUME PidInv, NEW p \in 0 .. PID_CAP, PidAlloc(p)
    PROVE  PidInv'
<1>1. /\ UNCHANGED <<task, tasks, pidmap>> /\ at' = "store" /\ newpid' = p
      /\ byte' = pidmap \cap Byte(p) /\ p \notin pidmap
  BY DEF PidAlloc, pid_scan, MayBeClear, pid_load, pidVars
<1>2. \A t \in Task : (Live(t)' <=> Live(t)) /\ task'[t].pid = task[t].pid
  BY <1>1, SameProcesses
<1>3. PidsOwned'
  BY <1>1, <1>2 DEF PidInv, PidsOwned
<1>4. \A t \in Task : Live(t) /\ task[t].pid \in Byte(p) => task[t].pid \in byte'
  BY <1>1 DEF PidInv, PidsOwned, Byte
<1>5. \A t \in Task : Live(t) /\ p \in Pids => task[t].pid # p
  BY <1>1 DEF PidInv, PidsOwned
<1> QED BY <1>1, <1>2, <1>3, <1>4, <1>5 DEF PidInv, PidControl

LEMMA PidAllocStorePids ==
    ASSUME PidInv, PidAllocStore
    PROVE  PidInv'
<1>1. /\ UNCHANGED <<task, tasks, newpid>> /\ at = "store" /\ at' = "kmalloc"
      /\ pidmap' = (pidmap \ Byte(newpid)) \cup byte \cup (Pids \cap {newpid})
  BY DEF PidAllocStore, ShellAt, pid_store
<1>2. \A t \in Task : (Live(t)' <=> Live(t)) /\ task'[t].pid = task[t].pid
  BY <1>1, SameProcesses
<1>3. \A t \in Task : Live(t) /\ task[t].pid \in pidmap => task[t].pid \in pidmap'
  BY <1>1 DEF PidInv, PidControl
<1>4. PidsOwned'
  BY <1>2, <1>3 DEF PidInv, PidsOwned
<1>5. PidControl'
  BY <1>1, <1>2 DEF PidInv, PidControl
<1> QED BY <1>4, <1>5 DEF PidInv

LEMMA KmallocFailsPids ==
    ASSUME PidInv, KmallocFails
    PROVE  PidInv'
<1>1. /\ UNCHANGED <<task, tasks, pidmap>> /\ at = "kmalloc"
      /\ \/ at' = "free" /\ newpid' = newpid /\ byte' = pidmap \cap Byte(newpid)
         \/ at' = "prompt"
  BY DEF KmallocFails, ShellAt, pid_load, pidVars
<1>2. \A t \in Task : (Live(t)' <=> Live(t)) /\ task'[t].pid = task[t].pid
  BY <1>1, SameProcesses
<1>3. PidsOwned'
  BY <1>1, <1>2 DEF PidInv, PidsOwned
<1>4. \A t \in Task : Live(t) /\ task[t].pid \in Byte(newpid)
                         => task[t].pid \in pidmap \cap Byte(newpid)
  BY DEF PidInv, PidsOwned, Byte
<1>5. PidControl'
  BY <1>1, <1>2, <1>4 DEF PidInv, PidControl
<1> QED BY <1>3, <1>5 DEF PidInv

LEMMA PidFreeStorePids ==
    ASSUME PidInv, PidFreeStore
    PROVE  PidInv'
<1>1. /\ UNCHANGED <<task, tasks>> /\ at = "free" /\ at' = "prompt"
      /\ pidmap' = (pidmap \ Byte(newpid)) \cup (byte \ {newpid})
  BY DEF PidFreeStore, ShellAt, pid_free_store
<1>2. \A t \in Task : (Live(t)' <=> Live(t)) /\ task'[t].pid = task[t].pid
  BY <1>1, SameProcesses
<1>3. \A t \in Task : Live(t) /\ task[t].pid \in Pids => task[t].pid \in pidmap'
  BY <1>1 DEF PidInv, PidControl, PidsOwned
<1>4. PidsOwned'
  BY <1>2, <1>3 DEF PidInv, PidsOwned
<1> QED BY <1>1, <1>4 DEF PidInv, PidControl

LEMMA FillTaskPids ==
    ASSUME IInv, PidInv, NEW t \in Child, NEW mm \in {"null", "live"}, FillTask(t, mm)
    PROVE  PidInv'
<1>1. /\ t \in Task /\ t \notin tasks /\ tasks' = tasks \cup {t} /\ task'[t].pid = newpid
      /\ \A u \in Task \ {t} : Kept(u)
      /\ UNCHANGED pidmap /\ at = "kmalloc" /\ at' = "sched"
  BY FillEffect DEF FillTask, ShellAt, pidVars, Task
<1>2. \A u \in Task \ {t} : (Live(u)' <=> Live(u)) /\ task'[u].pid = task[u].pid
  BY <1>1 DEF Kept, Live
<1>3. newpid \in Pids => newpid \in pidmap /\ \A u \in Task : Live(u) => task[u].pid # newpid
  BY <1>1 DEF PidInv, PidControl
<1>4. PidsOwned'
  BY <1>1, <1>2, <1>3 DEF PidInv, PidsOwned
<1> QED BY <1>1, <1>4 DEF PidInv, PidControl

\* After a tick or more, pc_kill finds the living process of the pid.
LEMMA KillPids ==
    ASSUME FastTyping = FALSE, IInv, PidInv, NEW p \in Pids, Kill(p)
    PROVE  PidInv'
<1>1. /\ UNCHANGED <<tasks, at, newpid, byte>> /\ at = "prompt"
      /\ pidmap' = IF pid_check(p) THEN pidmap \ {p} ELSE pidmap
      /\ list[EXITED] = << >>
  BY DEF Kill, pid_free, Command, ShellAt, shVars
<1>2. PICK t \in Child \cap tasks :
         /\ task'[t].state = S_TERMINAL /\ task[t].pid = p /\ \A u \in Task \ {t} : Kept(u)
  BY KillEffect
<1>3. t \in Task /\ Live(t)
  <2>1. t \in Task
    BY DEF Task
  <2>2. t \notin Range(list[EXITED])
    BY <1>1 DEF Range
  <2> QED BY <2>1, <2>2 DEF IInv, ListsMatchStates, On, Live
<1>4. \A u \in Task : Live(u)' => Live(u) /\ task'[u].pid = task[u].pid /\ u # t
  BY <1>1, <1>2 DEF Kept, Live
<1>5. \A u \in Task : Live(u)' => task[u].pid # p
  BY <1>2, <1>3, <1>4 DEF PidInv, PidsOwned
<1>6. \A u \in Task : Live(u)' /\ task[u].pid \in pidmap => task[u].pid \in pidmap'
  BY <1>1, <1>5
<1> QED BY <1>1, <1>4, <1>6, NobodyNew

LEMMA ExitPids ==
    ASSUME IInv, PidInv, Exit
    PROVE  PidInv'
<1>1. PICK c \in Child : c = current_task
  BY ExitEffect
<1>2. /\ UNCHANGED <<tasks, at, newpid, byte>>
      /\ pidmap' = IF pid_check(task[c].pid) THEN pidmap \ {task[c].pid} ELSE pidmap
  BY <1>1 DEF Exit, pid_free, shVars
<1>3. /\ c \in Task /\ c \in tasks /\ task[c].state = S_READY /\ task'[c].state = S_TERMINAL
      /\ \A u \in Task \ {c, Shell} : Kept(u)
  BY <1>1, ExitEffect DEF Task
<1>4. Shell \in Task /\ task'[Shell].pid = task[Shell].pid /\ Live(Shell)
  <2>1. IInv' /\ Shell \in Task
    BY ExitStep DEF Task
  <2>2. task'[Shell].pid = INIT_PID
    BY <2>1 DEF IInv, Foreground
  <2> QED BY <2>1, <2>2 DEF IInv, Foreground, Live
<1>5. \A u \in Task : Live(u)' => Live(u) /\ task'[u].pid = task[u].pid /\ u # c
  BY <1>2, <1>3, <1>4 DEF Kept, Live
<1>6. Live(c)
  BY <1>3 DEF Live
<1>7. pid_check(task[c].pid) => /\ task[c].pid \in Pids
                                /\ \A u \in Task : Live(u)' => task[u].pid # task[c].pid
                                /\ at \in {"kmalloc", "free"} => newpid # task[c].pid
  <2> SUFFICES ASSUME pid_check(task[c].pid)
               PROVE  /\ task[c].pid \in Pids
                      /\ \A u \in Task : Live(u)' => task[u].pid # task[c].pid
                      /\ at \in {"kmalloc", "free"} => newpid # task[c].pid
    OBVIOUS
  <2>1. task[c].pid \in Pids
    BY DEF pid_check, IInv, TypeOK, PidTypeOK
  <2> QED BY <1>3, <1>5, <1>6, <2>1 DEF PidInv, PidsOwned, PidControl
<1>8. \A u \in Task : Live(u)' /\ task[u].pid \in pidmap => task[u].pid \in pidmap'
  BY <1>2, <1>7
<1>9. at \in {"kmalloc", "free"} /\ newpid \in Pids => newpid \in pidmap'
  BY <1>2, <1>7 DEF PidInv, PidControl
<1> QED BY <1>2, <1>5, <1>8, <1>9, NobodyNew

\* The other steps leave pidmap alone, and change no process but by clearing it away.
LEMMA OtherPids ==
    ASSUME IInv, PidInv,
           Tick \/ (\E is_wait \in BOOLEAN : SetReady(is_wait)) \/ WaitSleep
    PROVE  PidInv'
<1>1. \A t \in Task : Live(t)' => Live(t) /\ task'[t].pid = task[t].pid
  <2>1. CASE Tick
    BY <2>1, TickEffect DEF Live, Kept
  <2>2. CASE \E is_wait \in BOOLEAN : SetReady(is_wait)
    <3>1. /\ new \in Task /\ UNCHANGED tasks /\ task[new].state = S_UNINIT
          /\ task'[new].pid = task[new].pid /\ \A u \in Task \ {new} : Kept(u)
      BY <2>2, ReadyEffect DEF Task
    <3> QED BY <3>1 DEF Live, Kept
  <2>3. CASE WaitSleep
    <3>1. /\ Shell \in Task /\ UNCHANGED tasks /\ task[Shell].state = S_READY
          /\ task'[Shell].pid = task[Shell].pid /\ \A u \in Task \ {Shell} : Kept(u)
      BY <2>3, SleepEffect DEF Task
    <3> QED BY <3>1 DEF Live, Kept
  <2> QED BY <2>1, <2>2, <2>3
<1>2. UNCHANGED pidmap
  BY DEF Tick, SetReady, WaitSleep, pidVars
<1>3. CASE Tick
  BY <1>1, <1>2, <1>3, NobodyNew DEF Tick, shVars, PidInv, PidControl
<1>4. ASSUME at' \in {"prompt", "check"}  PROVE PidInv'
  <2>1. PidsOwned'
    BY <1>1, <1>2 DEF PidInv, PidsOwned
  <2> QED BY <1>4, <2>1 DEF PidInv, PidControl
<1> QED BY <1>3, <1>4 DEF SetReady, WaitSleep

LEMMA QuietPids ==
    ASSUME IInv, PidInv,
           PidAllocFails \/ EnterSched \/ WaitCheck \/ ExitMm
             \/ (\E p \in Pids : KillNull(p)) \/ UNCHANGED vars
    PROVE  PidInv'
<1>1. UNCHANGED tasks /\ \A t \in Task : Kept(t)
  BY QuietEffect
<1>2. UNCHANGED pidmap
  BY DEF PidAllocFails, EnterSched, WaitCheck, ExitMm, KillNull, vars, pidVars
<1>3. \A t \in Task : Live(t)' => Live(t) /\ task'[t].pid = task[t].pid
  BY <1>1 DEF Kept, Live
<1>4. CASE UNCHANGED <<at, newpid, byte>>
  BY <1>2, <1>3, <1>4, NobodyNew DEF PidInv, PidControl
<1>5. CASE at' \in {"ready", "prompt", "sleep"}
  <2>1. PidsOwned'
    BY <1>2, <1>3 DEF PidInv, PidsOwned
  <2> QED BY <1>5, <2>1 DEF PidInv, PidControl
<1> QED BY <1>4, <1>5
        DEF PidAllocFails, EnterSched, WaitCheck, ExitMm, KillNull, vars, shVars

LEMMA PidStep ==
    ASSUME FastTyping = FALSE, IInv, PidInv, [Next]_vars
    PROVE  PidInv'
<1>1. CASE \E p \in 0 .. PID_CAP : PidAlloc(p)
  BY <1>1, PidAllocPids
<1>2. CASE PidAllocStore \/ KmallocFails \/ PidFreeStore
  BY <1>2, PidAllocStorePids, KmallocFailsPids, PidFreeStorePids
<1>3. CASE \E t \in Child, mm \in {"null", "live"} : FillTask(t, mm)
  BY <1>3, FillTaskPids
<1>4. CASE \E p \in Pids : Kill(p)
  BY <1>4, KillPids
<1>5. CASE Exit
  BY <1>5, ExitPids
<1>6. CASE Tick \/ (\E is_wait \in BOOLEAN : SetReady(is_wait)) \/ WaitSleep
  BY <1>6, OtherPids
<1>7. CASE PidAllocFails \/ EnterSched \/ WaitCheck \/ ExitMm
             \/ (\E p \in Pids : KillNull(p)) \/ UNCHANGED vars
  BY <1>7, QuietPids
<1> QED BY <1>1, <1>2, <1>3, <1>4, <1>5, <1>6, <1>7 DEF Next, CreateStep

LEMMA InitPids == Init => PidInv
<1> SUFFICES ASSUME Init PROVE PidInv
  OBVIOUS
<1>1. /\ pidmap = {IDLE_PID, INIT_PID} /\ tasks = {Idle, Shell} /\ at = "prompt"
      /\ task[Idle].pid = IDLE_PID /\ task[Shell].pid = INIT_PID
      /\ Idle \in Task /\ Shell \in Task
  BY PcAssumption DEF Init, Task, Booted
<1> QED BY <1>1 DEF PidInv, PidsOwned, PidControl, Live

--------------------------------------------------------------------------------
(* Theorems *)

\* Every process but idle and the shell has been created by the shell (task_create).
THEOREM ParentsCorrect == Spec => []Inv
<1>1. Init => Inv
  BY InitIInv, InitRefines DEF Inv
<1>2. Inv /\ [Next]_vars => Inv'
  BY Inductive, ParentsStep DEF Inv
<1> QED BY <1>1, <1>2, PTL DEF Spec

\* Process control implements the life cycle of processes: only ready tasks get the CPU, only
\* dead ones are cleared away, and the shell is woken by the exit of the child it waits for and
\* by nothing else (pc.c, wait.c).
THEOREM Refinement == Spec => ImplementsLifecycle
<1>1. Init => Life!Init
  BY InitRefines
<1>2. Inv /\ Inv' /\ [Next]_vars => [Life!Next]_(Life!vars)
  BY StepRefines
<1> QED BY <1>1, <1>2, ParentsCorrect, PTL DEF Spec, ImplementsLifecycle, Life!Spec

\* The shell leaves the wait list only when the process it waits for exits (wakeup_parent).
THEOREM WokenCorrect == Spec => WokenByItsChild
<1>1. Inv /\ Inv' /\ [Next]_vars =>
         (On(WAIT, Shell) /\ ~On(WAIT, Shell)' =>
            \E t \in Child : /\ task[t].pid = -task[Shell].state
                             /\ task[t].state = S_READY
                             /\ task'[t].state = S_TERMINAL)
  BY WokenStep
<1> QED BY <1>1, ParentsCorrect, PTL DEF Spec, WokenByItsChild

\* If the shell never runs two commands within one clock tick, live processes have distinct
\* pids, each marked in the bitmap: pc_kill and pc_exit free the pid of the process they end,
\* and the bytes of the bitmap that pid_alloc and pid_free store late undo nothing that
\* matters (pid.c, pc.c:569).
THEOREM PidsCorrect ==
    ASSUME FastTyping = FALSE
    PROVE  Spec => []PidsOwned
<1>1. Init => PidInv
  BY InitPids
<1>2. IInv /\ PidInv /\ [Next]_vars => PidInv'
  BY PidStep
<1>3. PidInv => PidsOwned
  BY DEF PidInv
<1> QED BY <1>1, <1>2, <1>3, Invariant, PTL DEF Spec

--------------------------------------------------------------------------------
(* Order on one list *)

\* Unlinking a node puts nobody ahead of anybody.
LEMMA WithoutOrder ==
    ASSUME NEW S, NEW s \in Seq(S), NEW t, NEW y, NEW x, Ahead(Without(s, t), y, x)
    PROVE  Ahead(s, y, x)
<1>1. CASE t \notin Range(s)
  BY <1>1 DEF Without
<1>2. CASE t \in Range(s)
  <2> DEFINE k == CHOOSE i \in DOMAIN s : s[i] = t
             r == RemoveAt(s, k)
  <2>1. k \in 1 .. Len(s) /\ Without(s, t) = r
    BY <1>2, LenProperties DEF Range, Without
  <2> HIDE DEF k
  <2>2. /\ r \in Seq(S) /\ Len(r) = Len(s) - 1 /\ Len(s) \in Nat
        /\ \A i \in 1 .. Len(s) - 1 : r[i] = IF i < k THEN s[i] ELSE s[i + 1]
    BY <2>1, RemoveAtElements, LenProperties
  <2> HIDE DEF r
  <2>3. DOMAIN r = 1 .. Len(s) - 1 /\ DOMAIN s = 1 .. Len(s)
    BY <2>2, LenProperties
  <2>4. PICK i, j \in 1 .. Len(s) - 1 : i < j /\ r[i] = y /\ r[j] = x
    BY <2>1, <2>3 DEF Ahead
  <2> DEFINE a == IF i < k THEN i ELSE i + 1
             b == IF j < k THEN j ELSE j + 1
  <2>5. a \in 1 .. Len(s) /\ b \in 1 .. Len(s) /\ a < b /\ s[a] = y /\ s[b] = x
    BY <2>1, <2>2, <2>4
  <2> QED BY <2>3, <2>5 DEF Ahead
<1> QED BY <1>1, <1>2

\* Linking a node at the tail puts nobody ahead of anybody but of that node.
LEMMA AppendOrder ==
    ASSUME NEW S, NEW s \in Seq(S), NEW t \in S, NEW y, NEW x, x # t,
           Ahead(Append(s, t), y, x)
    PROVE  Ahead(s, y, x)
<1>1. /\ Append(s, t) \in Seq(S)
      /\ Len(Append(s, t)) = Len(s) + 1 /\ Len(s) \in Nat
      /\ \A i \in 1 .. Len(s) : Append(s, t)[i] = s[i]
      /\ Append(s, t)[Len(s) + 1] = t
  BY AppendProperties, LenProperties
<1>2. DOMAIN Append(s, t) = 1 .. Len(s) + 1 /\ DOMAIN s = 1 .. Len(s)
  BY <1>1, LenProperties
<1>3. PICK i, j \in 1 .. Len(s) + 1 : i < j /\ Append(s, t)[i] = y /\ Append(s, t)[j] = x
  BY <1>2 DEF Ahead
<1>4. j # Len(s) + 1
  BY <1>1, <1>3
<1> QED BY <1>1, <1>2, <1>3, <1>4 DEF Ahead

\* Nobody is ahead of the head of a list, and whoever has nobody ahead is the head.
LEMMA HeadOrder ==
    ASSUME NEW S, NEW s \in Seq(S), IsInjective(s)
    PROVE  /\ s # << >> => \A y : ~Ahead(s, y, Head(s))
           /\ \A x \in Range(s) : (\A y : ~Ahead(s, y, x)) => s # << >> /\ Head(s) = x
<1>1. DOMAIN s = 1 .. Len(s) /\ Len(s) \in Nat /\ (s # << >> => Len(s) # 0)
  BY LenProperties, EmptySeq
<1>2. s # << >> => Head(s) = s[1]
  OBVIOUS
<1>3. \A i, j \in 1 .. Len(s) : s[i] = s[j] => i = j
  BY <1>1 DEF IsInjective
<1>4. ASSUME NEW y, s # << >>, Ahead(s, y, Head(s))  PROVE FALSE
  <2>1. PICK i, j \in 1 .. Len(s) : i < j /\ s[i] = y /\ s[j] = s[1]
    BY <1>1, <1>2, <1>4 DEF Ahead
  <2>2. 1 \in 1 .. Len(s) /\ j # 1
    BY <1>1, <2>1
  <2> QED BY <1>3, <2>1, <2>2
<1>5. ASSUME NEW x \in Range(s), \A y : ~Ahead(s, y, x)
      PROVE  s # << >> /\ Head(s) = x
  <2>1. PICK j \in 1 .. Len(s) : s[j] = x
    BY <1>1 DEF Range
  <2>2. Len(s) # 0 /\ 1 \in 1 .. Len(s)
    BY <1>1, <2>1
  <2>3. ~(1 < j)
    BY <1>1, <1>5, <2>1, <2>2 DEF Ahead
  <2>4. j = 1
    BY <1>1, <2>1, <2>3
  <2>5. s # << >>
    BY <2>2
  <2> QED BY <1>2, <2>1, <2>4, <2>5
<1> QED BY <1>4, <1>5

--------------------------------------------------------------------------------
(* Order on the lists *)

\* Nobody but z gets behind somebody, on list q, as ls becomes m.
KeptOrder(ls, m, q, z) ==
    \A x \in Range(ls[q]) : \A y : Ahead(m[q], y, x) /\ x # z => Ahead(ls[q], y, x)

\* The same with nobody excepted.
AllKeptOrder(ls, m, q) == \A x \in Range(ls[q]) : \A y : Ahead(m[q], y, x) => Ahead(ls[q], y, x)

\* Moving t to the tail of list r.
LEMMA MoveOrder ==
    ASSUME NEW ls \in Lists, WellLinked(ls), NEW t \in Task, NEW r \in List,
           NEW m, m = add_tail(remove_sched(ls, t), r, t), NEW q \in List
    PROVE  /\ KeptOrder(ls, m, q, t)
           /\ q # r => AllKeptOrder(ls, m, q)
           /\ t \notin Range(ls[q]) => AllKeptOrder(ls, m, q)
<1>1. Without(ls[q], t) \in Seq(Task) /\ ls[q] \in Seq(Task)
  BY WithoutProperties DEF WellLinked, Lists
<1>2. m[q] = IF q = r THEN Append(Without(ls[q], t), t) ELSE Without(ls[q], t)
  BY DEF add_tail, remove_sched
<1>3. ASSUME NEW x \in Range(ls[q]), NEW y, Ahead(m[q], y, x), x # t \/ q # r
      PROVE  Ahead(ls[q], y, x)
  <2>1. Ahead(Without(ls[q], t), y, x)
    <3>1. CASE q = r
      BY <1>1, <1>2, <1>3, <3>1, AppendOrder
    <3> QED BY <1>2, <1>3, <3>1
  <2> QED BY <1>1, <2>1, WithoutOrder
<1> QED BY <1>3 DEF KeptOrder, AllKeptOrder

\* A turn of the scheduler: only the task that has had it gets behind others, and on the
\* last level not even that one.
LEMMA TurnOrder ==
    ASSUME NEW ls \in Lists, WellLinked(ls), NEW tk \in [Task -> TaskStruct],
           current_task \in Task,
           current_task \in Range(ls[tk[current_task].sched_lv]),
           NEW m, m = Requeued(ls, tk),
           NEW q \in SCHED_LV_MIN .. SCHED_LV_MAX
    PROVE  /\ KeptOrder(ls, m, q, current_task)
           /\ AllKeptOrder(ls, m, SCHED_LV_MAX)
           /\ Range(ls[SCHED_LV_MAX]) \subseteq Range(m[SCHED_LV_MAX])
           /\ m \in Lists /\ WellLinked(m)
<1>1. SCHED_LV_MAX \in List /\ q \in List
  BY ListIndexes
<1>2. CASE ~Preemptive(tk)
  BY <1>2 DEF Requeued, KeptOrder, AllKeptOrder
<1>3. CASE Preemptive(tk)
  <2>1. PICK c \in Task : c = current_task
    OBVIOUS
  <2>2. PICK lv \in Level : lv = tk[c].sched_lv
    BY <2>1 DEF TaskStruct
  <2>3. PICK r : r = Pay(tk[c]).sched_lv
    OBVIOUS
  <2>4. lv \in SCHED_LV_MIN .. SCHED_LV_MAX - 1 /\ r \in List
    <3>1. lv \in SCHED_LV_MIN .. SCHED_LV_MAX - 1
      BY <1>3, <2>1, <2>2 DEF Preemptive
    <3>2. r = lv \/ r = lv + 1
      BY <2>1, <2>2, <2>3 DEF Pay, TaskStruct
    <3> QED BY <3>1, <3>2, ListIndexes DEF SCHED_LV_MIN, Level
  <2>5. m = add_tail(remove_sched(ls, c), r, c)
    BY <1>3, <2>1, <2>3 DEF Requeued
  <2>6. m \in Lists /\ WellLinked(m) /\ Moved(ls, m, c, r)
    BY <2>4, <2>5, MoveProperties
  <2>7. c \notin Range(ls[SCHED_LV_MAX])
    BY <1>1, <2>1, <2>2, <2>4, ListIndexes DEF WellLinked
  <2>8. KeptOrder(ls, m, q, c) /\ AllKeptOrder(ls, m, SCHED_LV_MAX)
    BY <1>1, <2>4, <2>5, <2>7, MoveOrder
  <2>9. Range(ls[SCHED_LV_MAX]) \subseteq Range(m[SCHED_LV_MAX])
    BY <1>1, <2>6, <2>7 DEF Moved
  <2> QED BY <2>1, <2>6, <2>8, <2>9
<1> QED BY <1>2, <1>3


--------------------------------------------------------------------------------
(* Order through the steps *)

\* Only the task on the CPU gets behind others on a background queue, on the last level not
\* even that one, and who leaves the last level is terminal.
InOrder ==
    /\ \A q \in SCHED_LV_MIN .. SCHED_LV_MAX : KeptOrder(list, list', q, current_task)
    /\ AllKeptOrder(list, list', SCHED_LV_MAX)
    /\ \A x \in Range(list[SCHED_LV_MAX]) :
          x \in Range(list'[SCHED_LV_MAX]) \/ task'[x].state = S_TERMINAL

\* What the steps that move nodes know about the lists.
LEMMA ListsKnown ==
    ASSUME IInv
    PROVE  /\ list \in Lists /\ WellLinked(list) /\ task \in [Task -> TaskStruct]
           /\ current_task \in Task /\ Shell \in Task
           /\ current_task \in Range(list[task[current_task].sched_lv])
           /\ task[Shell].sched_lv = SCHED_LV0
           /\ \A q \in SCHED_LV_MIN .. SCHED_LV_MAX :
                 q \in List /\ q # SCHED_LV0 /\ q # WAIT /\ q # EXITED
                 /\ Shell \notin Range(list[q])
<1>1. /\ list \in Lists /\ WellLinked(list) /\ task \in [Task -> TaskStruct]
      /\ current_task \in Task /\ Shell \in Task
      /\ current_task \in Range(list[task[current_task].sched_lv])
      /\ task[Shell].sched_lv = SCHED_LV0
  BY DEF IInv, TypeOK, Lists, ListsMatchStates, CurrentRunnable, On, Foreground, Task
<1>2. ASSUME NEW q \in SCHED_LV_MIN .. SCHED_LV_MAX
      PROVE  q \in Level /\ q \in List /\ q # SCHED_LV0 /\ q # WAIT /\ q # EXITED
  BY ListIndexes
<1>3. \A q \in Level : Shell \in Range(list[q]) => task[Shell].sched_lv = q
  BY <1>1 DEF IInv, ListsMatchStates, On
<1> QED BY <1>1, <1>2, <1>3

LEMMA TickInOrder ==
    ASSUME IInv, Tick
    PROVE  InOrder
<1> DEFINE dead == Range(list[EXITED])
           ls   == [list EXCEPT ![EXITED] = << >>]
           tk   == [t \in Task |-> IF t \in dead THEN NoTask ELSE task[t]]
<1>1. list' = Requeued(ls, tk)
  BY DEF Tick
<1>2. /\ list \in Lists /\ WellLinked(list) /\ task \in [Task -> TaskStruct]
      /\ current_task \in Task
      /\ current_task \in Range(list[task[current_task].sched_lv])
      /\ \A q \in SCHED_LV_MIN .. SCHED_LV_MAX : q \in List /\ q # EXITED
  BY ListsKnown
<1>3. current_task \notin dead
  BY <1>2 DEF IInv, CurrentRunnable, ListsMatchStates, On
<1>4. \A q \in List : q # EXITED => ls[q] = list[q]
  BY <1>2 DEF Lists
<1>5. ls \in Lists /\ WellLinked(ls)
  <2>1. << >> \in Seq(Task) /\ Range(<< >>) = {} /\ IsInjective(<< >>)
    BY DEF Range, IsInjective
  <2>2. ls \in Lists /\ ls[EXITED] = << >>
    BY <1>2, <2>1, ListIndexes DEF Lists
  <2> HIDE DEF ls
  <2>3. \A q \in List : IsInjective(ls[q])
    BY <1>2, <1>4, <2>1, <2>2 DEF WellLinked
  <2>4. \A q, r \in List : q # r => Range(ls[q]) \cap Range(ls[r]) = {}
    BY <1>2, <1>4, <2>1, <2>2 DEF WellLinked
  <2> QED BY <2>2, <2>3, <2>4 DEF WellLinked
<1> HIDE DEF dead, ls
<1>6. tk \in [Task -> TaskStruct] /\ tk[current_task] = task[current_task]
  BY <1>2, <1>3, NoTaskStruct
<1>7. current_task \in Range(ls[tk[current_task].sched_lv])
  <2>1. task[current_task].sched_lv \in Level
    BY <1>2 DEF TaskStruct
  <2> QED BY <1>2, <1>4, <1>6, <2>1, ListIndexes
<1> HIDE DEF tk
<1>8. \A q \in SCHED_LV_MIN .. SCHED_LV_MAX :
         /\ KeptOrder(ls, list', q, current_task)
         /\ AllKeptOrder(ls, list', SCHED_LV_MAX)
         /\ Range(ls[SCHED_LV_MAX]) \subseteq Range(list'[SCHED_LV_MAX])
  BY <1>1, <1>2, <1>5, <1>6, <1>7, TurnOrder
<1>9. SCHED_LV_MAX \in SCHED_LV_MIN .. SCHED_LV_MAX
  BY ListIndexes DEF SCHED_LV_MIN
<1> QED BY <1>2, <1>4, <1>8, <1>9 DEF InOrder, KeptOrder, AllKeptOrder

LEMMA EnterSchedInOrder ==
    ASSUME IInv, EnterSched
    PROVE  InOrder
<1>1. /\ list \in Lists /\ \A q \in SCHED_LV_MIN .. SCHED_LV_MAX : q \in List
  BY ListsKnown
<1>2. /\ new \in Task /\ \A q \in List : new \notin Range(list[q])
  BY DEF EnterSched, ShellAt, IInv, ShellControl, On, Task
<1>3. PICK lv : list' = add_tail(list, lv, new)
  BY DEF EnterSched
<1>4. ASSUME NEW q \in List
      PROVE  AllKeptOrder(list, list', q) /\ Range(list[q]) \subseteq Range(list'[q])
  <2>1. PICK s \in Seq(Task), t \in Task : s = list[q] /\ t = new
    BY <1>1, <1>2 DEF Lists
  <2>2. list'[q] = s \/ list'[q] = Append(s, t)
    BY <1>1, <1>3, <2>1 DEF add_tail, Lists
  <2>3. Range(s) \subseteq Range(Append(s, t))
    <3>1. /\ Append(s, t) \in Seq(Task)
          /\ Len(Append(s, t)) = Len(s) + 1 /\ Len(s) \in Nat
          /\ \A i \in 1 .. Len(s) : Append(s, t)[i] = s[i]
      BY AppendProperties, LenProperties
    <3>2. DOMAIN s = 1 .. Len(s) /\ DOMAIN Append(s, t) = 1 .. Len(s) + 1
      BY <3>1, LenProperties
    <3> QED BY <3>1, <3>2 DEF Range
  <2>4. t \notin Range(s)
    BY <1>2, <2>1
  <2>5. ASSUME NEW x \in Range(s), NEW y, Ahead(Append(s, t), y, x)
        PROVE  Ahead(s, y, x)
    BY <2>4, <2>5, AppendOrder
  <2> QED BY <2>1, <2>2, <2>3, <2>5 DEF AllKeptOrder
<1>5. SCHED_LV_MAX \in List
  BY ListIndexes
<1> QED BY <1>1, <1>4, <1>5 DEF InOrder, KeptOrder, AllKeptOrder

LEMMA KillInOrder ==
    ASSUME IInv, NEW p \in Pids, Kill(p)
    PROVE  InOrder
<1>1. /\ list \in Lists /\ WellLinked(list) /\ task \in [Task -> TaskStruct]
      /\ \A q \in SCHED_LV_MIN .. SCHED_LV_MAX : q \in List /\ q # EXITED
      /\ SCHED_LV_MAX \in SCHED_LV_MIN .. SCHED_LV_MAX
  BY ListsKnown, ListIndexes DEF SCHED_LV_MIN
<1>2. PICK t : t = find_in_tasks(p)
  OBVIOUS
<1>3. t \in Task
  <2>1. find_in_tasks(p) # Null
    BY DEF Kill
  <2> QED BY <1>2, <2>1, FirstTaskProperties DEF find_in_tasks, IInv, TypeOK
<1>4. list' = add_tail(remove_sched(list, t), EXITED, t)
  BY <1>2 DEF Kill
<1>5. task'[t].state = S_TERMINAL
  <2>1. PICK x, m : x = S_TERMINAL /\ task' = [task EXCEPT ![t].state = x, ![t].mm = m]
    BY <1>2 DEF Kill
  <2> QED BY <1>1, <1>3, <2>1 DEF TaskStruct
<1>6. \A q \in SCHED_LV_MIN .. SCHED_LV_MAX : AllKeptOrder(list, list', q)
  BY <1>1, <1>3, <1>4, ListIndexes, MoveOrder
<1>7. Moved(list, list', t, EXITED)
  BY <1>1, <1>3, <1>4, ListIndexes, MoveProperties
<1>8. \A x \in Range(list[SCHED_LV_MAX]) : x = t \/ x \in Range(list'[SCHED_LV_MAX])
  BY <1>1, <1>7 DEF Moved
<1> QED BY <1>1, <1>5, <1>6, <1>8 DEF InOrder, KeptOrder, AllKeptOrder

LEMMA WaitSleepInOrder ==
    ASSUME IInv, WaitSleep
    PROVE  InOrder
<1> DEFINE tk == [task EXCEPT ![Shell].state = -newpid]
           m  == Requeued(list, tk)
<1>1. list' = add_tail(remove_sched(m, Shell), WAIT, Shell) /\ current_task = Shell
  BY DEF WaitSleep, ShellAt
<1>2. /\ list \in Lists /\ WellLinked(list) /\ task \in [Task -> TaskStruct] /\ Shell \in Task
      /\ task[Shell].sched_lv = SCHED_LV0
      /\ \A q \in SCHED_LV_MIN .. SCHED_LV_MAX :
            q \in List /\ q # WAIT /\ Shell \notin Range(list[q])
      /\ SCHED_LV_MAX \in SCHED_LV_MIN .. SCHED_LV_MAX
  BY ListsKnown, ListIndexes DEF SCHED_LV_MIN
<1>3. m = list
  <2>1. tk[Shell].sched_lv = SCHED_LV0
    BY <1>2 DEF TaskStruct
  <2> HIDE DEF tk
  <2> QED BY <1>1, <2>1 DEF Requeued, Preemptive, SCHED_LV0, SCHED_LV_MIN
<1> HIDE DEF m
<1>4. \A q \in SCHED_LV_MIN .. SCHED_LV_MAX : AllKeptOrder(list, list', q)
  BY <1>1, <1>2, <1>3, ListIndexes, MoveOrder
<1>5. Moved(list, list', Shell, WAIT)
  BY <1>1, <1>2, <1>3, ListIndexes, MoveProperties
<1>6. \A x \in Range(list[SCHED_LV_MAX]) : x \in Range(list'[SCHED_LV_MAX])
  BY <1>2, <1>5 DEF Moved
<1> QED BY <1>2, <1>4, <1>6 DEF InOrder, KeptOrder, AllKeptOrder

LEMMA ExitInOrder ==
    ASSUME IInv, Exit
    PROVE  InOrder
<1> DEFINE w  == Waiter
           tk == WokenTasks(w)
           ls == WokenList(w)
           m  == Requeued(ls, tk)
<1>1. /\ list' = add_tail(remove_sched(m, current_task), EXITED, current_task)
      /\ current_task \in Child
  BY DEF Exit, ChildRuns
<1>2. ls \in Lists /\ WellLinked(ls) /\ tk \in [Task -> TaskStruct] /\ Wakes(ls, tk)
  BY <1>1, WakesProperties
<1>3. /\ list \in Lists /\ WellLinked(list) /\ task \in [Task -> TaskStruct] /\ Shell \in Task
      /\ current_task \in Task /\ current_task \in Range(list[task[current_task].sched_lv])
      /\ task[Shell].sched_lv = SCHED_LV0
      /\ \A q \in SCHED_LV_MIN .. SCHED_LV_MAX :
            q \in List /\ q # SCHED_LV0 /\ q # EXITED /\ Shell \notin Range(list[q])
      /\ SCHED_LV_MAX \in SCHED_LV_MIN .. SCHED_LV_MAX
      /\ current_task # Shell
  BY <1>1, ListsKnown, ListIndexes, PcAssumption DEF SCHED_LV_MIN
<1>4. \A q \in SCHED_LV_MIN .. SCHED_LV_MAX :
         AllKeptOrder(list, ls, q) /\ Range(ls[q]) = Range(list[q])
  <2>1. CASE ls = list
    BY <2>1 DEF AllKeptOrder
  <2>2. CASE ls # list
    <3>1. w = Shell
      <4>1. w # Null
        BY <2>2 DEF WokenList
      <4>2. w \in Range(list[WAIT])
        <5> DEFINE W == { t \in Task : /\ task[t].pid = task[current_task].parent
                                       /\ task[t].state = -task[current_task].pid }
        <5>1. w = First(list[WAIT], W) /\ list[WAIT] \in Seq(Task)
          BY <1>3, ListIndexes DEF Waiter, Lists
        <5> HIDE DEF w, W
        <5> QED BY <4>1, <5>1, FirstProperties
      <4>3. /\ task[Shell].state < 0 => list[WAIT] = <<Shell>>
            /\ ~(task[Shell].state < 0) => list[WAIT] = << >>
        BY DEF IInv, Foreground
      <4>4. Range(<< >>) = {} /\ Range(<<Shell>>) = {Shell}
        BY DEF Range
      <4> QED BY <4>2, <4>3, <4>4
    <3>2. ls = add_tail(remove_sched(list, Shell), SCHED_LV0, Shell)
      BY <1>3, <2>2, <3>1 DEF WokenList
    <3> HIDE DEF ls
    <3>3. Moved(list, ls, Shell, SCHED_LV0)
      BY <1>3, <3>2, ListIndexes, MoveProperties
    <3>4. SCHED_LV0 \in List
      BY ListIndexes
    <3>5. ASSUME NEW q \in SCHED_LV_MIN .. SCHED_LV_MAX
          PROVE  AllKeptOrder(list, ls, q) /\ Range(ls[q]) = Range(list[q])
      <4>1. q \in List /\ q # SCHED_LV0 /\ Shell \notin Range(list[q])
        BY <1>3
      <4>2. AllKeptOrder(list, ls, q)
        BY <1>3, <3>2, <3>4, <4>1, MoveOrder
      <4> QED BY <3>3, <4>1, <4>2 DEF Moved
    <3> QED BY <3>5
  <2> QED BY <2>1, <2>2
<1>5. current_task \in Range(ls[tk[current_task].sched_lv])
  <2>1. task[current_task].sched_lv \in List
    BY <1>3, ListIndexes DEF TaskStruct
  <2>2. tk[current_task].sched_lv = task[current_task].sched_lv
    BY <1>2 DEF Wakes
  <2> QED BY <1>2, <1>3, <2>1, <2>2 DEF Wakes
<1>6. task'[current_task].state = S_TERMINAL
  <2>1. task' = Charged(tk)
    BY DEF Exit
  <2>2. tk[current_task].state = S_TERMINAL
    BY <1>2 DEF Wakes
  <2> HIDE DEF tk
  <2>3. PICK c \in Task : c = current_task
    BY <1>3
  <2>4. \A r \in TaskStruct : Pay(r).state = r.state
    BY DEF Pay, TaskStruct
  <2> QED BY <1>2, <2>1, <2>2, <2>3, <2>4 DEF Charged
<1> HIDE DEF w, tk, ls
<1>7. \A q \in SCHED_LV_MIN .. SCHED_LV_MAX :
         /\ KeptOrder(ls, m, q, current_task)
         /\ AllKeptOrder(ls, m, SCHED_LV_MAX)
         /\ Range(ls[SCHED_LV_MAX]) \subseteq Range(m[SCHED_LV_MAX])
         /\ m \in Lists /\ WellLinked(m)
  BY <1>2, <1>3, <1>5, TurnOrder
<1> HIDE DEF m
<1>8. /\ \A q \in SCHED_LV_MIN .. SCHED_LV_MAX : AllKeptOrder(m, list', q)
      /\ Moved(m, list', current_task, EXITED)
  BY <1>1, <1>3, <1>7, ListIndexes, MoveOrder, MoveProperties
<1>9. \A x \in Range(list[SCHED_LV_MAX]) :
         x = current_task \/ x \in Range(list'[SCHED_LV_MAX])
  BY <1>3, <1>4, <1>7, <1>8 DEF Moved
<1>10. ASSUME NEW q \in SCHED_LV_MIN .. SCHED_LV_MAX, NEW x \in Range(list[q]), NEW y,
              Ahead(list'[q], y, x), x # current_task
       PROVE  Ahead(list[q], y, x)
  <2>1. x \in Range(ls[q])
    BY <1>4
  <2>2. CASE x \in Range(m[q])
    BY <1>4, <1>7, <1>8, <1>10, <2>1, <2>2 DEF KeptOrder, AllKeptOrder
  <2>3. CASE x \notin Range(m[q])
    <3>1. x \notin Range(list'[q])
      BY <1>3, <1>8, <2>3 DEF Moved
    <3> QED BY <1>10, <3>1 DEF Ahead, Range
  <2> QED BY <2>2, <2>3
<1>11. ASSUME NEW y, current_task \in Range(list[SCHED_LV_MAX]),
              Ahead(list'[SCHED_LV_MAX], y, current_task)
       PROVE  FALSE
  <2>1. current_task \notin Range(list'[SCHED_LV_MAX])
    BY <1>3, <1>8 DEF Moved
  <2> QED BY <1>11, <2>1 DEF Ahead, Range
<1> QED BY <1>3, <1>6, <1>9, <1>10, <1>11 DEF InOrder, KeptOrder, AllKeptOrder

LEMMA StepInOrder ==
    ASSUME IInv, [Next]_vars
    PROVE  InOrder
<1>1. CASE UNCHANGED list
  BY <1>1 DEF InOrder, KeptOrder, AllKeptOrder
<1>2. CASE Tick \/ EnterSched \/ WaitSleep \/ Exit
  BY <1>2, TickInOrder, EnterSchedInOrder, WaitSleepInOrder, ExitInOrder
<1>3. CASE \E p \in Pids : Kill(p)
  BY <1>3, KillInOrder
<1>4. CASE \/ \E p \in 0 .. PID_CAP : PidAlloc(p)
           \/ PidAllocFails \/ PidAllocStore \/ KmallocFails \/ PidFreeStore
           \/ \E t \in Child, mm \in {"null", "live"} : FillTask(t, mm)
           \/ \E is_wait \in BOOLEAN : SetReady(is_wait)
           \/ WaitCheck \/ ExitMm \/ \E p \in Pids : KillNull(p)
           \/ UNCHANGED vars
  BY <1>1, <1>4 DEF PidAlloc, PidAllocFails, PidAllocStore, KmallocFails, PidFreeStore,
     FillTask, SetReady, WaitCheck, ExitMm, KillNull, vars
<1> QED BY <1>2, <1>3, <1>4 DEF Next, CreateStep

--------------------------------------------------------------------------------
(* Theorems *)

\* No task overtakes another on a background queue (find_next_task, list_add_tail).
THEOREM OrderCorrect == Spec => NoOvertaking
<1>1. IInv /\ [Next]_vars =>
         \A q \in SCHED_LV_MIN .. SCHED_LV_MAX :
            \A x \in Range(list[q]) \ {current_task}, y \in Range(list'[q]) :
               Ahead(list'[q], y, x) => Ahead(list[q], y, x)
  BY StepInOrder DEF InOrder, KeptOrder
<1> QED BY <1>1, Invariant, PTL DEF Spec, NoOvertaking

\* The head of the last level keeps its place until it is terminal (find_in_sched_back).
THEOREM LastLevelCorrect == Spec => LastLevelFifo
<1>1. IInv /\ IInv' /\ [Next]_vars =>
         LET q == list[SCHED_LV_MAX]
         IN  q # <<>> => \/ list'[SCHED_LV_MAX] # <<>> /\ Head(list'[SCHED_LV_MAX]) = Head(q)
                         \/ task'[Head(q)].state = S_TERMINAL
  <2> SUFFICES ASSUME IInv, IInv', [Next]_vars, list[SCHED_LV_MAX] # << >>,
                      task'[Head(list[SCHED_LV_MAX])].state # S_TERMINAL
               PROVE  /\ list'[SCHED_LV_MAX] # << >>
                      /\ Head(list'[SCHED_LV_MAX]) = Head(list[SCHED_LV_MAX])
    OBVIOUS
  <2>1. InOrder
    BY StepInOrder
  <2>2. /\ list[SCHED_LV_MAX] \in Seq(Task) /\ IsInjective(list[SCHED_LV_MAX])
        /\ list'[SCHED_LV_MAX] \in Seq(Task) /\ IsInjective(list'[SCHED_LV_MAX])
    <3>1. SCHED_LV_MAX \in List
      BY PcAssumption DEF List, Level
    <3>2. list[SCHED_LV_MAX] \in Seq(Task) /\ IsInjective(list[SCHED_LV_MAX])
      BY <3>1 DEF IInv, TypeOK, ListsMatchStates, WellLinked
    <3>3. list'[SCHED_LV_MAX] \in Seq(Task) /\ IsInjective(list'[SCHED_LV_MAX])
      BY <3>1 DEF IInv, TypeOK, ListsMatchStates, WellLinked
    <3> QED BY <3>2, <3>3
  <2>3. PICK s \in Seq(Task), r \in Seq(Task) :
           s = list[SCHED_LV_MAX] /\ r = list'[SCHED_LV_MAX]
    BY <2>2
  <2>4. Head(s) \in Range(s)
    BY <2>2, <2>3, TailRange
  <2>5. Head(s) \in Range(r)
    BY <2>1, <2>3, <2>4 DEF InOrder
  <2>6. \A y : ~Ahead(r, y, Head(s))
    BY <2>1, <2>2, <2>3, <2>4, HeadOrder DEF InOrder, AllKeptOrder
  <2> QED BY <2>2, <2>3, <2>5, <2>6, HeadOrder
<1> QED BY <1>1, Invariant, PTL DEF Spec, LastLevelFifo
================================================================================

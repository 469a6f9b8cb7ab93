---------------------------------- MODULE Pid ----------------------------------
(****************************************************************************)
(* The pid bitmap of kernel/pc/pid.c: pid_alloc scans from next_pid for a   *)
(* clear bit, pid_free clears one.  Neither disables interrupts, so a read- *)
(* modify-write of a byte of the bitmap is two steps here when its caller   *)
(* runs with interrupts enabled: a load (pid_load) and a store.  The module *)
(* has no specification of its own; Pc composes these steps with processes. *)
(****************************************************************************)
EXTENDS Integers

CONSTANTS
    PID_NUM,   \* number of pids in the bitmap (256 in pid.h)
    PID_CAP,   \* bound of the model: no pid above it is handed out
    BYTE       \* bits per element of pidmap (8)

ASSUME PidAssumption ==
    /\ PID_NUM \in Nat /\ PID_NUM > 1
    /\ PID_CAP \in Nat /\ PID_CAP >= PID_NUM - 1
    /\ BYTE \in Nat \ {0}

VARIABLES
    pidmap,    \* the pids whose bit is set
    next_pid   \* where the next scan starts

IDLE_PID == 0
INIT_PID == 1
Pids == 0 .. PID_NUM - 1

PidTypeOK == pidmap \subseteq Pids /\ next_pid \in 0 .. PID_CAP + 1

\* The byte of the bitmap that holds pid p.  next_pid is not reduced modulo
\* PID_NUM, so p may lie beyond the bitmap; it then has no bit in Pids.
Byte(p) == { q \in Pids : q \div BYTE = p \div BYTE }
pid_load(p) == pidmap \cap Byte(p)

\* A bit past the end of pidmap belongs to some other object: it reads as
\* either value.
MayBeSet(p)   == p \in Pids => p \in pidmap
MayBeClear(p) == p \notin pidmap

\* tmp after i turns of pid_alloc's loop.
Scan(i) == IF i = 0 THEN next_pid ELSE (next_pid + i) % PID_NUM

\* The scan of pid_alloc stops at p, its first clear bit.
pid_scan(p) ==
    \E i \in 0 .. PID_NUM - 1 :
        /\ p = Scan(i)
        /\ MayBeClear(p)
        /\ \A j \in 0 .. i - 1 : MayBeSet(Scan(j))

\* i = PID_NUM: every bit the scan visits is set.
pid_scan_fails == \A i \in 0 .. PID_NUM - 1 : MayBeSet(Scan(i))

\* Mutant: the bit of p is not set.
pid_store_NoBit(p, byte) ==
    /\ pidmap' = (pidmap \ Byte(p)) \cup byte
    /\ next_pid' = p + 1

\* The store of pidmap[index] |= 1 << off, with the byte as it was loaded,
\* and the new start of the scan.
pid_store(p, byte) ==
    /\ pidmap' = (pidmap \ Byte(p)) \cup byte \cup (Pids \cap {p})
    /\ next_pid' = p + 1

pid_check(p) == p < PID_NUM /\ p \in pidmap

\* pid_free with interrupts disabled.  It ignores a pid that is not allocated.
pid_free(p) ==
    /\ pidmap' = IF pid_check(p) THEN pidmap \ {p} ELSE pidmap
    /\ UNCHANGED next_pid

\* Mutant: the mask is not inverted.
pid_free_store_Mask(p, byte) ==
    /\ pidmap' = (pidmap \ Byte(p)) \cup (byte \cap {p})
    /\ UNCHANGED next_pid

\* The store of pid_free when its load was a separate step.
pid_free_store(p, byte) ==
    /\ pidmap' = (pidmap \ Byte(p)) \cup (byte \ {p})
    /\ UNCHANGED next_pid
================================================================================

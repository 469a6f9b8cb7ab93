---------------------------------- MODULE Ps2 ----------------------------------
(****************************************************************************)
(* The keys on their way from the keyboard to a program                     *)
(* (kernel/driver/ps2.c): the ring that ps2_handler fills and kernel_getkey *)
(* empties, for kernel_getchar of the shell and of a program that runs      *)
(* beside it.                                                               *)
(*                                                                          *)
(* The handler is an interrupt: it comes between any two steps of a reader  *)
(* and is never interrupted.  A step of a reader is one access to what they *)
(* share.  Keys are numbers in the order they are pressed, once for all the *)
(* codes of a key that are not stored; the state of the shift keys is left  *)
(* out.                                                                     *)
(****************************************************************************)
EXTENDS Naturals, Sequences

CONSTANTS
    RING,           \* entries of the ring: 32
    Reader,         \* who calls kernel_getchar
    MaxKeys         \* bound: keys pressed

ASSUME Ps2Assumption == RING \in Nat \ {0} /\ MaxKeys \in Nat

VARIABLES
    buffer, ready, buffer_wptr, buffer_rptr,
    reader,         \* of each reader: at, the key in its hand (temp), where init_buffer is (i)
    pressed,        \* how many keys were
    got,            \* the keys that readers returned, in order
    overrun,        \* was an unread key overwritten, or the ring written while it was reset?
    dropped         \* did a reset drop unread keys?

vars == <<buffer, ready, buffer_wptr, buffer_rptr, reader, pressed, got, overrun, dropped>>

Slot == 0 .. RING - 1

Init ==
    /\ buffer = [s \in Slot |-> 0] /\ ready = [s \in Slot |-> FALSE]
    /\ buffer_wptr = 0 /\ buffer_rptr = 0
    /\ reader = [r \in Reader |-> [at |-> "test", temp |-> 0, i |-> 0]]
    /\ pressed = 0 /\ got = <<>>
    /\ overrun = FALSE /\ dropped = FALSE

Resetting == \E r \in Reader : reader[r].at \in {"clear_all", "wptr", "rptr"}

--------------------------------------------------------------------------------
(* The interrupt *)

\* Mutant: the place is taken whether or not the key is kept in it.
ps2_handler_FullStops ==
    /\ pressed < MaxKeys
    /\ pressed' = pressed + 1
    /\ buffer' = IF ready[buffer_wptr] THEN buffer ELSE [buffer EXCEPT ![buffer_wptr] = pressed + 1]
    /\ ready' = [ready EXCEPT ![buffer_wptr] = TRUE]
    /\ buffer_wptr' = (buffer_wptr + 1) % RING
    /\ overrun' = (overrun \/ Resetting)
    /\ UNCHANGED <<buffer_rptr, reader, got, dropped>>

\* Nobody looks whether the entry was read.
ps2_handler ==
    /\ pressed < MaxKeys
    /\ pressed' = pressed + 1
    /\ buffer' = [buffer EXCEPT ![buffer_wptr] = pressed + 1]
    /\ ready' = [ready EXCEPT ![buffer_wptr] = TRUE]
    /\ buffer_wptr' = (buffer_wptr + 1) % RING
    /\ overrun' = (overrun \/ ready[buffer_wptr] \/ Resetting)
    /\ UNCHANGED <<buffer_rptr, reader, got, dropped>>

--------------------------------------------------------------------------------
(* kernel_getkey, which kernel_getchar calls until there is a key *)

At(r, label) == reader[r].at = label
Goto(r, label) == reader' = [reader EXCEPT ![r].at = label]

Test(r) ==
    /\ At(r, "test") /\ buffer_rptr \in Slot /\ ready[buffer_rptr]
    /\ Goto(r, "take")
    /\ UNCHANGED <<buffer, ready, buffer_wptr, buffer_rptr, pressed, got, overrun, dropped>>

Take(r) ==
    /\ At(r, "take")
    /\ reader' = [reader EXCEPT ![r].at = "clear", ![r].temp = buffer[buffer_rptr]]
    /\ UNCHANGED <<buffer, ready, buffer_wptr, buffer_rptr, pressed, got, overrun, dropped>>

Clear(r) ==
    /\ At(r, "clear")
    /\ ready' = [ready EXCEPT ![buffer_rptr] = FALSE]
    /\ Goto(r, "advance")
    /\ UNCHANGED <<buffer, buffer_wptr, buffer_rptr, pressed, got, overrun, dropped>>

Advance(r) ==
    /\ At(r, "advance")
    /\ buffer_rptr' = buffer_rptr + 1
    /\ Goto(r, "check")
    /\ UNCHANGED <<buffer, ready, buffer_wptr, pressed, got, overrun, dropped>>

\* The key in hand is returned, and the reader comes back for the next.
Return(r) ==
    /\ reader' = [reader EXCEPT ![r] = [at |-> "test", temp |-> 0, i |-> 0]]
    /\ got' = Append(got, reader[r].temp)

\* Mutant: the reset comes one entry late.
Check_Late(r) ==
    /\ At(r, "check")
    /\ IF buffer_rptr = RING + 1 THEN Goto(r, "clear_all") /\ UNCHANGED got ELSE Return(r)
    /\ UNCHANGED <<buffer, ready, buffer_wptr, buffer_rptr, pressed, overrun, dropped>>

Check(r) ==
    /\ At(r, "check")
    /\ IF buffer_rptr = RING THEN Goto(r, "clear_all") /\ UNCHANGED got ELSE Return(r)
    /\ UNCHANGED <<buffer, ready, buffer_wptr, buffer_rptr, pressed, overrun, dropped>>

\* init_buffer: entry by entry, then both pointers.
ClearEntry(r) ==
    /\ At(r, "clear_all")
    /\ LET i == reader[r].i
       IN  /\ buffer' = [buffer EXCEPT ![i] = 0] /\ ready' = [ready EXCEPT ![i] = FALSE]
           /\ dropped' = (dropped \/ ready[i])
           /\ reader' = [reader EXCEPT ![r].i = i + 1, ![r].at = IF i + 1 = RING THEN "wptr" ELSE @]
    /\ UNCHANGED <<buffer_wptr, buffer_rptr, pressed, got, overrun>>

\* Mutant: the handler goes on where it was.
ResetWptr_Not(r) ==
    /\ At(r, "wptr")
    /\ Goto(r, "rptr")
    /\ UNCHANGED <<buffer, ready, buffer_wptr, buffer_rptr, pressed, got, overrun, dropped>>

ResetWptr(r) ==
    /\ At(r, "wptr")
    /\ buffer_wptr' = 0
    /\ Goto(r, "rptr")
    /\ UNCHANGED <<buffer, ready, buffer_rptr, pressed, got, overrun, dropped>>

ResetRptr(r) ==
    /\ At(r, "rptr")
    /\ buffer_rptr' = 0
    /\ Return(r)
    /\ UNCHANGED <<buffer, ready, buffer_wptr, pressed, overrun, dropped>>

kernel_getkey(r) ==
    Test(r) \/ Take(r) \/ Clear(r) \/ Advance(r) \/ Check(r)
      \/ ClearEntry(r) \/ ResetWptr(r) \/ ResetRptr(r)

Next == ps2_handler \/ \E r \in Reader : kernel_getkey(r)

Spec == Init /\ [][Next]_vars

\* A reader polls until it has a key, and its process gets the CPU again and again.
FairSpec == Spec /\ \A r \in Reader : WF_vars(kernel_getkey(r))

--------------------------------------------------------------------------------
(* Properties *)

\* The variables have their types; the read pointer leaves the ring only to be reset.
TypeOK ==
    /\ buffer \in [Slot -> 0 .. MaxKeys] /\ ready \in [Slot -> BOOLEAN]
    /\ buffer_wptr \in Slot /\ buffer_rptr \in 0 .. RING
    /\ buffer_rptr = RING => Resetting \/ \E r \in Reader : At(r, "check")

\* The keys in the hands of readers, the entries with unread keys, and how far an entry is
\* from where the next key is read.
Taken == { reader[r].temp : r \in Reader } \ {0}
Unread == { s \in Slot : ready[s] /\ buffer[s] \notin Taken }
From == buffer_rptr + (IF \E r \in Reader : At(r, "advance") THEN 1 ELSE 0)
Ahead(s) == IF s >= From THEN s - From ELSE s + RING - From

\* As long as the handler writes over no unread key and not into a reset, the keys are
\* returned in the order they were pressed; and all of them, unless a reset finds some
\* that were not read (ps2.c:149, 208).
FirstInFirstOut ==
    LET waiting == { buffer[s] : s \in Unread }
        returned == { got[i] : i \in DOMAIN got }
    IN  ~overrun =>
          /\ \A i, j \in DOMAIN got : i < j => got[i] < got[j]
          /\ \A k \in returned, l \in Taken \cup waiting : k < l
          /\ \A k \in Taken, l \in waiting : k < l
          /\ \A s, t \in Unread : Ahead(s) < Ahead(t) => buffer[s] < buffer[t]
          /\ ~dropped => 1 .. pressed = returned \cup Taken \cup waiting

\* The ring and what is in it (ps2.c:149, 207).
Ps2Inv == TypeOK /\ FirstInFirstOut

\* As long as that is so, a key does not stay in the ring for ever (ps2.c:199).
KeysAreRead ==
    \A k \in 1 .. MaxKeys :
        (\E s \in Slot : ready[s] /\ buffer[s] = k)
            ~> (overrun \/ ~\E s \in Slot : ready[s] /\ buffer[s] = k)
================================================================================

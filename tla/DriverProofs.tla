------------------------------ MODULE DriverProofs ------------------------------
(****************************************************************************)
(* The drivers.  Of the keyboard: keys come in order, and none is lost      *)
(* without notice, for one reader, a ring of any length and any number of   *)
(* keys.  Of the FAT32 file system: the chains of the files stay whole and  *)
(* apart, and the files not in use are on the disk, for any number of       *)
(* files, clusters and buffers, as long as clusters are erased in place.    *)
(****************************************************************************)
EXTENDS Ps2, Fat, SequenceFacts, FiniteSetTheorems

--------------------------------------------------------------------------------
(* The keyboard *)

Labels == {"test", "take", "clear", "advance", "check", "clear_all", "wptr", "rptr"}
Resets == {"clear_all", "wptr", "rptr"}
Key == 0 .. MaxKeys

--------------------------------------------------------------------------------
(* The inductive invariant, for reader r *)

Typed ==
    /\ buffer \in [Slot -> Key] /\ ready \in [Slot -> BOOLEAN]
    /\ buffer_wptr \in Slot /\ buffer_rptr \in 0 .. RING
    /\ reader \in [Reader -> [at : Labels, temp : Key, i : 0 .. RING]]
    /\ pressed \in Key /\ got \in Seq(Key)
    /\ overrun \in BOOLEAN /\ dropped \in BOOLEAN

\* What the locals of the reader are worth at each point.
Control(r) ==
    LET at == reader[r].at
        i  == reader[r].i
    IN  /\ at \in Resets => buffer_rptr = RING
        /\ buffer_rptr = RING => at \in Resets \cup {"check"}
        /\ at \notin Resets => i = 0
        /\ at = "clear_all" => i < RING
        /\ at \in {"wptr", "rptr"} => i = RING
        /\ at \in {"test", "take"} => reader[r].temp = 0
        /\ at \in {"take", "clear"} => ready[buffer_rptr]

\* The entry from which unread keys are counted, and the reader has passed.
Next0(r) == buffer_rptr + (IF reader[r].at = "advance" THEN 1 ELSE 0)
Start(r) == IF Next0(r) = RING THEN 0 ELSE Next0(r)
Distance(from, s) == IF s >= from THEN s - from ELSE s + RING - from

\* A key was taken out of the ring and is not yet returned.
InHand(r) == reader[r].at \in Resets \cup {"advance", "check"}

\* The last n keys are in the ring, in order, from where the reader is; in a reset, as far
\* as it has not come.  Those before are returned or in hand, or a reset has dropped them.
Ordered(r, n) ==
    LET from == Start(r)
        temp == reader[r].temp
    IN  /\ n <= pressed
        /\ reader[r].at # "wptr" =>
              buffer_wptr = IF from + n >= RING THEN from + n - RING ELSE from + n
        /\ reader[r].at = "rptr" => n = 0
        /\ \A s \in Slot : ready[s] <=> Distance(from, s) < n /\ s >= reader[r].i
        /\ \A s \in Slot : ready[s] => buffer[s] = pressed - n + 1 + Distance(from, s)
        /\ reader[r].at = "clear" => temp = pressed - n + 1
        /\ InHand(r) => temp > 0 /\ temp <= pressed - n
        /\ \A k \in DOMAIN got : /\ got[k] > 0 /\ got[k] <= pressed - n
                                 /\ InHand(r) => got[k] < temp
        /\ \A j, k \in DOMAIN got : j < k => got[j] < got[k]
        /\ ~dropped => /\ n = 0 \/ reader[r].i = 0
                       /\ \A k \in 1 .. pressed - n : \/ \E j \in DOMAIN got : got[j] = k
                                                      \/ InHand(r) /\ temp = k

IInv(r) ==
    /\ Typed /\ Control(r)
    /\ ~overrun => \E n \in 0 .. RING : Ordered(r, n)

--------------------------------------------------------------------------------
(* The steps *)

LEMMA NextPlace ==
    ASSUME NEW w \in Slot
    PROVE  /\ (w + 1) % RING = IF w + 1 = RING THEN 0 ELSE w + 1
           /\ (w + 1) % RING \in Slot
<1>1. RING \in Nat \ {0} /\ w \in Nat /\ w < RING
  BY Ps2Assumption DEF Slot
<1>2. CASE w + 1 = RING
  <2>1. (1 * RING + 0) % RING = 0
    BY <1>1, PlaceOf
  <2> QED BY <1>1, <1>2, <2>1 DEF Slot
<1>3. CASE w + 1 # RING
  <2>1. (0 * RING + (w + 1)) % RING = w + 1
    BY <1>1, <1>3, PlaceOf
  <2> QED BY <1>1, <1>3, <2>1 DEF Slot
<1> QED BY <1>2, <1>3

LEMMA HandlerStep ==
    ASSUME NEW r, Reader = {r}, IInv(r), ps2_handler
    PROVE  IInv(r)'
<1>1. RING \in Nat \ {0} /\ MaxKeys \in Nat
  BY Ps2Assumption
<1>2. /\ Typed /\ Control(r)
  BY DEF IInv
<1>3. /\ buffer' = [buffer EXCEPT ![buffer_wptr] = pressed + 1]
      /\ ready' = [ready EXCEPT ![buffer_wptr] = TRUE]
      /\ buffer_wptr' = (buffer_wptr + 1) % RING
      /\ overrun' = (overrun \/ ready[buffer_wptr] \/ Resetting)
      /\ pressed < MaxKeys /\ pressed' = pressed + 1
      /\ buffer_rptr' = buffer_rptr /\ reader' = reader /\ got' = got /\ dropped' = dropped
  BY DEF ps2_handler
<1>4. /\ (buffer_wptr + 1) % RING = IF buffer_wptr + 1 = RING THEN 0 ELSE buffer_wptr + 1
      /\ (buffer_wptr + 1) % RING \in Slot
  BY <1>2, NextPlace DEF Typed
<1>5. Typed'
  BY <1>1, <1>2, <1>3, <1>4 DEF Typed, Key
<1>6. Control(r)'
  BY <1>2, <1>3 DEF Control, Typed
<1>7. ASSUME ~overrun'  PROVE \E n \in 0 .. RING : Ordered(r, n)'
  <2>1. ~overrun /\ ~ready[buffer_wptr] /\ reader[r].at \notin Resets
    BY <1>2, <1>3, <1>7 DEF Resetting, Typed, Resets
  <2>2. PICK n \in 0 .. RING : Ordered(r, n)
    BY <2>1 DEF IInv
  <2> DEFINE from == Start(r)
             w == buffer_wptr
  <2>3. /\ n <= pressed /\ w = IF from + n >= RING THEN from + n - RING ELSE from + n
        /\ \A s \in Slot : ready[s] <=> Distance(from, s) < n
        /\ \A s \in Slot : ready[s] => buffer[s] = pressed - n + 1 + Distance(from, s)
        /\ reader[r].i = 0
    BY <1>2, <2>1, <2>2 DEF Ordered, Control, Resets, Slot
  <2>4. w \in Slot /\ from \in Slot /\ pressed \in Nat
    BY <1>1, <1>2 DEF Typed, Control, Start, Next0, Slot, Key, Resets
  <2>5. n < RING /\ Distance(from, w) = n
    <3>1. ~(Distance(from, w) < n) /\ RING \in Nat /\ n \in 0 .. RING
      BY <1>1, <2>1, <2>3, <2>4
    <3>2. /\ from \in 0 .. RING - 1 /\ w \in 0 .. RING - 1
          /\ w = IF from + n >= RING THEN from + n - RING ELSE from + n
      BY <2>3, <2>4 DEF Slot
    <3> HIDE DEF from, w
    <3> QED BY <3>1, <3>2 DEF Distance
  <2>6. \A s \in Slot : s # w => Distance(from, s) # n
    BY <1>1, <2>3, <2>4, <2>5 DEF Distance, Slot
  <2>7. \A s \in Slot : Distance(from, s) \in Nat
    BY <1>1, <2>4 DEF Distance, Slot
  <2>8. Start(r)' = from /\ InHand(r)' = InHand(r)
    BY <1>3 DEF Start, Next0, InHand
  <2> HIDE DEF from
  <2>9. ASSUME NEW s \in Slot
        PROVE  /\ ready'[s] <=> Distance(from, s) < n + 1
               /\ ready'[s] => buffer'[s] = pressed - n + 1 + Distance(from, s)
    <3>1. n \in Nat /\ Distance(from, s) \in Nat /\ pressed \in Nat
      BY <2>4, <2>7
    <3>2. CASE s = w
      <4>1. ready'[s] /\ buffer'[s] = pressed + 1
        BY <1>2, <1>3, <2>4, <3>2 DEF Typed
      <4>2. Distance(from, s) = n /\ n < n + 1 /\ pressed + 1 = pressed - n + 1 + n
        BY <2>5, <3>1, <3>2
      <4> QED BY <4>1, <4>2
    <3>3. CASE s # w
      <4>1. ready'[s] = ready[s] /\ buffer'[s] = buffer[s] /\ Distance(from, s) # n
        BY <1>2, <1>3, <2>4, <2>6, <3>3 DEF Typed
      <4>2. ready[s] <=> Distance(from, s) < n
        BY <2>3
      <4>3. ready[s] => buffer[s] = pressed - n + 1 + Distance(from, s)
        BY <2>3
      <4>4. Distance(from, s) < n + 1 <=> Distance(from, s) < n
        BY <3>1, <4>1
      <4>5. ready'[s] <=> Distance(from, s) < n + 1
        BY <4>1, <4>2, <4>4
      <4> QED BY <4>1, <4>3, <4>5
    <3> QED BY <3>2, <3>3
  <2>10. buffer_wptr' = IF from + (n + 1) >= RING THEN from + (n + 1) - RING ELSE from + (n + 1)
    BY <1>1, <1>3, <1>4, <2>3, <2>4, <2>5 DEF Slot
  <2>11. pressed' - (n + 1) = pressed - n
    BY <1>3, <2>4
  <2>12. Ordered(r, n + 1)'
    <3>1. /\ reader[r].at = "clear" => reader[r].temp = pressed - n + 1
          /\ InHand(r) => reader[r].temp > 0 /\ reader[r].temp <= pressed - n
          /\ \A k \in DOMAIN got : /\ got[k] > 0 /\ got[k] <= pressed - n
                                   /\ InHand(r) => got[k] < reader[r].temp
          /\ \A j, k \in DOMAIN got : j < k => got[j] < got[k]
          /\ ~dropped => /\ n = 0 \/ reader[r].i = 0
                         /\ \A k \in 1 .. pressed - n : \/ \E j \in DOMAIN got : got[j] = k
                                                        \/ InHand(r) /\ reader[r].temp = k
      BY <2>2 DEF Ordered
    <3>2. n + 1 <= pressed'
      BY <1>3, <2>3, <2>4
    <3>3. /\ reader' = reader /\ got' = got /\ dropped' = dropped /\ reader[r].i = 0
          /\ reader[r].at # "wptr" /\ reader[r].at # "rptr"
      BY <1>3, <2>1, <2>3 DEF Resets
    <3>4. \A s \in Slot : ready'[s] <=> Distance(from, s) < n + 1 /\ s >= reader[r].i
      BY <1>1, <2>9, <3>3 DEF Slot
    <3> QED BY <2>8, <2>9, <2>10, <2>11, <3>1, <3>2, <3>3, <3>4 DEF Ordered
  <2> QED BY <2>5, <2>12, <1>1
<1> QED BY <1>5, <1>6, <1>7 DEF IInv


\* The reader's locals, one step later.
LEMMA ReaderNext ==
    ASSUME NEW r, Reader = {r}, Typed, NEW label \in Labels, Goto(r, label)
    PROVE  /\ reader' \in [Reader -> [at : Labels, temp : Key, i : 0 .. RING]]
           /\ reader'[r].at = label /\ reader'[r].temp = reader[r].temp
           /\ reader'[r].i = reader[r].i
BY DEF Goto, Typed

LEMMA TestStep ==
    ASSUME NEW r, Reader = {r}, IInv(r), Test(r)
    PROVE  IInv(r)'
<1>1. /\ reader[r].at = "test" /\ ready[buffer_rptr] /\ Goto(r, "take")
      /\ UNCHANGED <<buffer, ready, buffer_wptr, buffer_rptr, pressed, got, overrun, dropped>>
      /\ Typed /\ Control(r)
  BY DEF Test, At, IInv
<1>2. /\ reader' \in [Reader -> [at : Labels, temp : Key, i : 0 .. RING]]
      /\ reader'[r].at = "take" /\ reader'[r].temp = reader[r].temp
      /\ reader'[r].i = reader[r].i
  BY <1>1, ReaderNext DEF Labels
<1>3. Typed' /\ Control(r)'
  BY <1>1, <1>2 DEF Typed, Control, Resets
<1>4. ASSUME NEW n \in 0 .. RING, Ordered(r, n)  PROVE Ordered(r, n)'
  <2>1. Start(r)' = Start(r) /\ ~InHand(r) /\ ~InHand(r)'
    BY <1>1, <1>2 DEF Start, Next0, InHand, Resets
  <2> QED BY <1>1, <1>2, <1>4, <2>1 DEF Ordered
<1> QED BY <1>1, <1>3, <1>4 DEF IInv

LEMMA TakeStep ==
    ASSUME NEW r, Reader = {r}, IInv(r), Take(r)
    PROVE  IInv(r)'
<1>1. /\ reader[r].at = "take"
      /\ reader' = [reader EXCEPT ![r].at = "clear", ![r].temp = buffer[buffer_rptr]]
      /\ UNCHANGED <<buffer, ready, buffer_wptr, buffer_rptr, pressed, got, overrun, dropped>>
      /\ Typed /\ Control(r)
  BY DEF Take, At, IInv
<1>2. buffer_rptr \in Slot /\ buffer[buffer_rptr] \in Key /\ ready[buffer_rptr]
  BY <1>1, Ps2Assumption DEF Typed, Control, Slot, Resets
<1>3. /\ reader' \in [Reader -> [at : Labels, temp : Key, i : 0 .. RING]]
      /\ reader'[r].at = "clear" /\ reader'[r].temp = buffer[buffer_rptr]
      /\ reader'[r].i = reader[r].i
  BY <1>1, <1>2 DEF Typed, Labels
<1>4. Typed' /\ Control(r)'
  BY <1>1, <1>2, <1>3 DEF Typed, Control, Resets
<1>5. ASSUME NEW n \in 0 .. RING, Ordered(r, n)  PROVE Ordered(r, n)'
  <2>1. Start(r)' = Start(r) /\ ~InHand(r) /\ ~InHand(r)'
    BY <1>1, <1>3 DEF Start, Next0, InHand, Resets
  <2>2. Start(r) = buffer_rptr /\ Distance(buffer_rptr, buffer_rptr) = 0
    BY <1>1, <1>2, Ps2Assumption DEF Start, Next0, Slot, Distance
  <2>3. buffer[buffer_rptr] = pressed - n + 1 + 0
    BY <1>2, <1>5, <2>2 DEF Ordered
  <2>4. buffer[buffer_rptr] = pressed - n + 1
    BY <1>1, <2>3 DEF Typed, Key
  <2> QED BY <1>1, <1>3, <1>5, <2>1, <2>4 DEF Ordered
<1> QED BY <1>1, <1>4, <1>5 DEF IInv

LEMMA ClearStep ==
    ASSUME NEW r, Reader = {r}, IInv(r), Clear(r)
    PROVE  IInv(r)'
<1>1. /\ reader[r].at = "clear" /\ Goto(r, "advance")
      /\ ready' = [ready EXCEPT ![buffer_rptr] = FALSE]
      /\ UNCHANGED <<buffer, buffer_wptr, buffer_rptr, pressed, got, overrun, dropped>>
      /\ Typed /\ Control(r)
  BY DEF Clear, At, IInv
<1>2. /\ reader' \in [Reader -> [at : Labels, temp : Key, i : 0 .. RING]]
      /\ reader'[r].at = "advance" /\ reader'[r].temp = reader[r].temp
      /\ reader'[r].i = reader[r].i /\ reader[r].i = 0
  BY <1>1, ReaderNext DEF Labels, Control, Resets
<1>3. RING \in Nat \ {0} /\ buffer_rptr \in Slot /\ buffer_rptr \in Nat /\ ready[buffer_rptr]
  BY <1>1, Ps2Assumption DEF Typed, Control, Slot, Resets
<1>4. Typed' /\ Control(r)'
  BY <1>1, <1>2, <1>3 DEF Typed, Control, Resets, Slot
<1>5. ASSUME NEW n \in 0 .. RING, Ordered(r, n)
      PROVE  \E m \in 0 .. RING : Ordered(r, m)'
  <2> DEFINE from == Start(r)
             next == Start(r)'
             p == buffer_rptr
  <2>1. /\ from = p /\ next = IF p + 1 = RING THEN 0 ELSE p + 1
        /\ ~InHand(r) /\ InHand(r)'
    BY <1>1, <1>2, <1>3 DEF Start, Next0, Slot, InHand, Resets
  <2>2. /\ n <= pressed /\ buffer_wptr = IF p + n >= RING THEN p + n - RING ELSE p + n
        /\ reader[r].temp = pressed - n + 1
        /\ \A k \in DOMAIN got : got[k] > 0 /\ got[k] <= pressed - n
        /\ \A j, k \in DOMAIN got : j < k => got[j] < got[k]
        /\ ~dropped => \A k \in 1 .. pressed - n : \E j \in DOMAIN got : got[j] = k
    BY <1>1, <1>5, <2>1 DEF Ordered
  <2>3. ASSUME NEW s \in Slot
        PROVE  /\ ready[s] <=> Distance(p, s) < n
               /\ ready[s] => buffer[s] = pressed - n + 1 + Distance(p, s)
    BY <1>1, <1>2, <1>5, <2>1, <2>3 DEF Ordered, Slot
  <2>4. pressed \in Nat /\ n \in Nat /\ n <= RING /\ got \in Seq(Key)
    BY <1>1, <1>3 DEF Typed, Key
  <2>5. n > 0
    <3>1. Distance(p, p) = 0
      BY <1>3 DEF Distance
    <3> QED BY <1>3, <2>3, <2>4, <3>1
  <2> HIDE DEF from, next
  <2>6. ASSUME NEW s \in Slot
        PROVE  /\ Distance(p, s) \in Nat /\ Distance(next, s) \in Nat
               /\ s # p => Distance(p, s) = Distance(next, s) + 1
               /\ s = p => ~(Distance(next, s) < n - 1)
    BY <1>3, <2>1, <2>4 DEF Distance, Slot
  <2>7. ASSUME NEW s \in Slot
        PROVE  /\ ready'[s] <=> Distance(next, s) < n - 1
               /\ ready'[s] => buffer'[s] = pressed - n + 2 + Distance(next, s)
    <3>1. CASE s = p
      <4>1. ~ready'[s]
        BY <1>1, <1>3, <3>1 DEF Typed
      <4> QED BY <2>6, <3>1, <4>1
    <3>2. CASE s # p
      <4>1. ready'[s] = ready[s] /\ buffer'[s] = buffer[s]
        BY <1>1, <1>3, <3>2 DEF Typed
      <4>2. /\ Distance(p, s) < n <=> Distance(next, s) < n - 1
            /\ pressed - n + 1 + Distance(p, s) = pressed - n + 2 + Distance(next, s)
        BY <2>4, <2>6, <3>2
      <4> QED BY <2>3, <4>1, <4>2
    <3> QED BY <3>1, <3>2
  <2>8. /\ buffer_wptr = IF next + (n - 1) >= RING THEN next + (n - 1) - RING
                                                     ELSE next + (n - 1)
        /\ n - 1 \in 0 .. RING
        /\ pressed - (n - 1) = pressed - n + 1 /\ pressed - (n - 1) + 1 = pressed - n + 2
    BY <1>3, <2>1, <2>2, <2>4, <2>5 DEF Slot
  <2>9. /\ \A k \in DOMAIN got : /\ got[k] > 0 /\ got[k] <= pressed - n + 1
                                 /\ got[k] < reader[r].temp
        /\ reader[r].temp > 0 /\ reader[r].temp <= pressed - n + 1
    <3>1. \A k \in DOMAIN got : got[k] \in Nat
      <4>1. \A k \in DOMAIN got : got[k] \in Key
        BY <2>4
      <4>2. Key \subseteq Nat
        BY Ps2Assumption DEF Key
      <4> QED BY <4>1, <4>2
    <3> QED BY <2>2, <2>4, <3>1
  <2>10. ASSUME ~dropped, NEW k \in 1 .. pressed - n + 1
         PROVE  (\E j \in DOMAIN got : got[j] = k) \/ reader[r].temp = k
    <3>1. k \in 1 .. pressed - n \/ k = pressed - n + 1
      BY <2>4
    <3> QED BY <2>2, <2>10, <3>1
  <2>11. \A s \in Slot : s >= 0
    BY <1>3 DEF Slot
  <2>12. n - 1 <= pressed
    BY <2>2, <2>4
  <2>13. Ordered(r, n - 1)'
    BY <1>1, <1>2, <2>1, <2>2, <2>7, <2>8, <2>9, <2>10, <2>11, <2>12 DEF Ordered, from, next
  <2> QED BY <2>8, <2>13
<1> QED BY <1>1, <1>4, <1>5 DEF IInv


LEMMA AdvanceStep ==
    ASSUME NEW r, Reader = {r}, IInv(r), Advance(r)
    PROVE  IInv(r)'
<1>1. /\ reader[r].at = "advance" /\ Goto(r, "check") /\ buffer_rptr' = buffer_rptr + 1
      /\ UNCHANGED <<buffer, ready, buffer_wptr, pressed, got, overrun, dropped>>
      /\ Typed /\ Control(r)
  BY DEF Advance, At, IInv
<1>2. /\ reader' \in [Reader -> [at : Labels, temp : Key, i : 0 .. RING]]
      /\ reader'[r].at = "check" /\ reader'[r].temp = reader[r].temp
      /\ reader'[r].i = reader[r].i /\ reader[r].i = 0
  BY <1>1, ReaderNext DEF Labels, Control, Resets
<1>3. RING \in Nat \ {0} /\ buffer_rptr \in Nat /\ buffer_rptr < RING
  BY <1>1, Ps2Assumption DEF Typed, Control, Resets
<1>4. Typed' /\ Control(r)'
  BY <1>1, <1>2, <1>3 DEF Typed, Control, Resets
<1>5. ASSUME NEW n \in 0 .. RING, Ordered(r, n)  PROVE Ordered(r, n)'
  <2>1. Start(r)' = Start(r) /\ InHand(r) /\ InHand(r)'
    BY <1>1, <1>2, <1>3 DEF Start, Next0, InHand, Resets
  <2> QED BY <1>1, <1>2, <1>5, <2>1 DEF Ordered
<1> QED BY <1>1, <1>4, <1>5 DEF IInv

\* The key in hand is returned, as the last of those before the ring's.
LEMMA ReturnKeeps ==
    ASSUME NEW r, Reader = {r}, IInv(r), Return(r), InHand(r),
           UNCHANGED <<buffer, ready, pressed, overrun, dropped>>,
           \/ reader[r].at = "check" /\ UNCHANGED <<buffer_wptr, buffer_rptr>>
              /\ buffer_rptr # RING
           \/ reader[r].at = "rptr" /\ UNCHANGED buffer_wptr /\ buffer_rptr' = 0
    PROVE  IInv(r)'
<1>1. Typed /\ Control(r) /\ RING \in Nat \ {0} /\ MaxKeys \in Nat
  BY Ps2Assumption DEF IInv
<1>2. /\ reader' \in [Reader -> [at : Labels, temp : Key, i : 0 .. RING]]
      /\ reader'[r].at = "test" /\ reader'[r].temp = 0 /\ reader'[r].i = 0
  BY <1>1 DEF Return, Typed, Key, Labels
<1>3. got' = Append(got, reader[r].temp) /\ got \in Seq(Key) /\ reader[r].temp \in Key
  BY <1>1 DEF Return, Typed
<1>4. buffer_rptr' \in 0 .. RING /\ buffer_rptr' # RING /\ buffer_wptr' \in Slot
  BY <1>1 DEF Typed
<1>5. Typed' /\ Control(r)'
  BY <1>1, <1>2, <1>3, <1>4 DEF Typed, Control, Resets
<1>6. ASSUME NEW n \in 0 .. RING, Ordered(r, n)  PROVE Ordered(r, n)'
  <2>1. Start(r)' = Start(r) /\ ~InHand(r)'
    <3>1. CASE reader[r].at = "check"
      BY <1>2, <3>1 DEF Start, Next0, InHand, Resets
    <3>2. CASE reader[r].at = "rptr"
      <4>1. buffer_rptr = RING /\ buffer_rptr' = 0
        BY <1>1, <3>2 DEF Control, Resets
      <4> QED BY <1>1, <1>2, <3>2, <4>1 DEF Start, Next0, InHand, Resets
    <3> QED BY <3>1, <3>2
  <2> DEFINE temp == reader[r].temp
  <2>2. /\ n <= pressed /\ temp > 0 /\ temp <= pressed - n
        /\ \A k \in DOMAIN got : got[k] > 0 /\ got[k] <= pressed - n /\ got[k] < temp
        /\ \A j, k \in DOMAIN got : j < k => got[j] < got[k]
        /\ ~dropped => /\ n = 0 \/ reader[r].i = 0
                       /\ \A k \in 1 .. pressed - n : (\E j \in DOMAIN got : got[j] = k)
                                                      \/ temp = k
    BY <1>6 DEF Ordered
  <2>3. /\ Len(got) \in Nat /\ DOMAIN got = 1 .. Len(got)
        /\ DOMAIN got' = 1 .. Len(got) + 1
        /\ \A k \in DOMAIN got : got'[k] = got[k]
        /\ got'[Len(got) + 1] = temp
    BY <1>3
  <2>4. \A k \in DOMAIN got' : k \in DOMAIN got \/ k = Len(got) + 1
    BY <2>3
  <2>5. \A k \in DOMAIN got' : got'[k] > 0 /\ got'[k] <= pressed - n
    BY <2>2, <2>3, <2>4
  <2>6. \A j, k \in DOMAIN got' : j < k => got'[j] < got'[k]
    <3>1. ASSUME NEW j \in DOMAIN got', NEW k \in DOMAIN got', j < k
          PROVE  got'[j] < got'[k]
      <4>1. j \in DOMAIN got
        BY <2>3, <3>1
      <4> QED BY <2>2, <2>3, <2>4, <3>1, <4>1
    <3> QED BY <3>1
  <2>7. ASSUME ~dropped, NEW k \in 1 .. pressed - n
        PROVE  \E j \in DOMAIN got' : got'[j] = k
    <3>1. DOMAIN got \subseteq DOMAIN got' /\ Len(got) + 1 \in DOMAIN got'
      BY <2>3
    <3> QED BY <2>2, <2>3, <2>7, <3>1
  <2>8. ASSUME NEW s \in Slot
        PROVE  /\ ready'[s] <=> Distance(Start(r), s) < n /\ s >= 0
               /\ ready'[s] => buffer'[s] = pressed - n + 1 + Distance(Start(r), s)
    <3>1. CASE reader[r].at = "check"
      BY <1>1, <1>6, <3>1 DEF Ordered, Control, Resets
    <3>2. CASE reader[r].at = "rptr"
      <4>1. n = 0 /\ reader[r].i = RING
        BY <1>1, <1>6, <3>2 DEF Ordered, Control
      <4>2. Start(r) \in 0 .. RING
        BY <1>1, <3>2 DEF Start, Next0, Typed
      <4>3. ~(Distance(Start(r), s) < 0)
        BY <1>1, <4>2 DEF Distance, Slot
      <4>4. ~ready[s]
        BY <1>6, <4>1, <4>3 DEF Ordered
      <4> QED BY <4>1, <4>3, <4>4
    <3> QED BY <3>1, <3>2
  <2>9. buffer_wptr' = IF Start(r) + n >= RING THEN Start(r) + n - RING ELSE Start(r) + n
    BY <1>6 DEF Ordered
  <2> QED BY <1>2, <2>1, <2>2, <2>5, <2>6, <2>7, <2>8, <2>9 DEF Ordered
<1> QED BY <1>5, <1>6 DEF IInv

LEMMA CheckStep ==
    ASSUME NEW r, Reader = {r}, IInv(r), Check(r)
    PROVE  IInv(r)'
<1>1. /\ reader[r].at = "check"
      /\ UNCHANGED <<buffer, ready, buffer_wptr, buffer_rptr, pressed, overrun, dropped>>
      /\ Typed /\ Control(r) /\ RING \in Nat \ {0}
  BY Ps2Assumption DEF Check, At, IInv
<1>2. CASE buffer_rptr = RING
  <2>1. Goto(r, "clear_all") /\ UNCHANGED got
    BY <1>2 DEF Check
  <2>2. /\ reader' \in [Reader -> [at : Labels, temp : Key, i : 0 .. RING]]
        /\ reader'[r].at = "clear_all" /\ reader'[r].temp = reader[r].temp
        /\ reader'[r].i = reader[r].i /\ reader[r].i = 0
    BY <1>1, <2>1, ReaderNext DEF Labels, Control, Resets
  <2>3. Typed' /\ Control(r)'
    BY <1>1, <1>2, <2>1, <2>2 DEF Typed, Control, Resets
  <2>4. ASSUME NEW n \in 0 .. RING, Ordered(r, n)  PROVE Ordered(r, n)'
    <3>1. Start(r)' = Start(r) /\ InHand(r) /\ InHand(r)'
      BY <1>1, <2>2 DEF Start, Next0, InHand, Resets
    <3> QED BY <1>1, <2>1, <2>2, <2>4, <3>1 DEF Ordered
  <2> QED BY <1>1, <2>3, <2>4 DEF IInv
<1>3. CASE buffer_rptr # RING
  <2>1. Return(r) /\ InHand(r)
    BY <1>1, <1>3 DEF Check, InHand
  <2> QED BY <1>1, <1>3, <2>1, ReturnKeeps
<1> QED BY <1>2, <1>3

LEMMA ResetRptrStep ==
    ASSUME NEW r, Reader = {r}, IInv(r), ResetRptr(r)
    PROVE  IInv(r)'
<1>1. /\ reader[r].at = "rptr" /\ buffer_rptr' = 0 /\ Return(r)
      /\ UNCHANGED <<buffer, ready, buffer_wptr, pressed, overrun, dropped>>
  BY DEF ResetRptr, At
<1>2. InHand(r)
  BY <1>1 DEF InHand, Resets
<1> QED BY <1>1, <1>2, ReturnKeeps

LEMMA ClearEntryStep ==
    ASSUME NEW r, Reader = {r}, IInv(r), ClearEntry(r)
    PROVE  IInv(r)'
<1> DEFINE i == reader[r].i
<1>1. /\ reader[r].at = "clear_all"
      /\ buffer' = [buffer EXCEPT ![i] = 0] /\ ready' = [ready EXCEPT ![i] = FALSE]
      /\ dropped' = (dropped \/ ready[i])
      /\ reader' = [reader EXCEPT ![r].i = i + 1, ![r].at = IF i + 1 = RING THEN "wptr" ELSE @]
      /\ UNCHANGED <<buffer_wptr, buffer_rptr, pressed, got, overrun>>
      /\ Typed /\ Control(r) /\ RING \in Nat \ {0} /\ MaxKeys \in Nat
  BY Ps2Assumption DEF ClearEntry, At, IInv
<1>2. i \in Nat /\ i < RING /\ i \in Slot /\ buffer_rptr = RING
  BY <1>1 DEF Typed, Control, Resets, Slot
<1>3. PICK label \in {"wptr", "clear_all"} :
         label = IF i + 1 = RING THEN "wptr" ELSE "clear_all"
  OBVIOUS
<1>4. /\ reader' \in [Reader -> [at : Labels, temp : Key, i : 0 .. RING]]
      /\ reader'[r].at = label /\ reader'[r].temp = reader[r].temp
      /\ reader'[r].i = i + 1
      /\ label = "clear_all" => i + 1 < RING
      /\ label = "wptr" => i + 1 = RING
  <2>1. /\ reader \in [Reader -> [at : Labels, temp : Key, i : 0 .. RING]]
        /\ i + 1 \in 0 .. RING /\ label \in Labels
    BY <1>1, <1>2 DEF Typed, Labels
  <2>2. PICK mid : mid = [reader EXCEPT ![r].i = i + 1]
    OBVIOUS
  <2>3. reader' = [mid EXCEPT ![r].at = IF i + 1 = RING THEN "wptr" ELSE @]
    BY <1>1, <2>2
  <2> HIDE DEF i
  <2>4. /\ mid \in [Reader -> [at : Labels, temp : Key, i : 0 .. RING]]
        /\ mid[r].at = "clear_all" /\ mid[r].temp = reader[r].temp /\ mid[r].i = i + 1
    BY <1>1, <2>1, <2>2
  <2>5. /\ label = "clear_all" => i + 1 # RING
        /\ label = "wptr" => i + 1 = RING
    BY <1>3
  <2>6. reader' = [mid EXCEPT ![r].at = label]
    BY <1>3, <2>3, <2>4
  <2>7. /\ reader' \in [Reader -> [at : Labels, temp : Key, i : 0 .. RING]]
        /\ reader'[r].at = label /\ reader'[r].temp = mid[r].temp /\ reader'[r].i = mid[r].i
    BY <2>1, <2>4, <2>6
  <2> QED BY <1>1, <1>2, <2>4, <2>5, <2>7
<1> HIDE DEF i
<1>5. Typed'
  BY <1>1, <1>2, <1>4 DEF Typed, Key
<1>6. Control(r)'
  BY <1>1, <1>2, <1>4 DEF Control, Resets
<1>7. ASSUME NEW n \in 0 .. RING, Ordered(r, n)  PROVE Ordered(r, n)'
  <2>1. Start(r)' = Start(r) /\ InHand(r) /\ InHand(r)' /\ Start(r) = 0
    BY <1>1, <1>2, <1>3, <1>4 DEF Start, Next0, InHand, Resets
  <2>2. \A s \in Slot : Distance(0, s) = s /\ s \in Nat
    BY <1>1 DEF Distance, Slot
  <2>3. /\ \A s \in Slot : ready[s] <=> s < n /\ s >= i
        /\ \A s \in Slot : ready[s] => buffer[s] = pressed - n + 1 + s
    BY <1>7, <2>1, <2>2 DEF Ordered, i
  <2>4. ASSUME NEW s \in Slot
        PROVE  /\ ready'[s] <=> s < n /\ s >= i + 1
               /\ ready'[s] => buffer'[s] = pressed - n + 1 + s
    <3>1. CASE s = i
      <4>1. ~ready'[s] /\ ~(s >= i + 1)
        BY <1>1, <1>2, <3>1 DEF Typed
      <4> QED BY <4>1
    <3>2. CASE s # i
      <4>1. ready'[s] = ready[s] /\ buffer'[s] = buffer[s]
        BY <1>1, <1>2, <3>2 DEF Typed
      <4>2. s >= i + 1 <=> s >= i
        BY <1>2, <2>2, <3>2
      <4> QED BY <2>3, <4>1, <4>2
    <3> QED BY <3>1, <3>2
  <2>5. ~dropped' => n = 0
    <3>1. SUFFICES ASSUME ~dropped'  PROVE n = 0
      OBVIOUS
    <3>2. ~dropped /\ ~ready[i]
      BY <1>1, <3>1
    <3>3. n = 0 \/ i = 0
      BY <1>7, <3>2 DEF Ordered, i
    <3>4. ~(i < n)
      BY <1>2, <2>3, <3>2
    <3> QED BY <1>2, <3>3, <3>4
  <2>6. ~dropped' => ~dropped
    BY <1>1
  <2>7. buffer_wptr = IF 0 + n >= RING THEN 0 + n - RING ELSE 0 + n
    BY <1>1, <1>7, <2>1 DEF Ordered
  <2>8. /\ n <= pressed /\ reader[r].temp > 0 /\ reader[r].temp <= pressed - n
        /\ \A k \in DOMAIN got : got[k] > 0 /\ got[k] <= pressed - n /\ got[k] < reader[r].temp
        /\ \A j, k \in DOMAIN got : j < k => got[j] < got[k]
        /\ ~dropped => \A k \in 1 .. pressed - n : (\E j \in DOMAIN got : got[j] = k)
                                                   \/ reader[r].temp = k
    BY <1>7, <2>1 DEF Ordered
  <2> QED BY <1>1, <1>3, <1>4, <2>1, <2>2, <2>4, <2>5, <2>6, <2>7, <2>8 DEF Ordered
<1> QED BY <1>1, <1>5, <1>6, <1>7 DEF IInv

LEMMA ResetWptrStep ==
    ASSUME NEW r, Reader = {r}, IInv(r), ResetWptr(r)
    PROVE  IInv(r)'
<1>1. /\ reader[r].at = "wptr" /\ Goto(r, "rptr") /\ buffer_wptr' = 0
      /\ UNCHANGED <<buffer, ready, buffer_rptr, pressed, got, overrun, dropped>>
      /\ Typed /\ Control(r) /\ RING \in Nat \ {0}
  BY Ps2Assumption DEF ResetWptr, At, IInv
<1>2. /\ reader' \in [Reader -> [at : Labels, temp : Key, i : 0 .. RING]]
      /\ reader'[r].at = "rptr" /\ reader'[r].temp = reader[r].temp
      /\ reader'[r].i = RING /\ reader[r].i = RING /\ buffer_rptr = RING
  BY <1>1, ReaderNext DEF Labels, Control, Resets
<1>3. Typed' /\ Control(r)'
  BY <1>1, <1>2 DEF Typed, Control, Resets, Slot
<1>4. ASSUME NEW n \in 0 .. RING, Ordered(r, n)  PROVE Ordered(r, 0)'
  <2>1. Start(r)' = 0 /\ InHand(r) /\ InHand(r)'
    BY <1>1, <1>2 DEF Start, Next0, InHand, Resets
  <2>2. ASSUME NEW s \in Slot  PROVE ~ready[s] /\ ~(s >= RING)
    <3>1. ~(s >= RING)
      BY <1>1 DEF Slot
    <3> QED BY <1>2, <1>4, <3>1 DEF Ordered
  <2>3. pressed \in Nat /\ reader[r].temp \in Nat /\ \A k \in DOMAIN got : got[k] \in Nat
    <3>1. pressed \in Key /\ reader[r].temp \in Key /\ \A k \in DOMAIN got : got[k] \in Key
      BY <1>1 DEF Typed
    <3>2. Key \subseteq Nat
      BY Ps2Assumption DEF Key
    <3> QED BY <3>1, <3>2
  <2>4. /\ n <= pressed /\ reader[r].temp > 0 /\ reader[r].temp <= pressed - n
        /\ \A k \in DOMAIN got : got[k] > 0 /\ got[k] <= pressed - n /\ got[k] < reader[r].temp
        /\ \A j, k \in DOMAIN got : j < k => got[j] < got[k]
        /\ ~dropped => /\ n = 0
                       /\ \A k \in 1 .. pressed - n : (\E j \in DOMAIN got : got[j] = k)
                                                      \/ reader[r].temp = k
    BY <1>1, <1>2, <1>4, <2>1 DEF Ordered
  <2>5. /\ 0 <= pressed /\ reader[r].temp <= pressed - 0
        /\ \A k \in DOMAIN got : got[k] <= pressed - 0
    BY <2>3, <2>4
  <2>6. 0 = IF 0 + 0 >= RING THEN 0 + 0 - RING ELSE 0 + 0
    BY <1>1
  <2>7. ~dropped => \A k \in 1 .. pressed - 0 : (\E j \in DOMAIN got : got[j] = k)
                                                \/ reader[r].temp = k
    BY <2>4
  <2> QED BY <1>1, <1>2, <2>1, <2>2, <2>4, <2>5, <2>6, <2>7 DEF Ordered
<1>5. ~overrun' => \E n \in 0 .. RING : Ordered(r, n)'
  BY <1>1, <1>4 DEF IInv
<1> QED BY <1>3, <1>5 DEF IInv


LEMMA InitInv ==
    ASSUME NEW r, Reader = {r}, Init
    PROVE  IInv(r)
<1>1. RING \in Nat \ {0} /\ MaxKeys \in Nat /\ 0 \in Slot /\ 0 \in Key
  BY Ps2Assumption DEF Slot, Key
<1>2. reader[r].at = "test" /\ reader[r].temp = 0 /\ reader[r].i = 0
  BY DEF Init
<1>3. reader \in [Reader -> [at : Labels, temp : Key, i : 0 .. RING]]
  BY <1>1 DEF Init, Labels
<1>4. Typed
  <2>1. got \in Seq(Key)
    BY DEF Init
  <2> QED BY <1>1, <1>3, <2>1 DEF Init, Typed
<1>8. Control(r)
  BY <1>1, <1>2 DEF Init, Control, Resets
<1>5. Start(r) = 0 /\ ~InHand(r)
  BY <1>1, <1>2 DEF Init, Start, Next0, InHand, Resets
<1>6. \A s \in Slot : ~(Distance(0, s) < 0)
  BY <1>1 DEF Distance, Slot
<1>7. Ordered(r, 0)
  BY <1>1, <1>2, <1>5, <1>6 DEF Init, Ordered
<1> QED BY <1>1, <1>4, <1>7, <1>8 DEF IInv

LEMMA NextInv ==
    ASSUME NEW r, Reader = {r}, IInv(r), [Next]_vars
    PROVE  IInv(r)'
<1>1. CASE UNCHANGED vars
  BY <1>1 DEF vars, IInv, Typed, Control, Ordered, Start, Next0, InHand
<1>2. CASE ps2_handler
  BY <1>2, HandlerStep
<1>3. CASE kernel_getkey(r)
  BY <1>3, TestStep, TakeStep, ClearStep, AdvanceStep, CheckStep, ClearEntryStep,
     ResetWptrStep, ResetRptrStep DEF kernel_getkey
<1> QED BY <1>1, <1>2, <1>3 DEF Next

--------------------------------------------------------------------------------
(* What the invariant says of the order of keys *)

LEMMA InOrder ==
    ASSUME NEW r, Reader = {r}, IInv(r)
    PROVE  FirstInFirstOut
<1>1. Typed /\ Control(r) /\ RING \in Nat \ {0} /\ Key \subseteq Nat
  BY Ps2Assumption DEF IInv, Key
<1> DEFINE temp == reader[r].temp
           waiting == { buffer[s] : s \in Unread }
           returned == { got[i] : i \in DOMAIN got }
<1>2. SUFFICES ASSUME ~overrun
               PROVE  /\ \A i, j \in DOMAIN got : i < j => got[i] < got[j]
                      /\ \A k \in returned, l \in Taken \cup waiting : k < l
                      /\ \A k \in Taken, l \in waiting : k < l
                      /\ \A s, t \in Unread : Ahead(s) < Ahead(t) => buffer[s] < buffer[t]
                      /\ ~dropped => 1 .. pressed = returned \cup Taken \cup waiting
  BY DEF FirstInFirstOut
<1>3. PICK n \in 0 .. RING : Ordered(r, n)
  BY <1>2 DEF IInv
<1> DEFINE from == Start(r)
<1>4. /\ reader[r].at \in Labels /\ temp \in Key /\ pressed \in Key /\ got \in Seq(Key)
      /\ n \in Nat /\ from \in Slot /\ reader[r].i \in Nat
      /\ \A s \in Slot : buffer[s] \in Key
  BY <1>1 DEF Typed, Control, Start, Next0, Slot, Resets
<1>5. pressed \in Nat /\ temp \in Nat /\ \A k \in DOMAIN got : got[k] \in Nat
  <2>1. \A k \in DOMAIN got : got[k] \in Key
    BY <1>4
  <2> QED BY <1>1, <1>4, <2>1
<1>6. /\ n <= pressed
      /\ \A s \in Slot : ready[s] <=> Distance(from, s) < n /\ s >= reader[r].i
      /\ \A s \in Slot : ready[s] => buffer[s] = pressed - n + 1 + Distance(from, s)
      /\ reader[r].at = "clear" => temp = pressed - n + 1
      /\ InHand(r) => temp > 0 /\ temp <= pressed - n
      /\ \A k \in DOMAIN got : got[k] > 0 /\ got[k] <= pressed - n
      /\ InHand(r) => \A k \in DOMAIN got : got[k] < temp
      /\ \A j, k \in DOMAIN got : j < k => got[j] < got[k]
      /\ ~dropped => n = 0 \/ reader[r].i = 0
      /\ ~dropped => \A k \in 1 .. pressed - n : \/ \E j \in DOMAIN got : got[j] = k
                                                 \/ InHand(r) /\ temp = k
  BY <1>3 DEF Ordered
<1>7. \A s \in Slot : Distance(from, s) \in Nat
  BY <1>1, <1>4 DEF Distance, Slot
<1>8. Taken = {temp} \ {0}
  BY <1>1 DEF Taken
\* A key is in the hand of the reader, or it is still in the ring as well, or there is none.
<1>9. InHand(r) \/ (reader[r].at = "clear" /\ temp = pressed - n + 1 /\ n > 0) \/ temp = 0
  <2>1. reader[r].at = "clear" => n > 0
    <3>1. SUFFICES ASSUME reader[r].at = "clear"  PROVE n > 0
      OBVIOUS
    <3>2. buffer_rptr \in Slot /\ ready[buffer_rptr]
      BY <1>1, <3>1 DEF Control, Typed, Slot, Resets
    <3>3. Distance(from, buffer_rptr) < n
      BY <1>6, <3>2
    <3> QED BY <1>4, <1>7, <3>2, <3>3
  <2>2. reader[r].at \in {"test", "take"} => temp = 0
    BY <1>1 DEF Control
  <2> QED BY <1>4, <1>6, <2>1, <2>2 DEF Labels, InHand, Resets
<1> HIDE DEF from, temp
<1>10. ASSUME NEW s \in Unread
       PROVE  /\ s \in Slot /\ ready[s] /\ buffer[s] = pressed - n + 1 + Distance(from, s)
              /\ Distance(from, s) < n /\ Distance(from, s) \in Nat /\ buffer[s] \notin Taken
              /\ buffer[s] > pressed - n /\ buffer[s] <= pressed
              /\ \A k \in Taken : k < buffer[s]
  <2>1. /\ s \in Slot /\ ready[s] /\ buffer[s] \notin Taken
        /\ buffer[s] = pressed - n + 1 + Distance(from, s)
        /\ Distance(from, s) < n /\ Distance(from, s) \in Nat
    BY <1>6, <1>7 DEF Unread
  <2>2. buffer[s] > pressed - n /\ buffer[s] <= pressed
    BY <1>4, <1>5, <2>1
  <2>3. ASSUME NEW k \in Taken  PROVE k < buffer[s]
    <3>1. k = temp /\ temp # 0 /\ buffer[s] # temp
      BY <1>8, <2>1
    <3> QED BY <1>4, <1>5, <1>6, <1>9, <2>1, <2>2, <3>1
  <2> QED BY <2>1, <2>2, <2>3
<1>11. ASSUME NEW s \in Unread, NEW t \in Unread, Ahead(s) < Ahead(t)
       PROVE  buffer[s] < buffer[t]
  <2>1. From = Next0(r) /\ Next0(r) \in 0 .. RING
    BY <1>1 DEF From, Next0, At, Typed, Control, Resets
  <2>2. from = IF From = RING THEN 0 ELSE From
    BY <2>1 DEF from, Start
  <2>3. \A u \in Slot : Ahead(u) = Distance(from, u)
    BY <1>1, <2>1, <2>2 DEF Ahead, Distance, Slot
  <2> QED BY <1>4, <1>5, <1>10, <1>11, <2>3
<1>12. ASSUME NEW i \in DOMAIN got
       PROVE  /\ \A k \in Taken : got[i] < k
              /\ \A s \in Unread : got[i] < buffer[s]
  <2>1. got[i] > 0 /\ got[i] <= pressed - n /\ got[i] \in Nat
    BY <1>5, <1>6
  <2>2. ASSUME NEW k \in Taken  PROVE got[i] < k
    <3>1. k = temp /\ temp # 0
      BY <1>8
    <3> QED BY <1>4, <1>5, <1>6, <1>9, <2>1, <3>1
  <2>3. ASSUME NEW s \in Unread  PROVE got[i] < buffer[s]
    <3>1. buffer[s] > pressed - n /\ buffer[s] \in Nat
      BY <1>1, <1>4, <1>10
    <3> QED BY <1>4, <1>5, <2>1, <3>1
  <2> QED BY <2>2, <2>3
<1>13. ASSUME ~dropped  PROVE 1 .. pressed = returned \cup Taken \cup waiting
  <2>1. ASSUME NEW k \in 1 .. pressed  PROVE k \in returned \cup Taken \cup waiting
    <3>1. CASE k <= pressed - n
      <4>1. k \in 1 .. pressed - n
        BY <1>4, <1>5, <3>1
      <4>2. (\E j \in DOMAIN got : got[j] = k) \/ temp = k
        BY <1>6, <2>1, <1>13, <4>1
      <4> QED BY <1>8, <4>2
    <3>2. CASE k > pressed - n
      <4> DEFINE d == k - (pressed - n) - 1
                 s == IF from + d >= RING THEN from + d - RING ELSE from + d
      <4>1. d \in Nat /\ d < n /\ k = pressed - n + 1 + d
        BY <1>4, <1>5, <3>2
      <4>2. s \in Slot /\ Distance(from, s) = d /\ s >= 0
        <5>1. d < RING /\ from \in 0 .. RING - 1 /\ RING \in Nat
          BY <1>1, <1>4, <4>1 DEF Slot
        <5> HIDE DEF d
        <5> QED BY <4>1, <5>1 DEF Distance, Slot
      <4> HIDE DEF d, s
      <4>3. reader[r].i = 0
        BY <1>4, <1>6, <1>13, <4>1
      <4>4. ready[s] /\ buffer[s] = k
        BY <1>6, <4>1, <4>2, <4>3
      <4> QED BY <4>2, <4>4 DEF Unread
    <3> QED BY <1>4, <1>5, <3>1, <3>2
  <2>2. ASSUME NEW i \in DOMAIN got  PROVE got[i] \in 1 .. pressed
    BY <1>4, <1>5, <1>6
  <2>3. ASSUME NEW k \in Taken  PROVE k \in 1 .. pressed
    <3>1. k = temp /\ temp # 0
      BY <1>8
    <3> QED BY <1>4, <1>5, <1>6, <1>9, <3>1
  <2>4. ASSUME NEW s \in Unread  PROVE buffer[s] \in 1 .. pressed
    BY <1>1, <1>4, <1>5, <1>6, <1>10
  <2> QED BY <2>1, <2>2, <2>3, <2>4
<1> QED BY <1>6, <1>10, <1>11, <1>12, <1>13

\* The ring and the keys in it, for one reader (ps2.c:149, 207).
THEOREM Ps2Correct == ASSUME NEW CONSTANT r, Reader = {r}  PROVE Spec => []Ps2Inv
<1>1. Init => IInv(r)
  BY InitInv
<1>2. IInv(r) /\ [Next]_vars => IInv(r)'
  BY NextInv
<1>3. IInv(r) => Ps2Inv
  <2>1. SUFFICES ASSUME IInv(r)  PROVE TypeOK
    BY InOrder DEF Ps2Inv
  <2>2. Typed /\ Control(r)
    BY <2>1 DEF IInv
  <2> QED BY <2>2 DEF Typed, Control, TypeOK, Key, Resets, Resetting, At
<1> QED BY <1>1, <1>2, <1>3, PTL DEF Spec

--------------------------------------------------------------------------------
(* The invariant of the FAT32 driver *)

\* The entries of the root directory, and what they and a sector of the FAT can hold.
DirSlot == 1 .. SlotCount
Entries == [name : File \cup {None, Deleted}, start : {0} \cup Cluster, size : Nat]
FatTable == [0 .. PerSector - 1 -> Nat]
RootTable == [DirSlot -> Entries]

\* The directory as it is on the disk.
RootOnDisk == disk[RootSector]

\* A buffer.
Buffer(cur, ref, dirty, data) == [cur |-> cur, ref |-> ref, dirty |-> dirty, data |-> data]

\* A cache of n buffers.
IsCache(c, n) ==
    /\ c = [buf |-> c.buf, clock |-> c.clock] /\ c.clock \in 0 .. n - 1
    /\ c.buf = [i \in 0 .. n - 1 |-> Buffer(c.buf[i].cur, c.buf[i].ref, c.buf[i].dirty, c.buf[i].data)]

\* Its buffers are for sectors of S.
CacheOK(c, n, S, d) ==
    /\ IsCache(c, n)
    /\ \A i \in 0 .. n - 1 :
          /\ c.buf[i].cur \in S \cup {NoSector}
          /\ c.buf[i].ref \in BOOLEAN /\ c.buf[i].dirty \in BOOLEAN
          /\ c.buf[i].cur = NoSector => ~c.buf[i].dirty
    /\ OneBuffer(c) /\ CleanIsOnDisk(c, d)

\* Clusters s from c on, each named by the one before, the last with the end mark.
IsChain(fat, s, c) ==
    /\ s \in Seq(Cluster) /\ IsInjective(s)
    /\ c \in Nat
    /\ s = <<>> => c \notin Cluster
    /\ s # <<>> => s[1] = c /\ fat[s[Len(s)]] = EOC
    /\ \A i \in 1 .. Len(s) - 1 : fat[s[i]] = s[i + 1]

\* The entry of a slot for users; of a file being removed, what is left of the chain.
Dir(i) == IF i = file.slot THEN file.entry ELSE Root[i]
Freeing(i) == Running("rm") /\ Stage("free") /\ i = call.slot
First(i) == IF Freeing(i) THEN call.clus ELSE Dir(i).start
Chain(i) == Follow(FAT, First(i))
Owned == UNION { Range(Chain(i)) : i \in DirSlot }

DataSectors(C) == { DataSector(c) : c \in C }
\* Clusters that the open file may have in its buffers.
Loaded == IF file.slot \in DirSlot
          THEN Range(Chain(file.slot)) \ (IF Stage("clear") THEN {call.new} ELSE {})
          ELSE {}

Sectors == {FSInfo} \cup FatSectors \cup DataSectors(Cluster)

Caches ==
    /\ disk = [s \in Sectors |-> disk[s]]
    /\ CacheOK(fat_buf, FAT_BUF_NUM, FatSectors, disk)
    /\ CacheOK(dir_data_buf, DIR_DATA_BUF_NUM, {RootSector}, disk)
    /\ CacheOK(file.data_buf, LOCAL_DATA_BUF_NUM, DataSectors(Loaded), disk)

Tables ==
    /\ \A s \in FatSectors : disk[s] \in FatTable /\ Seen(fat_buf, s, disk) \in FatTable
    /\ RootOnDisk \in RootTable /\ Root \in RootTable

Names ==
    /\ \A i \in DirSlot : Root[i].name \notin File => Root[i].start = 0
    /\ \A i, j \in DirSlot : Root[i].name \in File /\ Root[i].name = Root[j].name => i = j
    /\ \A i \in DirSlot : Root[i].name \in File => \A j \in 1 .. i : Root[j].name # None

FileOK ==
    \/ file = NoFile
    \/ /\ file = [entry |-> file.entry, slot |-> file.slot, loc |-> file.loc, data_buf |-> file.data_buf]
       /\ file.slot \in DirSlot
       /\ file.entry \in [name : File, start : {0} \cup Cluster, size : Nat]
       /\ file.loc \in 0 .. file.entry.size
       /\ Root[file.slot].name = file.entry.name

ChainsOK ==
    /\ FAT[2] # 0
    /\ \A i \in DirSlot : IsChain(FAT, Chain(i), First(i)) /\ 2 \notin Range(Chain(i))
    /\ \A i, j \in DirSlot : i # j => Range(Chain(i)) \cap Range(Chain(j)) = {}
    /\ \A i \in DirSlot : ~Freeing(i) => Len(Chain(i)) * CS >= Dir(i).size

\* The next cluster to allocate.
Hint ==
    /\ Nxt_Free \in Cluster
    /\ Nxt_Free <= FSI_Free_Count => Nxt_Free + 1 \notin Owned

AtRest ==
    file = NoFile /\ call = NoCall =>
        Dirty(fat_buf) = {} /\ Dirty(dir_data_buf) = {} /\ disk[FSInfo] = Nxt_Free

\* The locals of a read or write.
IsCall(c) ==
    c = [op |-> c.op, f |-> c.f, at |-> c.at, k |-> c.k, clus |-> c.clus, new |-> c.new, next |-> c.next,
         pos |-> c.pos, count |-> c.count, cur |-> c.cur, data |-> c.data]

\* A read or write in cluster k of the open file.
Transfer ==
    LET s == Chain(file.slot) IN
    /\ file.slot \in DirSlot
    /\ call.op \in {"read", "write"} /\ call.f = file.entry.name
    /\ IsCall(call)
    /\ call.pos = file.loc /\ call.count \in Nat \ {0}
    /\ Running("read") => call.pos + call.count <= file.entry.size
    /\ call.k \in 0 .. EndClus
    /\ call.at \in {"advance", "move", "end"} \cup
                   (IF Running("write") THEN {"search", "mark", "scan", "erase", "link", "clear"} ELSE {})
    /\ call.at \in {"advance", "move", "end"} =>
          call.new = 0 /\ call.k < Len(s) /\ call.clus = s[call.k + 1]
    /\ Stage("advance") => call.k < EndClus
    /\ Stage("end") => call.k = EndClus
    /\ call.at \in {"search", "mark", "scan", "erase", "link"} =>
          \/ call.clus = 0 /\ file.entry.start = 0 /\ call.k = 0 /\ s = <<>>
          \/ call.clus \in Cluster /\ call.k + 1 = Len(s) /\ call.clus = s[Len(s)] /\ call.k < EndClus
    /\ Stage("search") => call.new \in Nat /\ call.new >= 2
    /\ call.at \in {"mark", "scan", "erase", "link"} => call.new \in Cluster \ ({2} \cup Owned)
    /\ call.at \in {"scan", "erase", "link"} => FAT[call.new] = EOC
    /\ Stage("scan") => call.next \in Nat /\ call.next >= call.new
    /\ call.at \in {"erase", "link"} => Nxt_Free + 1 # call.new
    /\ call.at \in {"link", "clear"} => disk[DataSector(call.new)] = Zeros /\ base_addr = 0
    /\ Stage("clear") =>
          /\ call.new \in Cluster /\ s # <<>> /\ s[Len(s)] = call.new
          /\ \/ call.clus = 0 /\ call.k = 0 /\ Len(s) = 1
             \/ call.clus \in Cluster /\ call.k < EndClus /\ Len(s) = call.k + 2

\* A call that ends in fs_fflush.
Closing ==
    /\ call.op \in {"close", "create", "rm"} /\ call.f \in File
    /\ call = Ending(call.op, call.f, call.at, call.slot, call.clus)
    /\ call.at \in {"free", "info", "flush"}
    /\ Running("close") => file.slot \in DirSlot /\ call.f = file.entry.name /\ Root[file.slot] = file.entry
    /\ Stage("free") => Running("rm") /\ call.slot \in DirSlot \ {file.slot} /\ Root[call.slot].name = call.f
    /\ ~Stage("free") => call.clus = 0
    /\ Running("rm") /\ ~Stage("free") => \A i \in DirSlot : Root[i].name # call.f
    /\ Stage("flush") => disk[FSInfo] = Nxt_Free

CallOK == call = NoCall \/ Transfer \/ Closing

\* The files not in use are on the disk: their entries, and those of their clusters.
Synced ==
    /\ \A i \in DirSlot : \/ Root[i] = RootOnDisk[i]
                       \/ \A n \in File \cap {Root[i].name, RootOnDisk[i].name} : InUse(n)
    /\ \A i \in DirSlot : Root[i].name \in File /\ ~InUse(Root[i].name) =>
          \A c \in Range(Chain(i)) : FATOnDisk[c] = FAT[c]

FatIInv ==
    Caches /\ Tables /\ Names /\ FileOK /\ ChainsOK /\ Hint /\ AtRest /\ CallOK /\ Synced

--------------------------------------------------------------------------------
(* A cache of buffers *)

\* The least of a set of numbers.
LEMMA MinIsLeast ==
    ASSUME NEW S \in SUBSET Nat, S # {}
    PROVE  Min(S) \in S /\ \A x \in S : Min(S) <= x
BY LeastNat DEF Min

\* The buffers of a cache, and where its hand can point.
LEMMA IndexOfCache ==
    ASSUME NEW n \in Nat \ {0}, NEW S, NEW d, NEW c, CacheOK(c, n, S, d)
    PROVE  /\ Index(c) = 0 .. n - 1 /\ Cardinality(Index(c)) = n
           /\ Turn(c) = 0 .. n - 1
           /\ \A k \in Nat : Hand(c, k) \in 0 .. n - 1
<1>1. Index(c) = 0 .. n - 1
  BY DEF Index, CacheOK, IsCache
<1>2. Cardinality(0 .. n - 1) = n
  BY FS_Interval
<1>3. c.clock \in Nat
  BY DEF CacheOK, IsCache
<1>4. ASSUME NEW k \in Nat  PROVE Hand(c, k) \in 0 .. n - 1
  BY <1>1, <1>2, <1>3 DEF Hand
<1> QED BY <1>1, <1>2, <1>4 DEF Turn

\* The clock hand stops at a buffer.
LEMMA VictimIsBuffer ==
    ASSUME NEW n \in Nat \ {0}, NEW S, NEW d, NEW c, CacheOK(c, n, S, d)
    PROVE  Steps(c) \in Nat /\ fs_victim(c) \in 0 .. n - 1
<1>1. /\ Turn(c) = 0 .. n - 1 /\ \A k \in Nat : Hand(c, k) \in 0 .. n - 1
  BY IndexOfCache
<1>2. Unused(c) \in SUBSET Nat /\ Clean(c) \in SUBSET Nat
  BY <1>1 DEF Unused, Clean
<1>3. Unused(c) # {} => Min(Unused(c)) \in Nat
  BY <1>2, MinIsLeast
<1>4. Clean(c) # {} => Min(Clean(c)) \in Nat
  BY <1>2, MinIsLeast
<1>5. Steps(c) \in Nat
  BY <1>3, <1>4 DEF Steps
<1> QED BY <1>1, <1>5 DEF fs_victim

\* d is a disk that has the sectors of S.
IsDisk(d, S) == d = [s \in DOMAIN d |-> d[s]] /\ S \subseteq DOMAIN d /\ S \subseteq Nat

\* The disk d2 is the disk d, but for some sectors of S that hold what c has for them.
Partly(c, d, d2, S) ==
    /\ d2 = [s \in DOMAIN d |-> d2[s]]
    /\ \A s \in DOMAIN d : d2[s] = d[s] \/ (s \in S /\ d2[s] = Seen(c, s, d))

\* Whoever reads through the cache does not see the change.
Kept(c, d, c2, d2, n, S) ==
    /\ CacheOK(c2, n, S, d2)
    /\ \A s \in S : Seen(c2, s, d2) = Seen(c, s, d)
    /\ Partly(c, d, d2, S)

\* What a buffer holds is what its sector holds for users.
LEMMA SeenInBuffer ==
    ASSUME NEW n \in Nat \ {0}, NEW S, NEW d, NEW c, CacheOK(c, n, S, d), IsDisk(d, S)
    PROVE  /\ \A i \in 0 .. n - 1 : c.buf[i].cur \in S =>
                 /\ Holds(c, c.buf[i].cur) /\ Place(c, c.buf[i].cur) = i
                 /\ Seen(c, c.buf[i].cur, d) = c.buf[i].data
           /\ \A s \in S : ~Holds(c, s) => Seen(c, s, d) = d[s]
           /\ \A s \in S : Holds(c, s) => Place(c, s) \in 0 .. n - 1 /\ c.buf[Place(c, s)].cur = s
<1>1. Index(c) = 0 .. n - 1
  BY IndexOfCache
<1>2. NoSector \notin S
  BY DEF IsDisk, NoSector
<1>3. ASSUME NEW s \in S, Holds(c, s)
      PROVE  Place(c, s) \in 0 .. n - 1 /\ c.buf[Place(c, s)].cur = s
  BY <1>1, <1>3 DEF Place, Holds
<1>4. ASSUME NEW i \in 0 .. n - 1, c.buf[i].cur \in S
      PROVE  /\ Holds(c, c.buf[i].cur) /\ Place(c, c.buf[i].cur) = i
             /\ Seen(c, c.buf[i].cur, d) = c.buf[i].data
  <2>1. Holds(c, c.buf[i].cur)
    BY <1>1 DEF Holds
  <2>2. Place(c, c.buf[i].cur) \in 0 .. n - 1 /\ c.buf[Place(c, c.buf[i].cur)].cur = c.buf[i].cur
    BY <1>3, <1>4, <2>1
  <2>3. Place(c, c.buf[i].cur) = i
    BY <1>1, <1>2, <1>4, <2>2 DEF CacheOK, IsCache, OneBuffer
  <2> QED BY <2>1, <2>3 DEF Seen
<1> QED BY <1>3, <1>4 DEF Seen

\* Writing a buffer to the disk.
LEMMA WrittenIsSeen ==
    ASSUME NEW n \in Nat \ {0}, NEW S, NEW d, NEW c, CacheOK(c, n, S, d), IsDisk(d, S),
           NEW i \in 0 .. n - 1
    PROVE  /\ Partly(c, d, Written(c, i, d), S)
           /\ \A s \in DOMAIN d : s # c.buf[i].cur => Written(c, i, d)[s] = d[s]
           /\ c.buf[i].cur \in S => Written(c, i, d)[c.buf[i].cur] = c.buf[i].data
           /\ ~c.buf[i].dirty => Written(c, i, d) = d
<1>1. Index(c) = 0 .. n - 1
  BY IndexOfCache
<1>2. c.buf[i].cur \in S \cup {NoSector} /\ c.buf[i].dirty \in BOOLEAN /\ NoSector \notin S
  BY DEF CacheOK, IsDisk, NoSector
<1>3. CASE ~c.buf[i].dirty
  <2>1. Written(c, i, d) = d
    BY <1>3 DEF Written
  <2>2. c.buf[i].cur \in S => c.buf[i].data = d[c.buf[i].cur]
    BY <1>1, <1>2, <1>3 DEF CacheOK, CleanIsOnDisk
  <2> QED BY <2>1, <2>2 DEF Partly, IsDisk
<1>4. CASE c.buf[i].dirty
  <2>1. c.buf[i].cur \in S
    BY <1>2, <1>4 DEF CacheOK, IsCache
  <2>2. Written(c, i, d) = [d EXCEPT ![c.buf[i].cur] = c.buf[i].data]
    BY <1>4 DEF Written
  <2>3. Seen(c, c.buf[i].cur, d) = c.buf[i].data
    BY <2>1, SeenInBuffer
  <2>4. c.buf[i].cur \in DOMAIN d
    BY <2>1 DEF IsDisk
  <2> QED BY <1>4, <2>1, <2>2, <2>3, <2>4 DEF Partly, IsDisk
<1> QED BY <1>3, <1>4

\* The fields of a buffer.
LEMMA BufferFields ==
    ASSUME NEW x, NEW r, NEW y, NEW z
    PROVE  /\ Buffer(x, r, y, z).cur = x /\ Buffer(x, r, y, z).ref = r
           /\ Buffer(x, r, y, z).dirty = y /\ Buffer(x, r, y, z).data = z
BY DEF Buffer

\* Setting one field of one buffer.
BufferSet(n, c, p, r) ==
    [buf |-> [i \in 0 .. n - 1 |-> IF i = p THEN r ELSE c.buf[i]], clock |-> c.clock]

\* A cache is a record of an array of records.
LEMMA ShapeOfCache ==
    ASSUME NEW n \in Nat \ {0}, NEW c, IsCache(c, n)
    PROVE  \E X, R, D, Y : /\ c \in [buf : [0 .. n - 1 -> [cur : X, ref : R, dirty : D, data : Y]],
                                     clock : 0 .. n - 1]
<1> DEFINE b == c.buf
           X == { b[i].cur : i \in 0 .. n - 1 }
           R == { b[i].ref : i \in 0 .. n - 1 }
           D == { b[i].dirty : i \in 0 .. n - 1 }
           Y == { b[i].data : i \in 0 .. n - 1 }
           Z == [cur : X, ref : R, dirty : D, data : Y]
<1>0. b = [i \in 0 .. n - 1 |-> Buffer(b[i].cur, b[i].ref, b[i].dirty, b[i].data)]
  BY DEF IsCache
<1>1. ASSUME NEW i \in 0 .. n - 1  PROVE b[i] \in Z
  <2>1. b[i] = Buffer(b[i].cur, b[i].ref, b[i].dirty, b[i].data)
    BY <1>0
  <2> QED BY <2>1 DEF Buffer
<1> HIDE DEF Z
<1>2. b \in [0 .. n - 1 -> Z]
  BY <1>0, <1>1
<1>3. c \in [buf : [0 .. n - 1 -> Z], clock : 0 .. n - 1]
  BY <1>2 DEF IsCache
<1> QED BY <1>3 DEF Z

\* A cache with one buffer, or one bit of a buffer, set.
SetBuffer(c, p, v) == [c EXCEPT !.buf[p] = v]
SetRef(c, p, v) == [c EXCEPT !.buf[p].ref = v]
SetDirty(c, p, v) == [c EXCEPT !.buf[p].dirty = v]

\* Setting a buffer changes that buffer and nothing else.
LEMMA BufferWith ==
    ASSUME NEW n \in Nat \ {0}, NEW c, IsCache(c, n),
           NEW p \in 0 .. n - 1, NEW v
    PROVE  /\ SetBuffer(c, p, v) = BufferSet(n, c, p, v)
           /\ SetRef(c, p, v) =
                 BufferSet(n, c, p, Buffer(c.buf[p].cur, v, c.buf[p].dirty, c.buf[p].data))
           /\ SetDirty(c, p, v) =
                 BufferSet(n, c, p, Buffer(c.buf[p].cur, c.buf[p].ref, v, c.buf[p].data))
<1>1. PICK X, R, D, Y : c \in [buf : [0 .. n - 1 -> [cur : X, ref : R, dirty : D, data : Y]],
                               clock : 0 .. n - 1]
  BY ShapeOfCache
<1> DEFINE B == [cur : X, ref : R, dirty : D, data : Y]
           b == c.buf[p]
           newref == Buffer(b.cur, v, b.dirty, b.data)
           newdirty == Buffer(b.cur, b.ref, v, b.data)
<1>2. b \in B
  BY <1>1
<1>3. [b EXCEPT !.ref = v] = newref
  BY <1>2 DEF Buffer
<1>4. [b EXCEPT !.dirty = v] = newdirty
  BY <1>2 DEF Buffer
<1> HIDE DEF B, newref, newdirty
<1>5. \A u : [c EXCEPT !.buf = u] = [buf |-> u, clock |-> c.clock]
  BY <1>1
<1>6. \A u : [c.buf EXCEPT ![p] = u] = [i \in 0 .. n - 1 |-> IF i = p THEN u ELSE c.buf[i]]
  BY <1>1
<1>7. ASSUME NEW u  PROVE [c EXCEPT !.buf[p] = u] = BufferSet(n, c, p, u)
  <2>1. [c EXCEPT !.buf[p] = u] = [c EXCEPT !.buf = [c.buf EXCEPT ![p] = u]]
    OBVIOUS
  <2> QED BY <1>5, <1>6, <2>1, Zenon DEF BufferSet
<1>8. SetRef(c, p, v) = BufferSet(n, c, p, newref)
  <2>1. [c EXCEPT !.buf[p].ref = v] = [c EXCEPT !.buf[p] = [c.buf[p] EXCEPT !.ref = v]]
    OBVIOUS
  <2> QED BY <1>3, <1>7, <2>1, Zenon DEF SetRef
<1>9. SetDirty(c, p, v) = BufferSet(n, c, p, newdirty)
  <2>1. [c EXCEPT !.buf[p].dirty = v] = [c EXCEPT !.buf[p] = [c.buf[p] EXCEPT !.dirty = v]]
    OBVIOUS
  <2> QED BY <1>4, <1>7, <2>1, Zenon DEF SetDirty
<1> QED BY <1>7, <1>8, <1>9, Zenon DEF newref, newdirty, SetBuffer

\* The three equations of BufferWith, one by one.
LEMMA SetBufferIs ==
    ASSUME NEW n \in Nat \ {0}, NEW c, IsCache(c, n),
           NEW p \in 0 .. n - 1, NEW v
    PROVE  SetBuffer(c, p, v) = BufferSet(n, c, p, v)
BY BufferWith

LEMMA SetRefIs ==
    ASSUME NEW n \in Nat \ {0}, NEW c, IsCache(c, n),
           NEW p \in 0 .. n - 1, NEW v
    PROVE  SetRef(c, p, v) = BufferSet(n, c, p, Buffer(c.buf[p].cur, v, c.buf[p].dirty, c.buf[p].data))
BY BufferWith

LEMMA SetDirtyIs ==
    ASSUME NEW n \in Nat \ {0}, NEW c, IsCache(c, n),
           NEW p \in 0 .. n - 1, NEW v
    PROVE  SetDirty(c, p, v) = BufferSet(n, c, p, Buffer(c.buf[p].cur, c.buf[p].ref, v, c.buf[p].data))
BY BufferWith

\* The cache b differs from c in reference bits and in the clock only.
Like(b, c, n) ==
    /\ b.clock \in 0 .. n - 1
    /\ \A i \in 0 .. n - 1 : \E r \in BOOLEAN :
          b.buf[i] = Buffer(c.buf[i].cur, r, c.buf[i].dirty, c.buf[i].data)

\* Users of c2 see x in sector s, and in the others what they saw in c.
NowSeen(c, d, c2, d2, n, S, s, x) ==
    /\ CacheOK(c2, n, S, d2) /\ Holds(c2, s) /\ Seen(c2, s, d2) = x
    /\ \A t \in S \ {s} : Seen(c2, t, d2) = Seen(c, t, d)

\* Sector s goes into buffer p, whatever that held is on the disk.
LEMMA BufferSetOK ==
    ASSUME NEW n \in Nat \ {0}, NEW S, NEW d, NEW c, CacheOK(c, n, S, d), IsDisk(d, S),
           NEW b, Like(b, c, n), NEW p \in 0 .. n - 1, NEW s \in S, NEW x, NEW d2, IsDisk(d2, S),
           NEW ref, ref \in BOOLEAN, NEW dirty, dirty \in BOOLEAN,
           \A i \in 0 .. n - 1 : i # p => c.buf[i].cur # s,
           \A t \in S \ {s} : t # c.buf[p].cur => d2[t] = d[t],
           \A t \in S \ {s} : t = c.buf[p].cur => d2[t] = c.buf[p].data,
           dirty \/ d2[s] = x
    PROVE  NowSeen(c, d, BufferSet(n, b, p, Buffer(s, ref, dirty, x)), d2, n, S, s, x)
<1> DEFINE new == Buffer(s, ref, dirty, x)
           c2 == BufferSet(n, b, p, new)
<1>1. /\ c2 = [buf |-> c2.buf, clock |-> c2.clock] /\ c2.clock \in 0 .. n - 1
      /\ c2.buf = [i \in 0 .. n - 1 |-> c2.buf[i]]
      /\ Index(c2) = 0 .. n - 1
  BY DEF BufferSet, Like, Index
<1>2. c2.buf[p] = new
  BY DEF BufferSet
<1>3. ASSUME NEW i \in 0 .. n - 1, i # p
      PROVE  \E r \in BOOLEAN : c2.buf[i] = Buffer(c.buf[i].cur, r, c.buf[i].dirty, c.buf[i].data)
  <2>1. c2.buf[i] = b.buf[i]
    BY <1>3 DEF BufferSet
  <2> QED BY <2>1 DEF Like
<1> HIDE DEF c2
<1>4. ASSUME NEW i \in 0 .. n - 1, i # p
      PROVE  /\ c2.buf[i].cur = c.buf[i].cur /\ c2.buf[i].data = c.buf[i].data
             /\ c2.buf[i].dirty = c.buf[i].dirty
  <2>1. PICK r : c2.buf[i] = Buffer(c.buf[i].cur, r, c.buf[i].dirty, c.buf[i].data)
    BY <1>3, <1>4
  <2>2. /\ c2.buf[i].cur = Buffer(c.buf[i].cur, r, c.buf[i].dirty, c.buf[i].data).cur
        /\ c2.buf[i].dirty = Buffer(c.buf[i].cur, r, c.buf[i].dirty, c.buf[i].data).dirty
        /\ c2.buf[i].data = Buffer(c.buf[i].cur, r, c.buf[i].dirty, c.buf[i].data).data
    BY <2>1
  <2> QED BY <2>2, BufferFields
<1>5. c2.buf[p].cur = s /\ c2.buf[p].data = x /\ c2.buf[p].dirty = dirty /\ c2.buf[p].ref = ref
  <2>1. /\ c2.buf[p].cur = new.cur /\ c2.buf[p].data = new.data
        /\ c2.buf[p].dirty = new.dirty /\ c2.buf[p].ref = new.ref
    BY <1>2
  <2> QED BY <2>1, BufferFields DEF new
<1>6. NoSector \notin S
  BY DEF IsDisk, NoSector
<1>7. Index(c) = 0 .. n - 1
  BY IndexOfCache
<1>8. ASSUME NEW i \in 0 .. n - 1
      PROVE  /\ c2.buf[i] = Buffer(c2.buf[i].cur, c2.buf[i].ref, c2.buf[i].dirty, c2.buf[i].data)
             /\ c2.buf[i].cur \in S \cup {NoSector}
             /\ c2.buf[i].ref \in BOOLEAN /\ c2.buf[i].dirty \in BOOLEAN
             /\ c2.buf[i].cur = NoSector => ~c2.buf[i].dirty
  <2>1. CASE i = p
    BY <1>2, <1>5, <1>6, <2>1
  <2>2. CASE i # p
    <3>1. PICK r \in BOOLEAN : c2.buf[i] = Buffer(c.buf[i].cur, r, c.buf[i].dirty, c.buf[i].data)
      BY <1>3, <2>2
    <3>2. c2.buf[i].ref = r
      <4>1. c2.buf[i].ref = Buffer(c.buf[i].cur, r, c.buf[i].dirty, c.buf[i].data).ref
        BY <3>1
      <4> QED BY <4>1, BufferFields
    <3>3. c2.buf[i] = Buffer(c2.buf[i].cur, c2.buf[i].ref, c2.buf[i].dirty, c2.buf[i].data)
      BY <3>1, <1>4, <2>2, <3>2
    <3>4. /\ c.buf[i].cur \in S \cup {NoSector} /\ c.buf[i].dirty \in BOOLEAN
          /\ c.buf[i].cur = NoSector => ~c.buf[i].dirty
      BY DEF CacheOK, IsCache
    <3> QED BY <1>4, <2>2, <3>2, <3>3, <3>4, Zenon
  <2> QED BY <2>1, <2>2
<1>9. OneBuffer(c2)
  <2> SUFFICES ASSUME NEW i \in 0 .. n - 1, NEW j \in 0 .. n - 1, c2.buf[i].cur = c2.buf[j].cur, i # j
               PROVE  c2.buf[i].cur = NoSector
    BY <1>1 DEF OneBuffer
  <2>1. i # p /\ j # p
    BY <1>4, <1>5
  <2> QED BY <1>4, <1>7, <2>1 DEF CacheOK, IsCache, OneBuffer
<1>10. CleanIsOnDisk(c2, d2)
  <2> SUFFICES ASSUME NEW i \in 0 .. n - 1, c2.buf[i].cur # NoSector, ~c2.buf[i].dirty
               PROVE  c2.buf[i].data = d2[c2.buf[i].cur]
    BY <1>1 DEF CleanIsOnDisk
  <2>1. CASE i = p
    BY <1>5, <2>1
  <2>2. CASE i # p
    <3>1. c.buf[i].cur # NoSector /\ ~c.buf[i].dirty
      BY <1>4, <2>2
    <3>2. c.buf[i].data = d[c.buf[i].cur] /\ c.buf[i].cur \in S \ {s}
      BY <1>7, <2>2, <3>1 DEF CacheOK, CleanIsOnDisk
    <3>3. c.buf[i].cur # c.buf[p].cur
      BY <1>7, <2>2, <3>1 DEF CacheOK, IsCache, OneBuffer
    <3>4. d2[c.buf[i].cur] = d[c.buf[i].cur]
      BY <3>2, <3>3
    <3> QED BY <1>4, <2>2, <3>2, <3>4
  <2> QED BY <2>1, <2>2
<1>11. CacheOK(c2, n, S, d2)
  <2>1. c2.buf = [i \in 0 .. n - 1 |-> Buffer(c2.buf[i].cur, c2.buf[i].ref, c2.buf[i].dirty, c2.buf[i].data)]
    BY <1>1, <1>8, Zenon
  <2> QED BY <1>1, <1>8, <1>9, <1>10, <2>1 DEF CacheOK, IsCache
<1>12. Holds(c2, s) /\ Seen(c2, s, d2) = x
  BY <1>5, <1>11, SeenInBuffer
<1>13. ASSUME NEW t \in S \ {s}  PROVE Seen(c2, t, d2) = Seen(c, t, d)
  <2>1. CASE Holds(c2, t)
    <3>1. PICK i \in 0 .. n - 1 : c2.buf[i].cur = t
      BY <1>1, <2>1 DEF Holds
    <3>2. i # p
      BY <1>5, <3>1
    <3>3. c.buf[i].cur = t /\ Seen(c2, t, d2) = c.buf[i].data
      BY <1>4, <1>11, <3>1, <3>2, SeenInBuffer
    <3>4. Seen(c, t, d) = c.buf[i].data
      BY <3>3, SeenInBuffer
    <3> QED BY <3>3, <3>4
  <2>2. CASE ~Holds(c2, t)
    <3>1. Seen(c2, t, d2) = d2[t]
      BY <1>11, <2>2, SeenInBuffer
    <3>2. CASE t = c.buf[p].cur
      BY <3>1, <3>2, SeenInBuffer
    <3>3. CASE t # c.buf[p].cur
      <4>1. ~Holds(c, t)
        BY <1>1, <1>4, <1>7, <2>2, <3>3 DEF Holds
      <4> QED BY <3>1, <3>3, <4>1, SeenInBuffer
    <3> QED BY <3>2, <3>3
  <2> QED BY <2>1, <2>2
<1> QED BY <1>11, <1>12, <1>13 DEF c2, NowSeen

\* The buffers after the sweep.
LEMMA SweptBuffers ==
    ASSUME NEW n \in Nat \ {0}, NEW S, NEW d, NEW c, CacheOK(c, n, S, d)
    PROVE  /\ Swept(c) = [buf |-> Swept(c).buf, clock |-> Swept(c).clock]
           /\ Swept(c).clock \in 0 .. n - 1
           /\ DOMAIN Swept(c).buf = 0 .. n - 1
           /\ \A i \in 0 .. n - 1 : \E r \in BOOLEAN :
                 Swept(c).buf[i] = Buffer(c.buf[i].cur, r, c.buf[i].dirty, c.buf[i].data)
<1>1. Index(c) = 0 .. n - 1 /\ \A k \in Nat : Hand(c, k) \in 0 .. n - 1
  BY IndexOfCache
<1>2. Steps(c) + 1 \in Nat
  BY VictimIsBuffer
<1>3. ASSUME NEW i \in 0 .. n - 1
      PROVE  \E r \in BOOLEAN : Swept(c).buf[i] = Buffer(c.buf[i].cur, r, c.buf[i].dirty, c.buf[i].data)
  <2> DEFINE b == c.buf[i]
  <2>1. b = Buffer(b.cur, b.ref, b.dirty, b.data) /\ b.ref \in BOOLEAN
    BY DEF CacheOK, IsCache
  <2>2. Swept(c).buf[i] = IF i \in Passed(c) THEN [b EXCEPT !.ref = FALSE] ELSE b
    BY <1>1 DEF Swept
  <2> HIDE DEF b
  <2>3. ASSUME NEW v
        PROVE  [b EXCEPT !.ref = v] = Buffer(b.cur, v, b.dirty, b.data)
    <3>1. PICK X, R, D, Y : c \in [buf : [0 .. n - 1 -> [cur : X, ref : R, dirty : D, data : Y]],
                                   clock : 0 .. n - 1]
      BY ShapeOfCache DEF CacheOK
    <3>2. b \in [cur : X, ref : R, dirty : D, data : Y]
      BY <3>1 DEF b
    <3> QED BY <3>2 DEF Buffer
  <2>4. CASE i \in Passed(c)
    BY <2>2, <2>3, <2>4, Zenon DEF b
  <2>5. CASE i \notin Passed(c)
    BY <2>1, <2>2, <2>5, Zenon DEF b
  <2> QED BY <2>4, <2>5
<1>4. DOMAIN Swept(c).buf = 0 .. n - 1
  BY <1>1 DEF Swept
<1>5. Swept(c).clock \in 0 .. n - 1
  BY <1>1, <1>2 DEF Swept
<1>6. Swept(c) = [buf |-> Swept(c).buf, clock |-> Swept(c).clock]
  BY DEF Swept
<1> QED BY <1>3, <1>4, <1>5, <1>6

\* A cache agrees with every disk that has the same in its sectors.
LEMMA OtherSectors ==
    ASSUME NEW n \in Nat \ {0}, NEW S, NEW d, NEW c, CacheOK(c, n, S, d), IsDisk(d, S),
           NEW d2, \A s \in S : d2[s] = d[s]
    PROVE  CacheOK(c, n, S, d2) /\ \A s \in S : Seen(c, s, d2) = Seen(c, s, d)
<1>1. Index(c) = 0 .. n - 1
  BY IndexOfCache
<1>2. CleanIsOnDisk(c, d2)
  <2> SUFFICES ASSUME NEW i \in 0 .. n - 1, c.buf[i].cur # NoSector, ~c.buf[i].dirty
               PROVE  c.buf[i].data = d2[c.buf[i].cur]
    BY <1>1 DEF CleanIsOnDisk
  <2>1. c.buf[i].data = d[c.buf[i].cur]
    BY <1>1 DEF CleanIsOnDisk, CacheOK
  <2>2. c.buf[i].cur \in S
    BY DEF CacheOK, IsCache
  <2> QED BY <2>1, <2>2
<1> QED BY <1>2 DEF CacheOK, Seen

\* More sectors may be put into a cache.
LEMMA MoreSectors ==
    ASSUME NEW n \in Nat \ {0}, NEW S, NEW d, NEW c, CacheOK(c, n, S, d), NEW S2, S \subseteq S2
    PROVE  CacheOK(c, n, S2, d)
BY DEF CacheOK, IsCache

\* A disk to which a buffer was written is a disk.
LEMMA StillDisk ==
    ASSUME NEW S, NEW d, IsDisk(d, S), NEW c, NEW d2, Partly(c, d, d2, S)
    PROVE  IsDisk(d2, S) /\ DOMAIN d2 = DOMAIN d
<1>1. DOMAIN d2 = DOMAIN d
  BY DEF Partly
<1>2. d2 = [s \in DOMAIN d2 |-> d2[s]]
  BY <1>1 DEF Partly
<1> QED BY <1>1, <1>2 DEF IsDisk

\* A sector takes the place of the victim, which is written if it is dirty.
LEMMA ReplacedOK ==
    ASSUME NEW n \in Nat \ {0}, NEW S, NEW d, NEW c, CacheOK(c, n, S, d), IsDisk(d, S),
           NEW s \in S, ~Holds(c, s), NEW ref, ref \in BOOLEAN,
           NEW no, no \in BOOLEAN, NEW x, no \/ Evicted(c, d)[s] = x
    PROVE  /\ NowSeen(c, d, Replaced(c, Buffer(s, ref, no, x)), Evicted(c, d), n, S, s, x)
           /\ Partly(c, d, Evicted(c, d), S) /\ Evicted(c, d)[s] = d[s]
<1> DEFINE p == fs_victim(c)
           d2 == Evicted(c, d)
           new == Buffer(s, ref, no, x)
           b == Swept(c)
<1>1. p \in 0 .. n - 1 /\ Index(c) = 0 .. n - 1
  BY VictimIsBuffer, IndexOfCache
<1>2. \A i \in 0 .. n - 1 : c.buf[i].cur # s
  BY <1>1 DEF Holds
<1>3. Like(b, c, n)
  BY SweptBuffers DEF Like
<1>4. /\ Partly(c, d, d2, S)
      /\ \A t \in DOMAIN d : t # c.buf[p].cur => d2[t] = d[t]
      /\ c.buf[p].cur \in S => d2[c.buf[p].cur] = c.buf[p].data
  BY <1>1, WrittenIsSeen DEF Evicted
<1>5. Replaced(c, new) = BufferSet(n, b, p, new)
  <2>1. Replaced(c, new) = [Swept(c) EXCEPT !.buf[fs_victim(c)] = new]
    BY DEF Replaced
  <2>2. /\ b = [buf |-> b.buf, clock |-> b.clock] /\ b.clock \in 0 .. n - 1
        /\ DOMAIN b.buf = 0 .. n - 1
    BY SweptBuffers
  <2>3. b.buf = [i \in 0 .. n - 1 |-> b.buf[i]]
    BY <1>1, <2>2 DEF Swept
  <2> HIDE DEF b, p, new
  <2>4. \A u : [b EXCEPT !.buf = u] = [buf |-> u, clock |-> b.clock]
    <3>1. b \in [buf : {b.buf}, clock : {b.clock}]
      BY <2>2
    <3> QED BY <3>1
  <2>5. [b.buf EXCEPT ![p] = new] = [i \in 0 .. n - 1 |-> IF i = p THEN new ELSE b.buf[i]]
    BY <1>1, <2>3
  <2>6. [b EXCEPT !.buf[p] = new] = [b EXCEPT !.buf = [b.buf EXCEPT ![p] = new]]
    OBVIOUS
  <2> QED BY <2>1, <2>4, <2>5, <2>6, Zenon DEF BufferSet, b, p
<1>6. IsDisk(d2, S) /\ S \subseteq DOMAIN d
  BY <1>4, StillDisk DEF IsDisk
<1>7. d2[s] = d[s] /\ (no \/ d2[s] = x)
  BY <1>1, <1>2, <1>4, <1>6
<1> HIDE DEF b, p, d2
<1>8. NowSeen(c, d, BufferSet(n, b, p, new), d2, n, S, s, x)
  <2>1. /\ \A i \in 0 .. n - 1 : i # p => c.buf[i].cur # s
        /\ \A t \in S \ {s} : t # c.buf[p].cur => d2[t] = d[t]
        /\ \A t \in S \ {s} : t = c.buf[p].cur => d2[t] = c.buf[p].data
        /\ p \in 0 .. n - 1
    BY <1>1, <1>2, <1>4, <1>6
  <2>2. no \in BOOLEAN /\ (no \/ d2[s] = x)
    BY <1>7
  <2> HIDE DEF new
  <2>3. BufferSet(n, b, p, new) = BufferSet(n, b, p, Buffer(s, ref, no, x))
    BY DEF new
  <2> QED BY <1>3, <1>6, <2>1, <2>2, <2>3, BufferSetOK
<1> QED BY <1>4, <1>5, <1>7, <1>8 DEF d2, b, p

\* Reading a sector through a cache.
LEMMA FetchedOK ==
    ASSUME NEW n \in Nat \ {0}, NEW S, NEW d, NEW c, CacheOK(c, n, S, d), IsDisk(d, S), NEW s \in S
    PROVE  /\ Kept(c, d, Fetched(c, s, d), Fetching(c, s, d), n, S)
           /\ Holds(Fetched(c, s, d), s)
<1>1. CASE Holds(c, s)
  <2> DEFINE p == Place(c, s)
             b == c.buf[p]
             new == Buffer(s, TRUE, b.dirty, b.data)
  <2>1. p \in 0 .. n - 1 /\ b.cur = s /\ Index(c) = 0 .. n - 1
    BY <1>1, SeenInBuffer, IndexOfCache
  <2>2. b.dirty \in BOOLEAN /\ \A i \in 0 .. n - 1 : i # p => c.buf[i].cur # s
    <3>1. NoSector # s
      BY DEF IsDisk, NoSector
    <3> QED BY <2>1, <3>1 DEF CacheOK, OneBuffer
  <2>3. Like(c, c, n)
    <3>1. \A i \in 0 .. n - 1 :
            c.buf[i] = Buffer(c.buf[i].cur, c.buf[i].ref, c.buf[i].dirty, c.buf[i].data)
      BY DEF CacheOK, IsCache
    <3>2. c.clock \in 0 .. n - 1 /\ \A i \in 0 .. n - 1 : c.buf[i].ref \in BOOLEAN
      BY DEF CacheOK, IsCache
    <3> QED BY <3>1, <3>2, Zenon DEF Like
  <2>4. Fetched(c, s, d) = BufferSet(n, c, p, new) /\ Fetching(c, s, d) = d
    <3>1. SetRef(c, p, TRUE) = BufferSet(n, c, p, Buffer(b.cur, TRUE, b.dirty, b.data))
      <4> HIDE DEF p
      <4>1. ASSUME NEW v
            PROVE  SetRef(c, p, v) = BufferSet(n, c, p, Buffer(b.cur, v, b.dirty, b.data))
        BY <2>1, SetRefIs DEF CacheOK
      <4> QED BY <4>1, Zenon
    <3>2. Fetched(c, s, d) = SetRef(c, p, TRUE)
      BY <1>1 DEF Fetched, SetRef
    <3> HIDE DEF p, b
    <3> QED BY <1>1, <2>1, <3>1, <3>2, Zenon DEF Fetching
  <2>5. b.dirty \/ d[s] = b.data
    BY <2>1, <2>2 DEF CacheOK, CleanIsOnDisk, IsDisk, NoSector
  <2>6. Seen(c, s, d) = b.data
    BY <1>1 DEF Seen
  <2> HIDE DEF b, p
  <2>7. \A t \in S \ {s} : t # c.buf[p].cur
    BY <2>1 DEF b
  <2>8. NowSeen(c, d, BufferSet(n, c, p, new), d, n, S, s, b.data)
    <3>1. \A t \in S \ {s} : (t # c.buf[p].cur => d[t] = d[t]) /\ (t = c.buf[p].cur => d[t] = c.buf[p].data)
      BY <2>7
    <3>2. ASSUME NEW yes \in BOOLEAN
          PROVE  NowSeen(c, d, BufferSet(n, c, p, Buffer(s, yes, b.dirty, b.data)), d, n, S, s, b.data)
      BY <2>1, <2>2, <2>3, <2>5, <3>1, BufferSetOK
    <3> QED BY <3>2, Zenon DEF new
  <2>9. Partly(c, d, d, S)
    BY DEF Partly, IsDisk
  <2> QED BY <2>4, <2>6, <2>8, <2>9 DEF Kept, NowSeen
<1>2. CASE ~Holds(c, s)
  <2> DEFINE x == Evicted(c, d)[s]
             c2 == Replaced(c, Buffer(s, TRUE, FALSE, x))
             d2 == Evicted(c, d)
  <2>1. NowSeen(c, d, c2, d2, n, S, s, x) /\ Partly(c, d, d2, S) /\ d2[s] = d[s]
    <3>1. ASSUME NEW yes, yes \in BOOLEAN, NEW no, no \in BOOLEAN, NEW y, Evicted(c, d)[s] = y
          PROVE  /\ NowSeen(c, d, Replaced(c, Buffer(s, yes, no, y)), Evicted(c, d), n, S, s, y)
                 /\ Partly(c, d, Evicted(c, d), S) /\ Evicted(c, d)[s] = d[s]
      BY <1>2, <3>1, ReplacedOK
    <3>2. TRUE \in BOOLEAN /\ FALSE \in BOOLEAN
      OBVIOUS
    <3> QED BY <3>1, <3>2, Zenon
  <2>2. Fetched(c, s, d) = c2 /\ Fetching(c, s, d) = d2
    BY <1>2 DEF Fetched, Fetching, Buffer
  <2>3. Seen(c, s, d) = d[s]
    BY <1>2 DEF Seen
  <2>4. Seen(c2, s, d2) = Seen(c, s, d)
    BY <2>1, <2>3 DEF NowSeen
  <2> HIDE DEF c2, d2
  <2> QED BY <2>1, <2>2, <2>4 DEF Kept, NowSeen
<1> QED BY <1>1, <1>2

\* New data in a buffer, which the disk does not have yet.
LEMMA ModifiedOK ==
    ASSUME NEW n \in Nat \ {0}, NEW S, NEW d, NEW c, CacheOK(c, n, S, d), IsDisk(d, S),
           NEW s \in S, Holds(c, s), NEW x
    PROVE  NowSeen(c, d, Modified(c, s, x), d, n, S, s, x)
<1> DEFINE p == Place(c, s)
<1>1. p \in 0 .. n - 1 /\ c.buf[p].cur = s /\ Index(c) = 0 .. n - 1
  <2>1. p \in 0 .. n - 1 /\ c.buf[p].cur = s
    BY SeenInBuffer
  <2> QED BY <2>1, IndexOfCache
<1>2. \A i \in 0 .. n - 1 : i # p => c.buf[i].cur # s
  <2>1. NoSector # s
    BY DEF IsDisk, NoSector
  <2> QED BY <1>1, <2>1 DEF CacheOK, OneBuffer
<1>3. Like(c, c, n)
  <2>1. \A i \in 0 .. n - 1 :
          c.buf[i] = Buffer(c.buf[i].cur, c.buf[i].ref, c.buf[i].dirty, c.buf[i].data)
    BY DEF CacheOK, IsCache
  <2>2. c.clock \in 0 .. n - 1 /\ \A i \in 0 .. n - 1 : c.buf[i].ref \in BOOLEAN
    BY DEF CacheOK, IsCache
  <2> QED BY <2>1, <2>2, Zenon DEF Like
<1>4. Modified(c, s, x) = SetBuffer(c, p, Buffer(s, TRUE, TRUE, x))
  BY DEF Modified, Buffer, SetBuffer
<1> HIDE DEF p
<1>5. Modified(c, s, x) = BufferSet(n, c, p, Buffer(s, TRUE, TRUE, x))
  <2>1. \A v : SetBuffer(c, p, v) = BufferSet(n, c, p, v)
    BY <1>1, SetBufferIs DEF CacheOK
  <2> QED BY <1>4, <2>1, Zenon
<1>6. ASSUME NEW yes \in BOOLEAN, NEW dirty \in BOOLEAN, dirty
      PROVE  NowSeen(c, d, BufferSet(n, c, p, Buffer(s, yes, dirty, x)), d, n, S, s, x)
  <2>1. \A t \in S \ {s} : t # c.buf[p].cur => d[t] = d[t]
    OBVIOUS
  <2>2. \A t \in S \ {s} : t = c.buf[p].cur => d[t] = c.buf[p].data
    BY <1>1
  <2>3. p \in 0 .. n - 1 /\ (dirty \/ d[s] = x)
    BY <1>1, <1>6
  <2> QED BY <1>2, <1>3, <2>1, <2>2, <2>3, BufferSetOK
<1> QED BY <1>5, <1>6, Zenon

\* A dirty buffer is written, and is dirty no more.
LEMMA FlushedOK ==
    ASSUME NEW n \in Nat \ {0}, NEW S, NEW d, NEW c, CacheOK(c, n, S, d), IsDisk(d, S),
           NEW i \in Dirty(c)
    PROVE  Kept(c, d, Flushed(c, i), Written(c, i, d), n, S)
<1> DEFINE b == c.buf[i]
           s == b.cur
           d2 == Written(c, i, d)
<1>1. i \in 0 .. n - 1 /\ b.dirty /\ Index(c) = 0 .. n - 1
  BY IndexOfCache DEF Dirty
<1>2. s \in S /\ b.ref \in BOOLEAN
  BY <1>1 DEF CacheOK, IsCache
<1>3. \A j \in 0 .. n - 1 : j # i => c.buf[j].cur # s
  <2>1. NoSector # s
    BY <1>2 DEF IsDisk, NoSector
  <2> QED BY <1>1, <2>1 DEF CacheOK, OneBuffer
<1>4. Like(c, c, n)
  <2>1. \A j \in 0 .. n - 1 :
          c.buf[j] = Buffer(c.buf[j].cur, c.buf[j].ref, c.buf[j].dirty, c.buf[j].data)
    BY DEF CacheOK, IsCache
  <2>2. c.clock \in 0 .. n - 1 /\ \A j \in 0 .. n - 1 : c.buf[j].ref \in BOOLEAN
    BY DEF CacheOK, IsCache
  <2> QED BY <2>1, <2>2, Zenon DEF Like
<1>5. ASSUME NEW v
      PROVE  SetDirty(c, i, v) = BufferSet(n, c, i, Buffer(s, b.ref, v, b.data))
  BY <1>1, SetDirtyIs DEF CacheOK
<1>6. Flushed(c, i) = BufferSet(n, c, i, Buffer(s, b.ref, FALSE, b.data))
  BY <1>5, Zenon DEF Flushed, SetDirty
<1>7. /\ Partly(c, d, d2, S)
      /\ \A t \in DOMAIN d : t # s => d2[t] = d[t]
      /\ d2[s] = b.data
  BY <1>1, <1>2, WrittenIsSeen
<1>8. IsDisk(d2, S) /\ S \subseteq DOMAIN d
  BY <1>7, StillDisk DEF IsDisk
<1>9. Seen(c, s, d) = b.data
  <2>1. \A j \in 0 .. n - 1 : c.buf[j].cur \in S => Seen(c, c.buf[j].cur, d) = c.buf[j].data
    BY SeenInBuffer
  <2> QED BY <1>1, <1>2, <2>1
<1> HIDE DEF d2
<1>10. ASSUME NEW no \in BOOLEAN
       PROVE  NowSeen(c, d, BufferSet(n, c, i, Buffer(s, b.ref, no, b.data)), d2, n, S, s, b.data)
  <2>1. \A t \in S \ {s} : t # c.buf[i].cur => d2[t] = d[t]
    BY <1>7, <1>8
  <2>2. \A t \in S \ {s} : t = c.buf[i].cur => d2[t] = c.buf[i].data
    BY <1>7
  <2>3. i \in 0 .. n - 1 /\ (no \/ d2[s] = b.data) /\ s \in S /\ b.ref \in BOOLEAN
    BY <1>1, <1>2, <1>7
  <2>4. \A j \in 0 .. n - 1 : j # i => c.buf[j].cur # s
    BY <1>3
  <2> HIDE DEF s, b
  <2> QED BY <1>4, <1>8, <2>1, <2>2, <2>3, <2>4, BufferSetOK
<1>11. NowSeen(c, d, Flushed(c, i), d2, n, S, s, b.data)
  BY <1>6, <1>10, Zenon
<1> QED BY <1>7, <1>9, <1>11 DEF Kept, NowSeen, d2

\* Without dirty buffers, the disk is what users see, and reading changes nothing there.
LEMMA NothingDirty ==
    ASSUME NEW n \in Nat \ {0}, NEW S, NEW d, NEW c, CacheOK(c, n, S, d), IsDisk(d, S),
           Dirty(c) = {}
    PROVE  /\ \A s \in S : Seen(c, s, d) = d[s]
           /\ \A s \in S : Fetching(c, s, d) = d /\ Dirty(Fetched(c, s, d)) = {}
<1>1. Index(c) = 0 .. n - 1 /\ \A i \in 0 .. n - 1 : ~c.buf[i].dirty
  BY IndexOfCache DEF Dirty
<1>2. ASSUME NEW s \in S  PROVE Seen(c, s, d) = d[s]
  <2>1. CASE ~Holds(c, s)
    BY <2>1 DEF Seen
  <2>2. CASE Holds(c, s)
    <3>1. PICK i \in 0 .. n - 1 : c.buf[i].cur = s
      BY <1>1, <2>2 DEF Holds
    <3>2. c.buf[i].data = d[s]
      BY <1>1, <3>1 DEF CacheOK, CleanIsOnDisk, IsDisk, NoSector
    <3> QED BY <3>1, <3>2, SeenInBuffer
  <2> QED BY <2>1, <2>2
<1>3. Evicted(c, d) = d
  <2>1. fs_victim(c) \in 0 .. n - 1
    BY VictimIsBuffer
  <2> QED BY <1>1, <2>1, WrittenIsSeen DEF Evicted
<1>4. ASSUME NEW s \in S  PROVE Dirty(Fetched(c, s, d)) = {}
  <2>1. CASE Holds(c, s)
    <3> DEFINE p == Place(c, s)
    <3>1. p \in 0 .. n - 1
      BY <2>1, SeenInBuffer
    <3>2. Fetched(c, s, d) = SetRef(c, p, TRUE)
      BY <2>1 DEF Fetched, SetRef
    <3> HIDE DEF p
    <3>3. Fetched(c, s, d) = BufferSet(n, c, p, Buffer(c.buf[p].cur, TRUE, c.buf[p].dirty, c.buf[p].data))
      <4>1. ASSUME NEW v
            PROVE  SetRef(c, p, v) =
                      BufferSet(n, c, p, Buffer(c.buf[p].cur, v, c.buf[p].dirty, c.buf[p].data))
        BY <3>1, SetRefIs DEF CacheOK
      <4> QED BY <3>2, <4>1, Zenon
    <3>4. ASSUME NEW v
          PROVE  Dirty(BufferSet(n, c, p, Buffer(c.buf[p].cur, v, c.buf[p].dirty, c.buf[p].data))) = {}
      <4> DEFINE f == BufferSet(n, c, p, Buffer(c.buf[p].cur, v, c.buf[p].dirty, c.buf[p].data))
      <4>1. Index(f) = 0 .. n - 1
        BY DEF Index, BufferSet
      <4>2. \A i \in 0 .. n - 1 : f.buf[i].dirty = c.buf[i].dirty
        BY BufferFields DEF BufferSet
      <4> QED BY <1>1, <4>1, <4>2 DEF Dirty
    <3> QED BY <3>3, <3>4, Zenon
  <2>2. CASE ~Holds(c, s)
    <3> DEFINE p == fs_victim(c)
               b == Swept(c)
               new == [cur |-> s, ref |-> TRUE, dirty |-> FALSE, data |-> Evicted(c, d)[s]]
    <3>1. /\ DOMAIN b.buf = 0 .. n - 1 /\ p \in 0 .. n - 1
          /\ \A i \in 0 .. n - 1 : \E r \in BOOLEAN :
                b.buf[i] = Buffer(c.buf[i].cur, r, c.buf[i].dirty, c.buf[i].data)
      BY SweptBuffers, VictimIsBuffer
    <3>2. Fetched(c, s, d) = [b EXCEPT !.buf[p] = new]
      BY <2>2 DEF Fetched, Replaced
    <3>3. ~new.dirty
      BY Zenon
    <3>4. b = [buf |-> b.buf, clock |-> b.clock]
      BY SweptBuffers
    <3> HIDE DEF b, p, new
    <3>5. ASSUME NEW i \in 0 .. n - 1
          PROVE  ~b.buf[i].dirty
      <4>1. PICK r \in BOOLEAN : b.buf[i] = Buffer(c.buf[i].cur, r, c.buf[i].dirty, c.buf[i].data)
        BY <3>1, Zenon
      <4>2. b.buf[i].dirty = c.buf[i].dirty
        BY <4>1, BufferFields
      <4> QED BY <1>1, <4>2
    <3>6. \A u : [b EXCEPT !.buf = u].buf = u
      <4>1. b \in [buf : {b.buf}, clock : {b.clock}]
        BY <3>4
      <4> QED BY <4>1
    <3>7. [b EXCEPT !.buf[p] = new] = [b EXCEPT !.buf = [b.buf EXCEPT ![p] = new]]
      OBVIOUS
    <3>8. Fetched(c, s, d).buf = [b.buf EXCEPT ![p] = new]
      BY <3>2, <3>6, <3>7, Zenon
    <3>9. DOMAIN [b.buf EXCEPT ![p] = new] = 0 .. n - 1
      BY <3>1
    <3>10. \A i \in 0 .. n - 1 : [b.buf EXCEPT ![p] = new][i] = IF i = p THEN new ELSE b.buf[i]
      BY <3>1
    <3> QED BY <3>3, <3>5, <3>8, <3>9, <3>10 DEF Dirty, Index
  <2> QED BY <2>1, <2>2
<1> QED BY <1>2, <1>3, <1>4 DEF Fetching

\* Empty buffers.
LEMMA EmptyOK ==
    ASSUME NEW n \in Nat \ {0}, NEW S, NEW d
    PROVE  CacheOK(Empty(n), n, S, d) /\ Dirty(Empty(n)) = {} /\ \A s \in Nat : ~Holds(Empty(n), s)
<1> DEFINE c == Empty(n)
<1>1. c = [buf |-> c.buf, clock |-> c.clock] /\ c.clock \in 0 .. n - 1 /\ Index(c) = 0 .. n - 1
  BY DEF Empty, Index
<1>2. c.buf = [i \in 0 .. n - 1 |-> Buffer(NoSector, FALSE, FALSE, <<>>)]
  BY DEF Empty, Buffer
<1> HIDE DEF c
<1>3. ASSUME NEW i \in 0 .. n - 1  PROVE c.buf[i] = Buffer(NoSector, FALSE, FALSE, <<>>)
  BY <1>2
<1>4. ASSUME NEW i \in 0 .. n - 1
      PROVE  /\ c.buf[i].cur = NoSector /\ c.buf[i].data = <<>>
             /\ c.buf[i].ref = FALSE /\ c.buf[i].dirty = FALSE
  <2>1. ASSUME NEW b, NEW no, b = Buffer(NoSector, no, no, <<>>)
        PROVE  b.cur = NoSector /\ b.ref = no /\ b.dirty = no /\ b.data = <<>>
    BY <2>1, BufferFields
  <2> QED BY <1>3, <2>1, Zenon
<1>5. c.buf = [i \in 0 .. n - 1 |-> Buffer(c.buf[i].cur, c.buf[i].ref, c.buf[i].dirty, c.buf[i].data)]
  BY <1>2, <1>4, Zenon
<1>6. \A i \in 0 .. n - 1 : /\ ~c.buf[i].dirty /\ c.buf[i].cur = NoSector
                           /\ c.buf[i].ref \in BOOLEAN /\ c.buf[i].dirty \in BOOLEAN
  BY <1>4
<1>7. \A s \in Nat : NoSector # s
  BY DEF NoSector
<1> QED BY <1>1, <1>5, <1>6, <1>7 DEF CacheOK, IsCache, OneBuffer, CleanIsOnDisk, Dirty, Holds, c

--------------------------------------------------------------------------------
(* Chains *)

\* 1 .. n has n elements.
LEMMA CardinalityTo ==
    ASSUME NEW n \in Nat  PROVE Cardinality(1 .. n) = n
<1>1. Cardinality(1 .. n) = IF 1 > n THEN 0 ELSE n - 1 + 1
  BY FS_Interval
<1> QED BY <1>1

\* A chain is no longer than there are clusters.
LEMMA ChainLength ==
    ASSUME NEW s \in Seq(Cluster), IsInjective(s)
    PROVE  Len(s) \in 0 .. total_data_clusters
<1>1. total_data_clusters \in Nat \ {0}
  BY FatAssumption
<1>2. IsFiniteSet(Cluster) /\ Cardinality(Cluster) = total_data_clusters
  BY <1>1, FS_Interval DEF Cluster, LastCluster
<1>3. s \in Injection(1 .. Len(s), Cluster) /\ Len(s) \in Nat
  <2>1. s \in [1 .. Len(s) -> Cluster] /\ Len(s) \in Nat /\ DOMAIN s = 1 .. Len(s)
    OBVIOUS
  <2> QED BY <2>1 DEF Injection, IsInjective
<1>4. Cardinality(1 .. Len(s)) <= Cardinality(Cluster)
  BY <1>2, <1>3, FS_Injection
<1>5. Cardinality(1 .. Len(s)) = Len(s)
  BY <1>3, CardinalityTo
<1> QED BY <1>1, <1>2, <1>3, <1>4, <1>5

\* A chain is what comes of following the table from its first cluster.
LEMMA FollowIs ==
    ASSUME NEW fat, NEW s, NEW c, IsChain(fat, s, c)
    PROVE  Follow(fat, c) = s
<1> DEFINE N == total_data_clusters
           tail == IF s = <<>> THEN c ELSE EOC
           w == [n \in 1 .. N |-> IF n <= Len(s) THEN s[n] ELSE tail]
           Eq(f) == f = [n \in 1 .. N |-> IF n = 1 THEN c
                                          ELSE LET d == f[n - 1] IN IF d \in Cluster THEN fat[d] ELSE d]
           walk == CHOOSE f : Eq(f)
<1>1. N \in Nat \ {0} /\ Len(s) \in 0 .. N /\ s \in Seq(Cluster)
  BY FatAssumption, ChainLength DEF IsChain
<1>2. tail \notin Cluster
  BY <1>1 DEF EOC, Cluster, LastCluster, IsChain
<1>3. Eq(w)
  <2> SUFFICES ASSUME NEW n \in 1 .. N
               PROVE  w[n] = IF n = 1 THEN c
                             ELSE LET d == w[n - 1] IN IF d \in Cluster THEN fat[d] ELSE d
    OBVIOUS
  <2>1. CASE n = 1
    BY <1>1, <2>1 DEF IsChain
  <2>2. CASE n # 1 /\ n <= Len(s)
    <3>1. w[n - 1] = s[n - 1] /\ w[n] = s[n] /\ s[n - 1] \in Cluster
      BY <1>1, <2>2
    <3>2. fat[s[n - 1]] = s[n]
      BY <1>1, <2>2 DEF IsChain
    <3> QED BY <2>2, <3>1, <3>2
  <2>3. CASE n # 1 /\ n = Len(s) + 1
    <3>1. w[n - 1] = s[Len(s)] /\ s[Len(s)] \in Cluster /\ fat[s[Len(s)]] = EOC /\ s # <<>>
      BY <1>1, <2>3 DEF IsChain
    <3> QED BY <2>3, <3>1
  <2>4. CASE n # 1 /\ n > Len(s) + 1
    <3>1. w[n - 1] = tail /\ w[n] = tail
      BY <1>1, <2>4
    <3> QED BY <1>2, <2>4, <3>1
  <2> QED BY <1>1, <2>1, <2>2, <2>3, <2>4
<1> HIDE DEF w
<1>4. Eq(walk)
  BY <1>3
<1>5. Follow(fat, c) = [i \in 1 .. Cardinality({ n \in 1 .. N : walk[n] \in Cluster }) |-> walk[i]]
  BY DEF Follow
<1> HIDE DEF walk
<1>6. \A n \in 1 .. N : walk[n] = w[n]
  <2> DEFINE T == { n \in 1 .. N : walk[n] # w[n] }
  <2> SUFFICES ASSUME T # {}  PROVE FALSE
    OBVIOUS
  <2>1. PICK n \in T : \A y \in T : n <= y
    <3>1. T \in SUBSET Nat
      BY <1>1
    <3> QED BY <3>1, LeastNat
  <2>2. n # 1
    BY <1>3, <1>4, <2>1
  <2>3. n - 1 \in 1 .. N /\ walk[n - 1] = w[n - 1]
    BY <1>1, <2>1, <2>2
  <2>4. walk[n] = LET d == walk[n - 1] IN IF d \in Cluster THEN fat[d] ELSE d
    BY <1>4, <2>1, <2>2
  <2>5. w[n] = LET d == w[n - 1] IN IF d \in Cluster THEN fat[d] ELSE d
    BY <1>3, <2>1, <2>2
  <2> QED BY <2>1, <2>3, <2>4, <2>5
<1>7. { n \in 1 .. N : walk[n] \in Cluster } = 1 .. Len(s)
  BY <1>1, <1>2, <1>6 DEF w
<1>8. Cardinality(1 .. Len(s)) = Len(s)
  BY <1>1, CardinalityTo
<1>9. \A i \in 1 .. Len(s) : walk[i] = s[i]
  BY <1>1, <1>6 DEF w
<1>10. s = [i \in 1 .. Len(s) |-> s[i]]
  BY <1>1
<1>11. Follow(fat, c) = [i \in 1 .. Len(s) |-> walk[i]]
  BY <1>5, <1>7, <1>8
<1> QED BY <1>9, <1>10, <1>11

\* A chain does not depend on the other clusters.
LEMMA ChainFrame ==
    ASSUME NEW fat, NEW s, NEW c, IsChain(fat, s, c), NEW fat2, \A x \in Range(s) : fat2[x] = fat[x]
    PROVE  IsChain(fat2, s, c) /\ Follow(fat2, c) = s
<1>1. s \in Seq(Cluster) /\ Len(s) \in Nat /\ \A i \in 1 .. Len(s) : s[i] \in Range(s)
  BY DEF IsChain, Range
<1>2. s # <<>> => Len(s) \in 1 .. Len(s)
  BY <1>1
<1>3. IsChain(fat2, s, c)
  BY <1>1, <1>2 DEF IsChain
<1> QED BY <1>3, FollowIs

\* What the table has for a cluster of a chain.
LEMMA ChainNext ==
    ASSUME NEW fat, NEW s, NEW c, IsChain(fat, s, c)
    PROVE  /\ Len(s) \in 0 .. total_data_clusters /\ Range(s) \subseteq Cluster
           /\ \A i \in 1 .. Len(s) : s[i] \in Range(s) /\ s[i] \in Cluster
           /\ \A i \in 1 .. Len(s) - 1 : fat[s[i]] = s[i + 1]
           /\ s # <<>> => Len(s) \in 1 .. Len(s) /\ fat[s[Len(s)]] = EOC
           /\ \A x \in Range(s) : fat[x] \in Cluster \cup {EOC}
           /\ c \in Cluster => s # <<>> /\ c = s[1] /\ c \in Range(s)
           /\ c \notin Cluster => s = <<>> /\ Range(s) = {}
           /\ \A i, j \in 1 .. Len(s) : s[i] = s[j] => i = j
<1>1. s \in Seq(Cluster) /\ Len(s) \in 0 .. total_data_clusters /\ DOMAIN s = 1 .. Len(s)
  BY ChainLength DEF IsChain
<1>2. s # <<>> => Len(s) \in 1 .. Len(s)
  BY <1>1
<1>3. \A x \in Range(s) : \E i \in 1 .. Len(s) : x = s[i]
  BY <1>1 DEF Range
<1>4. \A i \in 1 .. Len(s) : s[i] \in Range(s) /\ s[i] \in Cluster
  BY <1>1 DEF Range
<1>5. ASSUME NEW i \in 1 .. Len(s)  PROVE fat[s[i]] \in Cluster \cup {EOC}
  <2>1. CASE i = Len(s)
    BY <1>1, <2>1 DEF IsChain
  <2>2. CASE i # Len(s)
    <3>1. i \in 1 .. Len(s) - 1 /\ i + 1 \in 1 .. Len(s)
      <4>1. ASSUME NEW L \in Nat, i \in 1 .. L, i # L  PROVE i \in 1 .. L - 1 /\ i + 1 \in 1 .. L
        BY <4>1
      <4>2. Len(s) \in Nat
        BY <1>1
      <4> QED BY <2>2, <4>1, <4>2
    <3> QED BY <1>4, <3>1 DEF IsChain
  <2> QED BY <2>1, <2>2
<1>6. c \in Cluster => s # <<>> /\ c = s[1] /\ c \in Range(s)
  BY <1>1, <1>2, <1>4 DEF IsChain
<1>7. c \notin Cluster => s = <<>> /\ Range(s) = {}
  <2>1. Range(<<>>) = {}
    BY DEF Range
  <2> QED BY <1>1, <1>2, <1>4, <2>1 DEF IsChain
<1>8. Range(s) \subseteq Cluster /\ \A x \in Range(s) : fat[x] \in Cluster \cup {EOC}
  BY <1>3, <1>4, <1>5
<1>9. /\ \A i \in 1 .. Len(s) - 1 : fat[s[i]] = s[i + 1]
      /\ s # <<>> => fat[s[Len(s)]] = EOC
  BY DEF IsChain
<1>10. \A i, j \in 1 .. Len(s) : s[i] = s[j] => i = j
  BY <1>1 DEF IsChain, IsInjective
<1> QED BY <1>1, <1>2, <1>4, <1>6, <1>7, <1>8, <1>9, <1>10

\* A free cluster at the end of a chain, or alone.
LEMMA ChainAppend ==
    ASSUME NEW fat, NEW s, NEW c, IsChain(fat, s, c), s # <<>>, NEW new \in Cluster \ Range(s),
           NEW fat2, \A x \in Range(s) \ {s[Len(s)]} : fat2[x] = fat[x],
           fat2[s[Len(s)]] = new, fat2[new] = EOC
    PROVE  /\ IsChain(fat2, Append(s, new), c) /\ Range(Append(s, new)) = Range(s) \cup {new}
           /\ Len(Append(s, new)) = Len(s) + 1 /\ Append(s, new)[Len(s) + 1] = new
           /\ \A i \in 1 .. Len(s) : Append(s, new)[i] = s[i]
<1> DEFINE t == Append(s, new)
<1>1. s \in Seq(Cluster) /\ Len(s) \in Nat /\ Len(s) >= 1 /\ IsInjective(s) /\ c \in Nat /\ s[1] = c
  BY DEF IsChain
<1>2. t \in Seq(Cluster) /\ IsInjective(t) /\ Range(t) = Range(s) \cup {new}
  BY <1>1, AppendRange
<1>3. Len(t) = Len(s) + 1 /\ t[Len(s) + 1] = new /\ \A i \in 1 .. Len(s) : t[i] = s[i]
  BY <1>1
<1>4. t # <<>>
  BY <1>1, <1>3
<1> HIDE DEF t
<1>5. ASSUME NEW i \in 1 .. Len(t) - 1  PROVE fat2[t[i]] = t[i + 1]
  <2>1. CASE i = Len(s)
    BY <1>1, <1>3, <2>1
  <2>2. CASE i # Len(s)
    <3>1. i \in 1 .. Len(s) - 1
      BY <1>1, <1>3, <2>2
    <3>2. s[i] \in Range(s) \ {s[Len(s)]} /\ fat[s[i]] = s[i + 1]
      BY <1>1, <3>1, ChainNext
    <3> QED BY <1>1, <1>3, <3>1, <3>2
  <2> QED BY <2>1, <2>2
<1>6. t[1] = c /\ fat2[t[Len(t)]] = EOC
  BY <1>1, <1>3
<1>7. IsChain(fat2, t, c)
  BY <1>1, <1>2, <1>4, <1>5, <1>6 DEF IsChain
<1> QED BY <1>2, <1>3, <1>7 DEF t

\* A cluster that names the end is a chain of one.
LEMMA ChainSingle ==
    ASSUME NEW fat, NEW new \in Cluster, fat[new] = EOC
    PROVE  /\ IsChain(fat, <<new>>, new) /\ Range(<<new>>) = {new}
           /\ Len(<<new>>) = 1 /\ <<new>>[1] = new
<1>1. <<new>> \in Seq(Cluster) /\ Len(<<new>>) = 1 /\ <<new>>[1] = new /\ DOMAIN <<new>> = 1 .. 1
  OBVIOUS
<1>2. IsInjective(<<new>>) /\ Range(<<new>>) = {new}
  BY <1>1 DEF IsInjective, Range
<1>3. new \in Nat
  BY FatAssumption DEF Cluster, LastCluster
<1>4. <<new>> # <<>>
  BY <1>1
<1> QED BY <1>1, <1>2, <1>3, <1>4 DEF IsChain

\* From what is no cluster there is no chain.
LEMMA ChainEmpty ==
    ASSUME NEW fat, NEW c \in Nat \ Cluster
    PROVE  IsChain(fat, <<>>, c) /\ Follow(fat, c) = <<>>
<1>1. <<>> \in Seq(Cluster) /\ Len(<<>>) = 0 /\ IsInjective(<<>>)
  BY DEF IsInjective
<1>2. IsChain(fat, <<>>, c)
  BY <1>1 DEF IsChain
<1> QED BY <1>2, FollowIs

\* The first cluster is freed.
LEMMA ChainDrop ==
    ASSUME NEW fat, NEW s, NEW c, IsChain(fat, s, c), c \in Cluster,
           NEW fat2, \A x \in Range(s) \ {c} : fat2[x] = fat[x]
    PROVE  IsChain(fat2, Tail(s), fat[c]) /\ Range(Tail(s)) = Range(s) \ {c}
<1> DEFINE t == Tail(s)
<1>1. s \in Seq(Cluster) /\ s # <<>> /\ s[1] = c /\ IsInjective(s) /\ Len(s) \in Nat /\ Len(s) >= 1
  BY ChainNext DEF IsChain
<1>2. t \in Seq(Cluster) /\ IsInjective(t) /\ Range(t) = Range(s) \ {c}
  BY <1>1, TailRange
<1>3. Len(t) = Len(s) - 1 /\ \A i \in 1 .. Len(s) - 1 : t[i] = s[i + 1]
  BY <1>1
<1>4. \A i \in 1 .. Len(s) - 1 : fat[s[i]] = s[i + 1] /\ s[i + 1] \in Range(s) \ {c}
  BY <1>1, ChainNext
<1>5. fat[s[Len(s)]] = EOC /\ EOC \in Nat \ Cluster /\ Cluster \subseteq Nat
  BY <1>1, FatAssumption, ChainNext DEF EOC, Cluster, LastCluster
<1> HIDE DEF t
<1>6. CASE Len(s) = 1
  <2>1. t = <<>>
    BY <1>2, <1>3, <1>6
  <2>2. fat[c] = EOC
    BY <1>1, <1>5, <1>6
  <2> QED BY <1>2, <1>5, <2>1, <2>2, ChainEmpty DEF t
<1>7. CASE Len(s) > 1
  <2>0. 1 \in 1 .. Len(s) - 1 /\ Len(t) = Len(s) - 1 /\ t # <<>>
    BY <1>1, <1>2, <1>3, <1>7
  <2>1. t # <<>> /\ t[1] = fat[c] /\ fat[c] \in Nat
    <3>1. fat[s[1]] = s[1 + 1] /\ t[1] = s[1 + 1] /\ s[1 + 1] \in Range(s)
      BY <1>3, <1>4, <2>0
    <3>2. Range(s) \subseteq Nat
      BY <1>5, ChainNext
    <3> QED BY <1>1, <2>0, <3>1, <3>2
  <2>2. fat2[t[Len(t)]] = EOC
    BY <1>1, <1>3, <1>4, <1>5, <1>7
  <2>3. ASSUME NEW i \in 1 .. Len(t) - 1  PROVE fat2[t[i]] = t[i + 1]
    <3>1. t[i] = s[i + 1] /\ t[i + 1] = s[i + 2] /\ i + 1 \in 1 .. Len(s) - 1
      BY <1>1, <1>3
    <3>2. fat[s[i + 1]] = s[i + 2] /\ s[i + 1] \in Range(s) \ {c}
      BY <1>1, <1>3, <1>4, <3>1
    <3> QED BY <3>1, <3>2
  <2>4. IsChain(fat2, t, fat[c])
    BY <1>2, <2>1, <2>2, <2>3 DEF IsChain
  <2> QED BY <1>2, <2>4 DEF t
<1>8. Len(s) = 1 \/ Len(s) > 1
  <2>1. Len(s) \in Nat /\ Len(s) >= 1
    BY <1>1, Zenon
  <2>2. ASSUME NEW L \in Nat, L >= 1  PROVE L = 1 \/ L > 1
    BY <2>2
  <2> QED BY <2>1, <2>2, Zenon
<1> QED BY <1>6, <1>7, <1>8, Zenon

\* The data region starts at a sector with a number.
LEMMA FirstSector == first_data_sector \in Nat
<1>1. LastCluster \in Nat /\ PerSector \in Nat \ {0}
  BY FatAssumption DEF LastCluster
<1>2. LastCluster \div PerSector \in Nat
  BY <1>1, DivMod
<1> QED BY <1>2 DEF first_data_sector, reserved_sectors

\* Where the sectors are, and that fs_dataclus2sec counts from the start of the card.
LEMMA SectorsApart ==
    /\ LastCluster \in Nat /\ LastCluster >= 2 /\ Cluster \subseteq Nat /\ 2 \in Cluster
    /\ EOC \in Nat \ Cluster /\ EOC > LastCluster /\ EOC # 0 /\ 0 \notin Cluster
    /\ FatSectors \subseteq Nat /\ FSInfo \in Nat /\ FSInfo \notin FatSectors
    /\ \A c \in Cluster : /\ FatSector(c) \in FatSectors /\ c % PerSector \in 0 .. PerSector - 1
                          /\ DataSector(c) \in Nat /\ DataSector(c) # FSInfo
                          /\ DataSector(c) \notin FatSectors
                          /\ base_addr = 0 => fs_dataclus2sec(c) = DataSector(c)
    /\ \A c, k \in Cluster : /\ DataSector(c) = DataSector(k) => c = k
                             /\ FatSector(c) = FatSector(k) /\ c % PerSector = k % PerSector => c = k
    /\ Sectors \subseteq Nat
<1> DEFINE P == PerSector
           L == LastCluster
<1>1. P \in Nat \ {0} /\ L \in Nat /\ L >= 2 /\ base_addr \in Nat
  BY FatAssumption DEF LastCluster
<1>2. /\ Cluster \subseteq Nat /\ 2 \in Cluster
      /\ EOC \in Nat \ Cluster /\ EOC > LastCluster /\ EOC # 0 /\ 0 \notin Cluster
      /\ \A c \in Cluster : c <= L /\ c >= 2
  BY <1>1 DEF Cluster, EOC
<1>3. \A c \in Nat : c \div P \in Nat /\ c % P \in 0 .. P - 1 /\ c = (c \div P) * P + (c % P)
  BY <1>1, DivMod
<1>4. ASSUME NEW c \in Cluster  PROVE c \div P <= L \div P
  <2>1. c \in Nat /\ c <= L
    BY <1>2
  <2> HIDE DEF P, L
  <2>2. PICK q \in Nat, r \in Nat : q = c \div P /\ c = q * P + r /\ r < P
    BY <1>1, <2>1, DivMod
  <2>3. PICK u \in Nat, v \in Nat : u = L \div P /\ L = u * P + v /\ v < P
    BY <1>1, DivMod
  <2>4. q <= u
    <3> SUFFICES ASSUME q >= u + 1  PROVE FALSE
      BY <2>2, <2>3
    <3>1. q * P >= (u + 1) * P
      BY <1>1
    <3>2. (u + 1) * P = u * P + P /\ u * P \in Nat /\ q * P \in Nat
      BY <1>1
    <3> QED BY <1>1, <2>1, <2>2, <2>3, <3>1, <3>2
  <2> QED BY <2>2, <2>3, <2>4
<1>5. \A c \in Cluster : FatSector(c) = base_addr + 2 + c \div P /\ FatSector(c) \in Nat /\ FatSector(c) \in FatSectors
  BY <1>1, <1>2, <1>3 DEF FatSector, FatSectors, reserved_sectors
<1>6. \A c \in Cluster : /\ DataSector(c) = base_addr + (2 + 2 * (L \div P + 1) + c - 2) /\ DataSector(c) \in Nat
                         /\ base_addr = 0 => fs_dataclus2sec(c) = DataSector(c)
  BY <1>1, <1>2, <1>3 DEF DataSector, fs_dataclus2sec, first_data_sector, reserved_sectors
<1>7. FSInfo = base_addr + 1 /\ FSInfo \notin FatSectors
  <2>1. FSInfo = base_addr + 1
    BY DEF FSInfo
  <2> QED BY <2>1, <1>1, <1>2, <1>3, <1>5 DEF FatSectors
<1>8. FatSectors \subseteq Nat
  BY <1>5 DEF FatSectors
<1>9. ASSUME NEW c \in Cluster
      PROVE  DataSector(c) # FSInfo /\ DataSector(c) \notin FatSectors
  <2>1. L \div P \in Nat /\ c >= 2 /\ c \in Nat
    BY <1>1, <1>2, <1>3
  <2>2. DataSector(c) > base_addr + 2 + L \div P
    BY <1>1, <1>6, <2>1
  <2>3. \A k \in Cluster : FatSector(k) <= base_addr + 2 + L \div P
    <3> SUFFICES ASSUME NEW k \in Cluster  PROVE FatSector(k) <= base_addr + 2 + L \div P
      OBVIOUS
    <3>1. k \div P \in Nat /\ k \div P <= L \div P
      BY <1>2, <1>3, <1>4
    <3>2. FatSector(k) = base_addr + 2 + k \div P
      BY <1>5
    <3>3. \A i, j \in Nat : i <= j => base_addr + 2 + i <= base_addr + 2 + j
      BY <1>1
    <3> HIDE DEF P, L
    <3> QED BY <2>1, <3>1, <3>2, <3>3, Zenon
  <2>4. DataSector(c) \in Nat
    BY <1>6
  <2> QED BY <1>1, <1>5, <1>7, <2>1, <2>2, <2>3, <2>4 DEF FatSectors
<1>10. ASSUME NEW c \in Cluster, NEW k \in Cluster
       PROVE  /\ DataSector(c) = DataSector(k) => c = k
              /\ FatSector(c) = FatSector(k) /\ c % P = k % P => c = k
  <2>1. c \in Nat /\ k \in Nat /\ L \div P \in Nat
    BY <1>1, <1>2, <1>3
  <2>2. c \div P \in Nat /\ k \div P \in Nat /\ c = (c \div P) * P + (c % P) /\ k = (k \div P) * P + (k % P)
    BY <1>3, <2>1
  <2>3. DataSector(c) = DataSector(k) => c = k
    BY <1>1, <1>6, <2>1
  <2>4. FatSector(c) = FatSector(k) => c \div P = k \div P
    BY <1>1, <1>5, <2>2
  <2> QED BY <2>2, <2>3, <2>4
<1>11. Sectors \subseteq Nat
  <2>1. FSInfo \in Nat
    BY <1>1, <1>7
  <2> QED BY <2>1, <1>6, <1>7, <1>8 DEF Sectors, DataSectors
<1>12. FSInfo \in Nat
  BY <1>1, <1>7
<1> QED BY <1>12, <1>1, <1>2, <1>3, <1>5, <1>6, <1>7, <1>8, <1>9, <1>10, <1>11

--------------------------------------------------------------------------------
(* The FAT, the directory and the data of a file, each through its cache *)

\* The FAT has gone on: what the buffers and the sectors hold is a FAT, and on the disk
\* each cluster has what it had, or what users saw.
FatMoved ==
    /\ disk' = [s \in Sectors |-> disk'[s]]
    /\ CacheOK(fat_buf', FAT_BUF_NUM, FatSectors, disk')
    /\ \A s \in FatSectors : disk'[s] \in FatTable /\ Seen(fat_buf', s, disk') \in FatTable
    /\ \A k \in Cluster : FATOnDisk'[k] \in {FATOnDisk[k], FAT[k]}

\* The same of the buffers of the directory.
DirMoved ==
    /\ CacheOK(dir_data_buf', DIR_DATA_BUF_NUM, {RootSector}, disk')
    /\ RootOnDisk' \in RootTable /\ Root' \in RootTable
    /\ \A i \in DirSlot : RootOnDisk'[i] \in {RootOnDisk[i], Root[i]}

\* The buffers of the open file are as Caches says.
FileCache == CacheOK(file.data_buf, LOCAL_DATA_BUF_NUM, DataSectors(Loaded), disk)

\* The disk has not changed but in the sectors of T.
Except(T) == \A s \in Sectors \ T : disk'[s] = disk[s]

\* The parts of Caches and Tables, put together.
LEMMA StoredOK ==
    ASSUME FatMoved, DirMoved, FileCache'
    PROVE  Caches' /\ Tables'
BY DEF FatMoved, DirMoved, FileCache, Caches, Tables

\* The sectors each cache is for are on the disk.
LEMMA SectorSets ==
    ASSUME Caches
    PROVE  /\ IsDisk(disk, FatSectors) /\ IsDisk(disk, {RootSector}) /\ RootSector \in Sectors
           /\ \A C \in SUBSET Cluster : IsDisk(disk, DataSectors(C))
           /\ DOMAIN disk = Sectors /\ FatSectors \subseteq Sectors
           /\ RootSector \notin FatSectors /\ FSInfo \notin FatSectors
           /\ \A c \in Cluster : DataSector(c) \in Sectors
<1>1. DOMAIN disk = Sectors /\ Sectors \subseteq Nat /\ disk = [s \in DOMAIN disk |-> disk[s]]
  BY SectorsApart DEF Caches
<1>2. \A c \in Cluster : DataSector(c) \in Sectors
  BY DEF Sectors, DataSectors
<1>3. RootSector \in Sectors /\ RootSector \notin FatSectors /\ FSInfo \notin FatSectors
  BY <1>2, SectorsApart DEF RootSector
<1>4. FatSectors \subseteq Sectors
  BY DEF Sectors
<1> QED BY <1>1, <1>2, <1>3, <1>4 DEF IsDisk, DataSectors

\* The entry of a cluster.
LEMMA EntryIs ==
    ASSUME Tables, NEW c \in Cluster
    PROVE  FAT[c] = Entry(c) /\ FAT[c] \in Nat /\ FAT = [k \in Cluster |-> FAT[k]]
<1>1. Seen(fat_buf, FatSector(c), disk) \in FatTable /\ c % PerSector \in 0 .. PerSector - 1
  BY SectorsApart DEF Tables
<1> QED BY <1>1 DEF FAT, Entry, FatTable

\* Reading the FAT, and writing its buffers.
LEMMA FatKept ==
    ASSUME Caches, Tables,
           Kept(fat_buf, disk, fat_buf', disk', FAT_BUF_NUM, FatSectors)
    PROVE  FatMoved /\ FAT' = FAT /\ Except(FatSectors)
<1>1. /\ CacheOK(fat_buf', FAT_BUF_NUM, FatSectors, disk')
      /\ \A s \in FatSectors : Seen(fat_buf', s, disk') = Seen(fat_buf, s, disk)
      /\ Partly(fat_buf, disk, disk', FatSectors)
  BY DEF Kept
<1>2. DOMAIN disk = Sectors /\ FatSectors \subseteq Sectors
  BY SectorSets
<1>3. /\ disk' = [s \in Sectors |-> disk'[s]] /\ Except(FatSectors)
      /\ \A s \in FatSectors : disk'[s] = disk[s] \/ disk'[s] = Seen(fat_buf, s, disk)
  BY <1>1, <1>2 DEF Partly, Except
<1>4. \A s \in FatSectors : disk'[s] \in FatTable /\ Seen(fat_buf', s, disk') \in FatTable
  BY <1>1, <1>3 DEF Tables
<1>5. \A k \in Cluster : FatSector(k) \in FatSectors
  BY SectorsApart
<1>6. FAT' = FAT
  BY <1>1, <1>5 DEF FAT, Entry
<1>7. \A k \in Cluster : FATOnDisk'[k] \in {FATOnDisk[k], FAT[k]}
  BY <1>3, <1>5 DEF FATOnDisk, FAT, Entry
<1> QED BY <1>1, <1>3, <1>4, <1>6, <1>7 DEF FatMoved

\* Reading an entry of the FAT changes no entry.
LEMMA FatRead ==
    ASSUME Caches, Tables, NEW c \in Cluster, get_fat_entry_value(c)
    PROVE  FatMoved /\ FAT' = FAT /\ Except(FatSectors)
<1>1. CacheOK(fat_buf, FAT_BUF_NUM, FatSectors, disk) /\ IsDisk(disk, FatSectors) /\ FAT_BUF_NUM \in Nat \ {0}
  BY SectorSets, FatAssumption DEF Caches
<1>2. FatSector(c) \in FatSectors
  BY SectorsApart
<1>3. Kept(fat_buf, disk, Fetched(fat_buf, FatSector(c), disk), Fetching(fat_buf, FatSector(c), disk),
           FAT_BUF_NUM, FatSectors)
  BY <1>1, <1>2, FetchedOK
<1> QED BY <1>3, FatKept DEF get_fat_entry_value

\* Nor does writing a buffer of the FAT to the disk.
LEMMA FatWritten ==
    ASSUME Caches, Tables, FlushFat
    PROVE  FatMoved /\ FAT' = FAT /\ Except(FatSectors)
<1>1. CacheOK(fat_buf, FAT_BUF_NUM, FatSectors, disk) /\ IsDisk(disk, FatSectors) /\ FAT_BUF_NUM \in Nat \ {0}
  BY SectorSets, FatAssumption DEF Caches
<1>2. NextDirty(fat_buf) \in Dirty(fat_buf)
  <2>1. Index(fat_buf) = 0 .. FAT_BUF_NUM - 1
    BY <1>1, IndexOfCache
  <2>2. Dirty(fat_buf) \in SUBSET Nat /\ Dirty(fat_buf) # {}
    BY <1>1, <2>1 DEF Dirty, FlushFat
  <2> QED BY <2>2, MinIsLeast DEF NextDirty
<1>3. Kept(fat_buf, disk, fat_buf', disk', FAT_BUF_NUM, FatSectors)
  BY <1>1, <1>2, FlushedOK DEF FlushFat
<1> QED BY <1>3, FatKept

\* An entry of the FAT is set.
LEMMA FatModified ==
    ASSUME Caches, Tables, NEW c \in Cluster, NEW v \in Nat, fs_modify_fat(c, v)
    PROVE  FatMoved /\ FAT' = [FAT EXCEPT ![c] = v] /\ Except(FatSectors)
<1> DEFINE s == FatSector(c)
           b1 == Fetched(fat_buf, s, disk)
           d1 == Fetching(fat_buf, s, disk)
           x == [Seen(fat_buf, s, disk) EXCEPT ![c % PerSector] = v]
<1>1. CacheOK(fat_buf, FAT_BUF_NUM, FatSectors, disk) /\ IsDisk(disk, FatSectors) /\ FAT_BUF_NUM \in Nat \ {0}
  BY SectorSets, FatAssumption DEF Caches
<1>2. s \in FatSectors
  BY SectorsApart
<1>3. Kept(fat_buf, disk, b1, d1, FAT_BUF_NUM, FatSectors) /\ Holds(b1, s)
  BY <1>1, <1>2, FetchedOK
<1>4. fat_buf' = Modified(b1, s, x) /\ disk' = d1
  BY DEF fs_modify_fat
<1> HIDE DEF b1, d1, x, s
<1>5. /\ CacheOK(b1, FAT_BUF_NUM, FatSectors, d1)
      /\ \A t \in FatSectors : Seen(b1, t, d1) = Seen(fat_buf, t, disk)
      /\ Partly(fat_buf, disk, d1, FatSectors)
  BY <1>3 DEF Kept
<1>6. IsDisk(d1, FatSectors)
  BY <1>1, <1>5, StillDisk
<1>7. NowSeen(b1, d1, fat_buf', disk', FAT_BUF_NUM, FatSectors, s, x)
  BY <1>1, <1>2, <1>3, <1>4, <1>5, <1>6, ModifiedOK
<1>8. /\ CacheOK(fat_buf', FAT_BUF_NUM, FatSectors, disk') /\ Seen(fat_buf', s, disk') = x
      /\ \A t \in FatSectors \ {s} : Seen(fat_buf', t, disk') = Seen(fat_buf, t, disk)
  BY <1>5, <1>7 DEF NowSeen
<1>9. DOMAIN disk = Sectors /\ FatSectors \subseteq Sectors
  BY SectorSets
<1>10. /\ disk' = [t \in Sectors |-> disk'[t]] /\ Except(FatSectors)
       /\ \A t \in FatSectors : disk'[t] = disk[t] \/ disk'[t] = Seen(fat_buf, t, disk)
  BY <1>4, <1>5, <1>9 DEF Partly, Except
<1>11. c % PerSector \in 0 .. PerSector - 1 /\ Seen(fat_buf, s, disk) \in FatTable
  BY <1>2, SectorsApart DEF Tables
<1>12. x \in FatTable
  BY <1>11 DEF x, FatTable
<1>13. \A t \in FatSectors : disk'[t] \in FatTable /\ Seen(fat_buf', t, disk') \in FatTable
  BY <1>8, <1>10, <1>12 DEF Tables
<1>14. \A k \in Cluster : FatSector(k) \in FatSectors /\ k % PerSector \in 0 .. PerSector - 1
  BY SectorsApart
<1>15. \A k \in Cluster : FATOnDisk'[k] \in {FATOnDisk[k], FAT[k]}
  BY <1>10, <1>14 DEF FATOnDisk, FAT, Entry
<1>16. FAT' = [FAT EXCEPT ![c] = v]
  <2>1. FAT' = [k \in Cluster |-> Entry(k)'] /\ FAT = [k \in Cluster |-> Entry(k)]
    BY DEF FAT
  <2> SUFFICES ASSUME NEW k \in Cluster  PROVE Entry(k)' = IF k = c THEN v ELSE Entry(k)
    BY <2>1
  <2>2. Entry(k)' = Seen(fat_buf', FatSector(k), disk')[k % PerSector]
    BY DEF Entry
  <2>3. Entry(k) = Seen(fat_buf, FatSector(k), disk)[k % PerSector]
    BY DEF Entry
  <2>4. CASE FatSector(k) # s
    BY <1>8, <1>14, <2>2, <2>3, <2>4 DEF s
  <2>5. CASE FatSector(k) = s
    <3>1. k = c \/ k % PerSector # c % PerSector
      BY <2>5, SectorsApart DEF s
    <3>2. x[k % PerSector] = IF k % PerSector = c % PerSector THEN v ELSE Seen(fat_buf, s, disk)[k % PerSector]
      BY <1>11, <1>14 DEF x, FatTable
    <3> QED BY <1>8, <2>2, <2>3, <2>5, <3>1, <3>2
  <2> QED BY <2>4, <2>5
<1> QED BY <1>8, <1>10, <1>13, <1>15, <1>16 DEF FatMoved

\* Steps that leave the sectors of the FAT alone.
LEMMA FatUntouched ==
    ASSUME Caches, Tables, fat_buf' = fat_buf, disk' = [s \in Sectors |-> disk'[s]],
           \A s \in FatSectors : disk'[s] = disk[s]
    PROVE  FatMoved /\ FAT' = FAT /\ FATOnDisk' = FATOnDisk
<1>1. CacheOK(fat_buf, FAT_BUF_NUM, FatSectors, disk) /\ IsDisk(disk, FatSectors) /\ FAT_BUF_NUM \in Nat \ {0}
  BY SectorSets, FatAssumption DEF Caches
<1>2. /\ CacheOK(fat_buf', FAT_BUF_NUM, FatSectors, disk')
      /\ \A s \in FatSectors : Seen(fat_buf', s, disk') = Seen(fat_buf, s, disk)
  BY <1>1, OtherSectors
<1>3. \A s \in FatSectors : disk'[s] \in FatTable /\ Seen(fat_buf', s, disk') \in FatTable
  BY <1>2 DEF Tables
<1>4. \A k \in Cluster : FatSector(k) \in FatSectors
  BY SectorsApart
<1>5. FAT' = FAT
  BY <1>2, <1>4 DEF FAT, Entry
<1>6. FATOnDisk' = FATOnDisk
  BY <1>4 DEF FATOnDisk
<1> QED BY <1>2, <1>3, <1>5, <1>6 DEF FatMoved

--------------------------------------------------------------------------------

\* Steps that leave the sector of the directory alone.
LEMMA DirUntouched ==
    ASSUME Caches, Tables, dir_data_buf' = dir_data_buf, disk'[RootSector] = disk[RootSector]
    PROVE  DirMoved /\ Root' = Root /\ RootOnDisk' = RootOnDisk
<1>1. /\ CacheOK(dir_data_buf, DIR_DATA_BUF_NUM, {RootSector}, disk) /\ IsDisk(disk, {RootSector})
      /\ DIR_DATA_BUF_NUM \in Nat \ {0}
  BY SectorSets, FatAssumption DEF Caches
<1>2. /\ CacheOK(dir_data_buf', DIR_DATA_BUF_NUM, {RootSector}, disk')
      /\ \A s \in {RootSector} : Seen(dir_data_buf', s, disk') = Seen(dir_data_buf, s, disk)
  BY <1>1, OtherSectors
<1>3. Root' = Root /\ RootOnDisk' = RootOnDisk
  BY <1>2 DEF Root, RootOnDisk
<1> QED BY <1>2, <1>3 DEF DirMoved, Tables

\* Fetching the one sector of the directory writes nothing.
LEMMA RootFetched ==
    ASSUME Caches, Tables
    PROVE  /\ Kept(dir_data_buf, disk, Fetched(dir_data_buf, RootSector, disk), disk,
                   DIR_DATA_BUF_NUM, {RootSector})
           /\ Holds(Fetched(dir_data_buf, RootSector, disk), RootSector)
<1> DEFINE c == dir_data_buf
           n == DIR_DATA_BUF_NUM
           S == {RootSector}
<1>1. CacheOK(c, n, S, disk) /\ IsDisk(disk, S) /\ n \in Nat \ {0} /\ RootSector \in S
  BY SectorSets, FatAssumption DEF Caches
<1>2. /\ Kept(c, disk, Fetched(c, RootSector, disk), Fetching(c, RootSector, disk), n, S)
      /\ Holds(Fetched(c, RootSector, disk), RootSector)
  BY <1>1, FetchedOK
<1>3. Fetching(c, RootSector, disk) = disk
  <2>1. CASE Holds(c, RootSector)
    BY <2>1 DEF Fetching
  <2>2. CASE ~Holds(c, RootSector)
    <3>1. Index(c) = 0 .. n - 1
      BY <1>1, IndexOfCache
    <3>2. \A i \in 0 .. n - 1 : /\ c.buf[i].cur \in S \cup {NoSector}
                                /\ c.buf[i].cur = NoSector => ~c.buf[i].dirty
      BY <1>1 DEF CacheOK
    <3> HIDE DEF c, n
    <3>3. Dirty(c) = {}
      BY <2>2, <3>1, <3>2 DEF Dirty, Holds
    <3> QED BY <1>1, <3>3, NothingDirty
  <2> QED BY <2>1, <2>2
<1> QED BY <1>2, <1>3

\* What keeps the buffers of the directory keeps the directory.
LEMMA DirKept ==
    ASSUME Caches, Tables,
           Kept(dir_data_buf, disk, dir_data_buf', disk', DIR_DATA_BUF_NUM, {RootSector})
    PROVE  /\ DirMoved /\ Root' = Root /\ Except({RootSector})
           /\ disk' = [s \in Sectors |-> disk'[s]]
<1>1. /\ CacheOK(dir_data_buf', DIR_DATA_BUF_NUM, {RootSector}, disk')
      /\ Seen(dir_data_buf', RootSector, disk') = Seen(dir_data_buf, RootSector, disk)
      /\ Partly(dir_data_buf, disk, disk', {RootSector})
  BY DEF Kept
<1>2. DOMAIN disk = Sectors /\ RootSector \in Sectors
  BY SectorSets
<1>3. /\ Except({RootSector}) /\ disk' = [s \in Sectors |-> disk'[s]]
      /\ disk'[RootSector] \in {disk[RootSector], Seen(dir_data_buf, RootSector, disk)}
  BY <1>1, <1>2 DEF Partly, Except
<1>4. Root' = Root /\ RootOnDisk' \in {RootOnDisk, Root}
  BY <1>1, <1>3 DEF Root, RootOnDisk
<1> QED BY <1>1, <1>3, <1>4 DEF DirMoved, Tables

\* Reading the directory does not change it.
LEMMA DirRead ==
    ASSUME Caches, Tables, ReadRoot, disk' = disk
    PROVE  DirMoved /\ Root' = Root /\ RootOnDisk' = RootOnDisk
<1>1. Kept(dir_data_buf, disk, dir_data_buf', disk', DIR_DATA_BUF_NUM, {RootSector})
  BY RootFetched DEF ReadRoot
<1> QED BY <1>1, DirKept DEF RootOnDisk

\* Nor does writing it to the disk.
LEMMA DirWritten ==
    ASSUME Caches, Tables, FlushDir
    PROVE  /\ DirMoved /\ Root' = Root /\ Except({RootSector})
           /\ disk' = [s \in Sectors |-> disk'[s]]
<1>1. /\ CacheOK(dir_data_buf, DIR_DATA_BUF_NUM, {RootSector}, disk) /\ IsDisk(disk, {RootSector})
      /\ DIR_DATA_BUF_NUM \in Nat \ {0}
  BY SectorSets, FatAssumption DEF Caches
<1>2. NextDirty(dir_data_buf) \in Dirty(dir_data_buf)
  <2>1. Index(dir_data_buf) = 0 .. DIR_DATA_BUF_NUM - 1
    BY <1>1, IndexOfCache
  <2>2. Dirty(dir_data_buf) \in SUBSET Nat /\ Dirty(dir_data_buf) # {}
    BY <1>1, <2>1 DEF Dirty, FlushDir
  <2> QED BY <2>2, MinIsLeast DEF NextDirty
<1>3. Kept(dir_data_buf, disk, dir_data_buf', disk', DIR_DATA_BUF_NUM, {RootSector})
  BY <1>1, <1>2, FlushedOK DEF FlushDir
<1> QED BY <1>3, DirKept

\* SetRoot sets one entry, for users and not on the disk.
LEMMA DirModified ==
    ASSUME Caches, Tables, NEW i \in DirSlot, NEW e \in Entries, SetRoot(i, e), disk' = disk
    PROVE  DirMoved /\ Root' = [Root EXCEPT ![i] = e] /\ RootOnDisk' = RootOnDisk
<1> DEFINE c == Fetched(dir_data_buf, RootSector, disk)
           n == DIR_DATA_BUF_NUM
           S == {RootSector}
           x == [Root EXCEPT ![i] = e]
<1>1. IsDisk(disk, S) /\ n \in Nat \ {0} /\ RootSector \in S
  BY SectorSets, FatAssumption
<1>2. CacheOK(c, n, S, disk) /\ Holds(c, RootSector)
  BY RootFetched DEF Kept
<1>3. dir_data_buf' = Modified(c, RootSector, x)
  BY DEF SetRoot
<1> HIDE DEF c, x
<1>4. NowSeen(c, disk, dir_data_buf', disk', n, S, RootSector, x)
  BY <1>1, <1>2, <1>3, ModifiedOK
<1>5. CacheOK(dir_data_buf', n, S, disk') /\ Root' = x
  BY <1>4 DEF NowSeen, Root
<1>6. x \in RootTable
  BY DEF x, Tables, RootTable
<1>7. RootOnDisk' = RootOnDisk
  BY DEF RootOnDisk
<1> QED BY <1>5, <1>6, <1>7 DEF DirMoved, Tables, x

--------------------------------------------------------------------------------

\* Steps that leave the clusters of the open file alone.
LEMMA DataUntouched ==
    ASSUME Caches, Loaded \subseteq Cluster, file'.data_buf = file.data_buf,
           \A c \in Loaded : disk'[DataSector(c)] = disk[DataSector(c)]
    PROVE  CacheOK(file'.data_buf, LOCAL_DATA_BUF_NUM, DataSectors(Loaded), disk')
<1>1. /\ CacheOK(file.data_buf, LOCAL_DATA_BUF_NUM, DataSectors(Loaded), disk)
      /\ IsDisk(disk, DataSectors(Loaded)) /\ LOCAL_DATA_BUF_NUM \in Nat \ {0}
  BY SectorSets, FatAssumption DEF Caches
<1>2. \A s \in DataSectors(Loaded) : disk'[s] = disk[s]
  BY DEF DataSectors
<1> QED BY <1>1, <1>2, OtherSectors

\* The clusters of the open file have gone on.
DataMoved ==
    /\ CacheOK(file'.data_buf, LOCAL_DATA_BUF_NUM, DataSectors(Loaded), disk')
    /\ disk' = [s \in Sectors |-> disk'[s]] /\ Except(DataSectors(Loaded))

\* Fetching a cluster of the open file touches only sectors of its clusters.
LEMMA DataFetched ==
    ASSUME Caches, Loaded \subseteq Cluster, NEW c \in Loaded,
           file'.data_buf = Fetched(file.data_buf, DataSector(c), disk),
           disk' = Fetching(file.data_buf, DataSector(c), disk)
    PROVE  DataMoved
<1>1. /\ CacheOK(file.data_buf, LOCAL_DATA_BUF_NUM, DataSectors(Loaded), disk)
      /\ IsDisk(disk, DataSectors(Loaded)) /\ LOCAL_DATA_BUF_NUM \in Nat \ {0}
      /\ DOMAIN disk = Sectors
  BY SectorSets, FatAssumption DEF Caches
<1>2. DataSector(c) \in DataSectors(Loaded)
  BY DEF DataSectors
<1>3. Kept(file.data_buf, disk, file'.data_buf, disk', LOCAL_DATA_BUF_NUM, DataSectors(Loaded))
  BY <1>1, <1>2, FetchedOK
<1> QED BY <1>1, <1>3 DEF Kept, Partly, DataMoved, Except

\* So does overwriting one that was fetched.
LEMMA DataModified ==
    ASSUME Caches, Loaded \subseteq Cluster, NEW c \in Loaded, NEW x,
           file'.data_buf = Modified(Fetched(file.data_buf, DataSector(c), disk), DataSector(c), x),
           disk' = Fetching(file.data_buf, DataSector(c), disk)
    PROVE  DataMoved
<1> DEFINE b == Fetched(file.data_buf, DataSector(c), disk)
           S == DataSectors(Loaded)
<1>1. /\ CacheOK(file.data_buf, LOCAL_DATA_BUF_NUM, S, disk)
      /\ IsDisk(disk, S) /\ LOCAL_DATA_BUF_NUM \in Nat \ {0}
      /\ DOMAIN disk = Sectors
  BY SectorSets, FatAssumption DEF Caches
<1>2. DataSector(c) \in S
  BY DEF DataSectors
<1> HIDE DEF S
<1>3. Kept(file.data_buf, disk, b, disk', LOCAL_DATA_BUF_NUM, S) /\ Holds(b, DataSector(c))
  BY <1>1, <1>2, FetchedOK
<1> HIDE DEF b
<1>4. CacheOK(b, LOCAL_DATA_BUF_NUM, S, disk') /\ Partly(file.data_buf, disk, disk', S)
  BY <1>3 DEF Kept
<1>5. IsDisk(disk', S)
  BY <1>1, <1>4, StillDisk
<1>6. NowSeen(b, disk', Modified(b, DataSector(c), x), disk', LOCAL_DATA_BUF_NUM, S, DataSector(c), x)
  BY <1>1, <1>2, <1>3, <1>4, <1>5, ModifiedOK
<1> QED BY <1>1, <1>4, <1>6 DEF NowSeen, Partly, DataMoved, Except, b, S

\* So does writing a buffer of the file to the disk.
LEMMA DataWritten ==
    ASSUME Caches, Loaded \subseteq Cluster, FlushData,
           file'.data_buf = Flushed(file.data_buf, NextDirty(file.data_buf))
    PROVE  DataMoved
<1> DEFINE S == DataSectors(Loaded)
           c == file.data_buf
<1>1. /\ CacheOK(c, LOCAL_DATA_BUF_NUM, S, disk)
      /\ IsDisk(disk, S) /\ LOCAL_DATA_BUF_NUM \in Nat \ {0}
      /\ DOMAIN disk = Sectors
  BY SectorSets, FatAssumption DEF Caches
<1>2. NextDirty(c) \in Dirty(c)
  <2>1. Index(c) = 0 .. LOCAL_DATA_BUF_NUM - 1
    BY <1>1, IndexOfCache
  <2>2. Dirty(c) \in SUBSET Nat /\ Dirty(c) # {}
    BY <1>1, <2>1 DEF Dirty, FlushData
  <2> QED BY <2>2, MinIsLeast DEF NextDirty
<1>3. Kept(c, disk, file'.data_buf, disk', LOCAL_DATA_BUF_NUM, S)
  BY <1>1, <1>2, FlushedOK DEF FlushData
<1> QED BY <1>1, <1>3 DEF Kept, Partly, DataMoved, Except

\* A cluster erased on the disk comes into the buffers as zeros.
LEMMA DataCleared ==
    ASSUME Caches, base_addr = 0, Loaded \subseteq Cluster, NEW c \in Cluster \ Loaded,
           file'.data_buf = Cleared(file.data_buf, fs_dataclus2sec(c), Zeros),
           disk' = Evicted(file.data_buf, disk), disk[DataSector(c)] = Zeros
    PROVE  /\ CacheOK(file'.data_buf, LOCAL_DATA_BUF_NUM, DataSectors(Loaded \cup {c}), disk')
           /\ disk' = [s \in Sectors |-> disk'[s]] /\ Except(DataSectors(Loaded))
<1> DEFINE S == DataSectors(Loaded)
           T == DataSectors(Loaded \cup {c})
           b == file.data_buf
           s == DataSector(c)
           n == LOCAL_DATA_BUF_NUM
<1>1. /\ CacheOK(b, n, S, disk)
      /\ IsDisk(disk, S) /\ IsDisk(disk, T) /\ n \in Nat \ {0}
      /\ DOMAIN disk = Sectors
  BY SectorSets, FatAssumption DEF Caches
<1>2. S \subseteq T /\ s \in T
  BY DEF DataSectors
<1>3. s \notin S /\ fs_dataclus2sec(c) = s
  BY SectorsApart DEF DataSectors
<1> HIDE DEF S, T, b, s, n
<1>4. CacheOK(b, n, T, disk)
  BY <1>1, <1>2, MoreSectors
<1>5. Index(b) = 0 .. n - 1 /\ fs_victim(b) \in 0 .. n - 1
  BY <1>1, IndexOfCache, VictimIsBuffer
<1>6. ~Holds(b, s)
  <2>1. s \in Nat /\ \A i \in 0 .. n - 1 : b.buf[i].cur \in S \cup {NoSector}
    BY <1>1, SectorsApart DEF CacheOK, s
  <2> QED BY <1>3, <1>5, <2>1 DEF Holds, NoSector
<1>7. Partly(b, disk, disk', S)
  BY <1>1, <1>5, WrittenIsSeen DEF Evicted, b
<1>8. disk'[s] = Zeros
  BY <1>1, <1>2, <1>3, <1>7 DEF Partly, s, IsDisk
<1>9. NowSeen(b, disk, file'.data_buf, disk', n, T, s, Zeros)
  <2>1. ASSUME NEW no, no \in BOOLEAN
        PROVE  NowSeen(b, disk, Replaced(b, Buffer(s, no, no, Zeros)), Evicted(b, disk), n, T, s, Zeros)
    <3>1. Evicted(b, disk)[s] = Zeros
      BY <1>8 DEF b
    <3> QED BY <1>1, <1>2, <1>4, <1>6, <2>1, <3>1, ReplacedOK
  <2>2. FALSE \in BOOLEAN
    OBVIOUS
  <2>3. file'.data_buf = Replaced(b, Buffer(s, FALSE, FALSE, Zeros)) /\ disk' = Evicted(b, disk)
    BY <1>3 DEF Cleared, Buffer, b
  <2> QED BY <2>1, <2>2, <2>3, Zenon
<1> QED BY <1>1, <1>7, <1>9 DEF NowSeen, Partly, Except, T, n, S

--------------------------------------------------------------------------------
(* Steps in which files and chains stay as they are *)

\* An open FILE.
FileRec(e, s, l, b) == [entry |-> e, slot |-> s, loc |-> l, data_buf |-> b]

\* Whether there is an open file.
LEMMA FileFacts ==
    ASSUME FileOK
    PROVE  /\ file # NoFile <=> file.slot \in DirSlot
           /\ file = FileRec(file.entry, file.slot, file.loc, file.data_buf)
           /\ file # NoFile => /\ file.entry \in [name : File, start : {0} \cup Cluster, size : Nat]
                               /\ file.loc \in 0 .. file.entry.size /\ Root[file.slot].name = file.entry.name
                               /\ file.entry.name \in File /\ file.entry.size \in Nat
                               /\ file.entry.start \in {0} \cup Cluster
           /\ file = NoFile => /\ file.slot = 0 /\ file.entry = EmptyEntry /\ file.loc = 0
                               /\ file.entry.name = None
                               /\ file.data_buf = Empty(LOCAL_DATA_BUF_NUM)
           /\ 0 \notin DirSlot
<1>1. 0 \notin DirSlot
  BY FatAssumption DEF DirSlot
<1>2. NoFile = FileRec(NoFile.entry, NoFile.slot, NoFile.loc, NoFile.data_buf)
  BY DEF FileRec, NoFile
<1>3. /\ NoFile.slot = 0 /\ NoFile.entry = EmptyEntry /\ NoFile.loc = 0 /\ NoFile.entry.name = None
      /\ NoFile.data_buf = Empty(LOCAL_DATA_BUF_NUM)
  BY DEF NoFile, EmptyEntry
<1>4. CASE file = NoFile
  BY <1>1, <1>2, <1>3, <1>4
<1>5. CASE file # NoFile
  <2>1. /\ file = FileRec(file.entry, file.slot, file.loc, file.data_buf)
        /\ file.slot \in DirSlot
        /\ file.entry \in [name : File, start : {0} \cup Cluster, size : Nat]
        /\ file.loc \in 0 .. file.entry.size
        /\ Root[file.slot].name = file.entry.name
    BY <1>5 DEF FileOK, FileRec
  <2> QED BY <1>1, <1>5, <2>1
<1> QED BY <1>4, <1>5

\* What the chains hold.
LEMMA ChainFacts ==
    ASSUME ChainsOK
    PROVE  /\ \A i \in DirSlot : Range(Chain(i)) \subseteq Owned
           /\ Owned \subseteq Cluster \ {2} /\ Loaded \subseteq Owned /\ Loaded \subseteq Cluster
           /\ \A c \in Owned : FAT[c] \in Cluster \cup {EOC} /\ FAT[c] # 0
           /\ \A c \in Owned : \E i \in DirSlot : c \in Range(Chain(i))
<1>1. \A i \in DirSlot : Range(Chain(i)) \subseteq Owned
  BY DEF Owned
<1>2. \A c \in Owned : \E i \in DirSlot : c \in Range(Chain(i))
  BY DEF Owned
<1>3. ASSUME NEW i \in DirSlot
      PROVE  /\ Range(Chain(i)) \subseteq Cluster \ {2}
             /\ \A c \in Range(Chain(i)) : FAT[c] \in Cluster \cup {EOC}
  BY ChainNext DEF ChainsOK
<1>4. Owned \subseteq Cluster \ {2} /\ \A c \in Owned : FAT[c] \in Cluster \cup {EOC}
  BY <1>2, <1>3
<1>5. Loaded \subseteq Owned
  BY <1>1 DEF Loaded
<1> QED BY <1>1, <1>2, <1>4, <1>5, SectorsApart

\* The chains stay as they are when their clusters do.
LEMMA ChainsSame ==
    ASSUME ChainsOK, \A c \in Owned : FAT'[c] = FAT[c],
           \A i \in DirSlot : First(i)' = First(i)
    PROVE  /\ \A i \in DirSlot : IsChain(FAT', Chain(i), First(i)') /\ Chain(i)' = Chain(i)
           /\ Owned' = Owned
<1>1. ASSUME NEW i \in DirSlot  PROVE IsChain(FAT', Chain(i), First(i)') /\ Chain(i)' = Chain(i)
  <2>1. IsChain(FAT, Chain(i), First(i)) /\ \A x \in Range(Chain(i)) : FAT'[x] = FAT[x]
    BY DEF ChainsOK, Owned
  <2>2. IsChain(FAT', Chain(i), First(i)) /\ Follow(FAT', First(i)) = Chain(i)
    BY <2>1, ChainFrame
  <2>3. Chain(i)' = Follow(FAT', First(i)')
    BY DEF Chain
  <2> QED BY <2>2, <2>3
<1>2. Owned' = Owned
  BY <1>1 DEF Owned
<1> QED BY <1>1, <1>2

\* The directory is as it was, and so are the chains and what is on the disk.
LEMMA SameView ==
    ASSUME Names, ChainsOK, Synced, Root' = Root,
           \A c \in Owned : FAT'[c] = FAT[c], FAT'[2] # 0,
           \A i \in DirSlot : First(i)' = First(i),
           \A i \in DirSlot : ~Freeing(i)' => Len(Chain(i)) * CS >= Dir(i)'.size,
           \A i \in DirSlot : RootOnDisk'[i] \in {RootOnDisk[i], Root[i]},
           \A k \in Cluster : FATOnDisk'[k] \in {FATOnDisk[k], FAT[k]},
           \A f \in File : InUse(f) => InUse(f)'
    PROVE  Names' /\ ChainsOK' /\ Synced'
<1>1. /\ \A i \in DirSlot : IsChain(FAT', Chain(i), First(i)') /\ Chain(i)' = Chain(i)
      /\ Owned' = Owned
  BY ChainsSame
<1>2. Names'
  BY DEF Names
<1>3. ChainsOK'
  BY <1>1 DEF ChainsOK
<1>4. ASSUME NEW i \in DirSlot
      PROVE  \/ Root'[i] = RootOnDisk'[i]
             \/ \A n \in File \cap {Root'[i].name, RootOnDisk'[i].name} : InUse(n)'
  BY DEF Synced
<1>5. ASSUME NEW i \in DirSlot, Root'[i].name \in File, ~InUse(Root[i].name)',
             NEW c \in Range(Chain(i)')
      PROVE  FATOnDisk'[c] = FAT'[c]
  <2>1. c \in Range(Chain(i)) /\ c \in Cluster /\ c \in Owned
    BY <1>1, <1>5, ChainFacts
  <2>2. FATOnDisk[c] = FAT[c]
    <3>1. Root[i].name \in File /\ ~InUse(Root[i].name)
      BY <1>5 DEF InUse
    <3> QED BY <2>1, <3>1 DEF Synced
  <2> QED BY <2>1, <2>2
<1> QED BY <1>2, <1>3, <1>4, <1>5 DEF Synced

\* The calls in which fs_fflush has no part.
Reading == {"none", "read", "write"}

\* A step of a read or write, or one between calls, with a file open.
LEMMA FileStep ==
    ASSUME FatIInv, file # NoFile, call.op \in Reading, call'.op \in Reading,
           call = NoCall \/ call.f = file.entry.name,
           call.at # "clear", call'.at # "clear",
           file' = FileRec(file.entry, file.slot, file'.loc, file'.data_buf),
           file'.loc \in 0 .. file.entry.size,
           FatMoved, DirMoved, Root' = Root,
           \A c \in Owned : FAT'[c] = FAT[c], FAT'[2] # 0,
           CacheOK(file'.data_buf, LOCAL_DATA_BUF_NUM, DataSectors(Loaded), disk')
    PROVE  /\ Caches' /\ Tables' /\ Names' /\ FileOK' /\ ChainsOK' /\ AtRest' /\ Synced'
           /\ \A i \in DirSlot : Chain(i)' = Chain(i)
           /\ Owned' = Owned /\ Loaded' = Loaded
           /\ file'.slot = file.slot /\ file'.entry = file.entry /\ file.slot \in DirSlot
<1> USE DEF FatIInv
<1>1. file'.slot = file.slot /\ file'.entry = file.entry /\ file.slot \in DirSlot
  BY FileFacts DEF FileRec
<1>2. \A i \in DirSlot : ~Freeing(i) /\ ~Freeing(i)'
  BY DEF Freeing, Running, Reading
<1>3. \A i \in DirSlot : Dir(i)' = Dir(i) /\ First(i)' = First(i)
  BY <1>1, <1>2 DEF First, Dir
<1>4. /\ \A i \in DirSlot : IsChain(FAT', Chain(i), First(i)') /\ Chain(i)' = Chain(i)
      /\ Owned' = Owned
  BY <1>3, ChainsSame
<1>5. Loaded' = Loaded
  BY <1>1, <1>4 DEF Loaded, Stage
<1>6. Caches' /\ Tables'
  BY <1>5, StoredOK DEF FileCache
<1>7. file' # NoFile
  <2>1. NoFile.slot = 0
    BY DEF NoFile
  <2> QED BY <1>1, <2>1, FileFacts
<1>8. FileOK'
  BY <1>1, FileFacts DEF FileOK, FileRec
<1>9. \A f \in File : InUse(f) => InUse(f)'
  BY <1>1, FatAssumption DEF InUse, NoCall
<1>10. Names' /\ ChainsOK' /\ Synced'
  <2>1. \A i \in DirSlot : ~Freeing(i)' => Len(Chain(i)) * CS >= Dir(i)'.size
    BY <1>2, <1>3 DEF ChainsOK
  <2>2. /\ \A i \in DirSlot : RootOnDisk'[i] \in {RootOnDisk[i], Root[i]}
        /\ \A k \in Cluster : FATOnDisk'[k] \in {FATOnDisk[k], FAT[k]}
    BY DEF FatMoved, DirMoved
  <2> QED BY <1>3, <1>9, <2>1, <2>2, SameView
<1>11. AtRest'
  BY <1>7 DEF AtRest
<1> QED BY <1>1, <1>4, <1>5, <1>6, <1>8, <1>10, <1>11

--------------------------------------------------------------------------------
(* Reading and writing *)

\* In which cluster of a file a byte is.
LEMMA PlaceFacts ==
    ASSUME NEW pos \in Nat, NEW count \in Nat \ {0}
    PROVE  /\ pos \div CS \in Nat /\ (pos + count - 1) \div CS \in Nat
           /\ pos \div CS <= (pos + count - 1) \div CS
           /\ \A m \in Nat : pos + count <= m * CS <=> (pos + count - 1) \div CS < m
<1> DEFINE last == pos + count - 1
<1>1. CS \in Nat \ {0} /\ last \in Nat /\ last >= pos
  BY FatAssumption
<1> HIDE DEF last
<1>2. PICK q \in Nat, r \in Nat : q = pos \div CS /\ pos = q * CS + r /\ r < CS
  BY <1>1, DivMod
<1>3. PICK u \in Nat, v \in Nat : u = last \div CS /\ last = u * CS + v /\ v < CS
  BY <1>1, DivMod
<1>4. q <= u
  <2> SUFFICES ASSUME q >= u + 1  PROVE FALSE
    BY <1>2, <1>3
  <2>1. q * CS >= (u + 1) * CS /\ (u + 1) * CS = u * CS + CS /\ u * CS \in Nat /\ q * CS \in Nat
    BY <1>1
  <2> QED BY <1>1, <1>2, <1>3, <2>1
<1>5. ASSUME NEW m \in Nat  PROVE last < m * CS <=> u < m
  <2>1. m * CS \in Nat /\ u * CS \in Nat /\ (u + 1) * CS = u * CS + CS
    BY <1>1
  <2>2. ASSUME u < m  PROVE last < m * CS
    <3>1. (u + 1) * CS <= m * CS
      BY <1>1, <2>2
    <3> QED BY <1>1, <1>3, <2>1, <3>1
  <2>3. ASSUME m <= u  PROVE m * CS <= last
    <3>1. m * CS <= u * CS
      BY <1>1, <2>3
    <3> QED BY <1>1, <1>3, <2>1, <3>1
  <2> QED BY <1>1, <1>3, <2>1, <2>2, <2>3
<1>6. \A m \in Nat : m * CS \in Nat /\ (pos + count <= m * CS <=> last < m * CS)
  BY <1>1 DEF last
<1> QED BY <1>2, <1>3, <1>4, <1>5, <1>6 DEF last

\* Where a read or write can be.
Transferring == {"advance", "move", "end", "search", "mark", "scan", "erase", "link", "clear"}

\* What call is in progress, by where it is.
LEMMA WhichCall ==
    ASSUME CallOK
    PROVE  /\ call.at \in Transferring => Transfer /\ call # NoCall
           /\ call.at \in {"free", "info", "flush"} => Closing /\ call # NoCall
           /\ call.op \in {"read", "write"} => Transfer /\ call # NoCall
           /\ call.op \in {"close", "create", "rm"} => Closing /\ call # NoCall
           /\ NoCall.op = "none" /\ NoCall.at = "none" /\ NoCall.f = None
           /\ call = NoCall <=> call.op = "none"
<1>1. NoCall.op = "none" /\ NoCall.at = "none" /\ NoCall.f = None
  BY DEF NoCall
<1>2. Closing => call.op \in {"close", "create", "rm"} /\ call.at \in {"free", "info", "flush"}
  BY DEF Closing
<1>3. Transfer => call.op \in {"read", "write"} /\ call.at \in Transferring
  BY DEF Transfer, Transferring
<1> QED BY <1>1, <1>2, <1>3 DEF CallOK, Transferring

\* The file that is read or written.
LEMMA TransferFacts ==
    ASSUME FatIInv, Transfer
    PROVE  /\ file # NoFile /\ file.slot \in DirSlot /\ call # NoCall
           /\ IsChain(FAT, Chain(file.slot), file.entry.start)
           /\ Len(Chain(file.slot)) \in Nat /\ Len(Chain(file.slot)) * CS >= file.entry.size
           /\ call.pos \in Nat /\ call.count \in Nat \ {0} /\ StartClus \in Nat /\ EndClus \in Nat
           /\ StartClus <= EndClus /\ call.k \in Nat
           /\ \A m \in Nat : call.pos + call.count <= m * CS <=> EndClus < m
           /\ Running("read") => EndClus < Len(Chain(file.slot))
           /\ \A i \in DirSlot : ~Freeing(i)
<1>1. file # NoFile /\ file.slot \in DirSlot /\ file.loc \in 0 .. file.entry.size /\ file.entry.size \in Nat
  BY FileFacts DEF FatIInv, Transfer
<1>2. \A i \in DirSlot : ~Freeing(i)
  BY DEF Freeing, Running, Transfer
<1>3. First(file.slot) = file.entry.start /\ Dir(file.slot) = file.entry
  BY <1>1, <1>2 DEF First, Dir
<1>4. IsChain(FAT, Chain(file.slot), file.entry.start) /\ Len(Chain(file.slot)) * CS >= file.entry.size
  BY <1>1, <1>2, <1>3 DEF FatIInv, ChainsOK
<1>5. Len(Chain(file.slot)) \in Nat
  BY <1>4 DEF IsChain
<1>6. call.pos \in Nat /\ call.count \in Nat \ {0}
  BY <1>1 DEF Transfer
<1>7. /\ StartClus \in Nat /\ EndClus \in Nat /\ StartClus <= EndClus
      /\ \A m \in Nat : call.pos + call.count <= m * CS <=> EndClus < m
  BY <1>6, PlaceFacts DEF StartClus, EndClus
<1>8. Running("read") => EndClus < Len(Chain(file.slot))
  <2>1. Running("read") => call.pos + call.count <= file.entry.size
    BY DEF Transfer
  <2>2. Len(Chain(file.slot)) * CS \in Nat
    BY <1>5, FatAssumption
  <2>3. Running("read") => call.pos + call.count <= Len(Chain(file.slot)) * CS
    BY <1>1, <1>4, <1>6, <2>1, <2>2
  <2> QED BY <1>5, <1>7, <2>3
<1>9. call # NoCall
  BY DEF Transfer, NoCall
<1>10. call.k \in Nat
  BY <1>7 DEF Transfer
<1> QED BY <1>1, <1>2, <1>4, <1>5, <1>6, <1>7, <1>8, <1>9, <1>10

\* Steps on the FAT leave the directory and the data alone.
LEMMA FatOnly ==
    ASSUME FatIInv, Except(FatSectors), dir_data_buf' = dir_data_buf,
           file'.data_buf = file.data_buf
    PROVE  /\ DirMoved /\ Root' = Root /\ RootOnDisk' = RootOnDisk
           /\ CacheOK(file'.data_buf, LOCAL_DATA_BUF_NUM, DataSectors(Loaded), disk')
           /\ disk'[FSInfo] = disk[FSInfo]
           /\ \A c \in Cluster : disk'[DataSector(c)] = disk[DataSector(c)]
<1> USE DEF FatIInv
<1>1. disk'[FSInfo] = disk[FSInfo] /\ \A c \in Cluster : disk'[DataSector(c)] = disk[DataSector(c)]
  <2>1. FSInfo \in Sectors
    BY DEF Sectors
  <2> QED BY <2>1, SectorSets, SectorsApart DEF Except
<1>2. disk'[RootSector] = disk[RootSector]
  BY <1>1, SectorsApart DEF RootSector
<1>3. Loaded \subseteq Cluster
  BY ChainFacts
<1> QED BY <1>1, <1>2, <1>3, DirUntouched, DataUntouched

\* Reading the FAT in a read or write; what is left is to see where the call goes.
LEMMA TransferReads ==
    ASSUME FatIInv, Transfer, call.at # "clear", NEW c \in Cluster,
           get_fat_entry_value(c), UNCHANGED <<dir_data_buf, file>>,
           call'.op = call.op, call'.at # "clear"
    PROVE  /\ Caches' /\ Tables' /\ Names' /\ FileOK' /\ ChainsOK' /\ AtRest' /\ Synced'
           /\ \A i \in DirSlot : Chain(i)' = Chain(i)
           /\ Owned' = Owned /\ FAT' = FAT
           /\ \A k \in Cluster : disk'[DataSector(k)] = disk[DataSector(k)]
<1>1. FatMoved /\ FAT' = FAT /\ Except(FatSectors)
  BY FatRead DEF FatIInv
<1>2. /\ DirMoved /\ Root' = Root
      /\ CacheOK(file'.data_buf, LOCAL_DATA_BUF_NUM, DataSectors(Loaded), disk')
      /\ \A k \in Cluster : disk'[DataSector(k)] = disk[DataSector(k)]
  BY <1>1, FatOnly
<1>3. call.op \in Reading /\ call'.op \in Reading /\ call.f = file.entry.name
  BY DEF Transfer, Reading
<1>4. file # NoFile /\ file' = FileRec(file.entry, file.slot, file'.loc, file'.data_buf) /\ file'.loc \in 0 .. file.entry.size
  BY TransferFacts, FileFacts DEF FatIInv
<1>5. FAT'[2] # 0 /\ \A k \in Owned : FAT'[k] = FAT[k]
  BY <1>1 DEF FatIInv, ChainsOK
<1> QED BY <1>1, <1>2, <1>3, <1>4, <1>5, FileStep

\* Calls that move the same bytes of the same file.
Same(c, d) == c.op = d.op /\ c.f = d.f /\ c.pos = d.pos /\ c.count = d.count

\* What Reached changes in the locals of a call.
LEMMA ReachedIs ==
    ASSUME NEW c, IsCall(c), NEW k, NEW d, d = Reached(c, k)
    PROVE  /\ IsCall(d) /\ Same(c, d) /\ d.clus = c.clus /\ d.new = c.new /\ d.next = c.next /\ d.k = k
           /\ d.at = IF k < c.pos \div CS THEN "advance" ELSE "move"
BY DEF IsCall, Same, Reached

\* Where the search for a free cluster begins.
LEMMA AllocIs ==
    ASSUME NEW c, IsCall(c), NEW d, d = fs_alloc(c), Hint
    PROVE  /\ IsCall(d) /\ Same(c, d) /\ d.clus = c.clus /\ d.next = c.next /\ d.k = c.k
           /\ \/ d.at = "search" /\ d.new = 2
              \/ d.at = "mark" /\ d.new \in Cluster \ ({2} \cup Owned)
<1>1. /\ IsCall(d) /\ Same(c, d) /\ d.clus = c.clus /\ d.next = c.next /\ d.k = c.k
      /\ IF Nxt_Free + 1 > FSI_Free_Count + 1 THEN d.at = "search" /\ d.new = 2
                                              ELSE d.at = "mark" /\ d.new = Nxt_Free + 1
  BY DEF IsCall, Same, fs_alloc
<1>2. ASSUME Nxt_Free + 1 <= FSI_Free_Count + 1
      PROVE  Nxt_Free + 1 \in Cluster \ ({2} \cup Owned)
  <2>1. Nxt_Free \in Nat /\ Nxt_Free >= 2 /\ FSI_Free_Count \in Nat /\ FSI_Free_Count <= total_data_clusters
    BY FatAssumption DEF Hint, Cluster, LastCluster
  <2>2. Nxt_Free + 1 \in Cluster \ {2}
    BY <1>2, <2>1, FatAssumption DEF Cluster, LastCluster
  <2> QED BY <1>2, <2>1, <2>2 DEF Hint
<1> QED BY <1>1, <1>2, FatAssumption DEF Hint, Cluster, LastCluster

\* Beginning a read or write, which touches nothing.
LEMMA BeginKeeps ==
    ASSUME FatIInv, call = NoCall, file # NoFile,
           call'.op \in {"read", "write"}, call'.at # "clear",
           UNCHANGED <<disk, Nxt_Free, fat_buf, dir_data_buf, file>>
    PROVE  /\ Caches' /\ Tables' /\ Names' /\ FileOK' /\ ChainsOK' /\ AtRest' /\ Synced' /\ Hint'
           /\ \A i \in DirSlot : Chain(i)' = Chain(i)
           /\ Owned' = Owned /\ FAT' = FAT
           /\ file.slot \in DirSlot /\ IsChain(FAT, Chain(file.slot), file.entry.start)
<1> USE DEF FatIInv
<1>1. disk' = [s \in Sectors |-> disk'[s]] /\ Loaded \subseteq Cluster
  BY ChainFacts DEF Caches
<1>2. FatMoved /\ FAT' = FAT
  BY <1>1, FatUntouched
<1>3. DirMoved /\ Root' = Root
  BY DirUntouched
<1>4. CacheOK(file'.data_buf, LOCAL_DATA_BUF_NUM, DataSectors(Loaded), disk')
  BY <1>1, DataUntouched
<1>5. call.op \in Reading /\ call'.op \in Reading /\ call.at # "clear"
  BY DEF Reading, NoCall
<1>6. file' = FileRec(file.entry, file.slot, file'.loc, file'.data_buf) /\ file'.loc \in 0 .. file.entry.size
  BY FileFacts
<1>7. FAT'[2] # 0 /\ \A k \in Owned : FAT'[k] = FAT[k]
  BY <1>2 DEF ChainsOK
<1>8. /\ Caches' /\ Tables' /\ Names' /\ FileOK' /\ ChainsOK' /\ AtRest' /\ Synced'
      /\ \A i \in DirSlot : Chain(i)' = Chain(i)
      /\ Owned' = Owned /\ file.slot \in DirSlot
  BY <1>2, <1>3, <1>4, <1>5, <1>6, <1>7, FileStep
<1>9. Hint'
  BY <1>8 DEF Hint
<1>10. ~Freeing(file.slot)
  BY <1>5 DEF Freeing, Running, Reading
<1>11. First(file.slot) = file.entry.start
  BY <1>8, <1>10 DEF First, Dir
<1>12. IsChain(FAT, Chain(file.slot), file.entry.start)
  BY <1>8, <1>11 DEF ChainsOK
<1> QED BY <1>2, <1>8, <1>9, <1>12

\* fs_read starts in the first cluster of the file.
LEMMA ReadBegins ==
    ASSUME FatIInv, NEW n \in 1 .. MaxCount, fs_read(n)
    PROVE  FatIInv' /\ FAT' = FAT /\ \A i \in DirSlot : Chain(i)' = Chain(i)
<1> DEFINE count == Min({n, file.entry.size - file.loc})
           b == Begin("read", count, <<>>)
           s == Chain(file.slot)
<1>1. /\ call = NoCall /\ file # NoFile /\ file.entry.start # 0 /\ count > 0
      /\ call' = Reached(b, 0)
      /\ UNCHANGED <<disk, Nxt_Free, fat_buf, dir_data_buf, file>>
  BY DEF fs_read
<1>2. /\ IsCall(b) /\ b.op = "read" /\ b.f = file.entry.name /\ b.k = 0
      /\ b.clus = file.entry.start /\ b.new = 0 /\ b.pos = file.loc /\ b.count = count
  BY DEF IsCall, Begin
<1>3. /\ file.loc \in 0 .. file.entry.size /\ file.entry.size \in Nat
      /\ file.entry.start \in {0} \cup Cluster
  BY <1>1, FileFacts DEF FatIInv
<1>4. count \in Nat \ {0} /\ count <= file.entry.size - file.loc
  <2>1. file.entry.size - file.loc \in Nat /\ n \in Nat
    BY <1>3, FatAssumption
  <2>2. {n, file.entry.size - file.loc} \in SUBSET Nat
    BY <2>1
  <2>3. count \in {n, file.entry.size - file.loc} /\ \A x \in {n, file.entry.size - file.loc} : count <= x
    BY <2>2, MinIsLeast
  <2> QED BY <1>1, <2>1, <2>3
<1> HIDE DEF b, count
<1>5. /\ IsCall(call') /\ call'.op = "read" /\ call'.f = file.entry.name /\ call'.k = 0
      /\ call'.clus = file.entry.start /\ call'.new = 0 /\ call'.pos = file.loc /\ call'.count = count
      /\ call'.at = IF 0 < file.loc \div CS THEN "advance" ELSE "move"
  BY <1>1, <1>2, ReachedIs DEF Same
<1>6. /\ Caches' /\ Tables' /\ Names' /\ FileOK' /\ ChainsOK' /\ AtRest' /\ Synced' /\ Hint'
      /\ FAT' = FAT /\ \A i \in DirSlot : Chain(i)' = Chain(i)
      /\ file.slot \in DirSlot /\ IsChain(FAT, s, file.entry.start)
  BY <1>1, <1>5, BeginKeeps
<1>7. /\ EndClus' \in Nat /\ file.loc \div CS \in Nat /\ file.loc \div CS <= EndClus'
  <2>1. file.loc \in Nat
    BY <1>3
  <2>2. /\ (file.loc + count - 1) \div CS \in Nat /\ file.loc \div CS \in Nat
        /\ file.loc \div CS <= (file.loc + count - 1) \div CS
    BY <1>4, <2>1, PlaceFacts
  <2>3. EndClus' = (file.loc + count - 1) \div CS
    BY <1>5 DEF EndClus
  <2> QED BY <2>2, <2>3
<1>8. Len(s) \in Nat /\ 0 < Len(s) /\ s[1] = file.entry.start
  BY <1>1, <1>3, <1>6, ChainNext, FatAssumption
<1>9. Transfer'
  <2>1. Chain(file.slot)' = s /\ file' = file /\ file'.slot \in DirSlot
    BY <1>1, <1>6
  <2> QED BY <1>3, <1>4, <1>5, <1>7, <1>8, <2>1 DEF Transfer, Stage, Running
<1> QED BY <1>6, <1>9 DEF FatIInv, CallOK

\* So does fs_write, or it looks for a first cluster.
LEMMA WriteBegins ==
    ASSUME FatIInv, NEW data \in Data, fs_write(data)
    PROVE  FatIInv' /\ FAT' = FAT /\ \A i \in DirSlot : Chain(i)' = Chain(i)
<1> DEFINE b == Begin("write", Len(data), data)
           s == Chain(file.slot)
<1>1. /\ call = NoCall /\ file # NoFile
      /\ call' = IF file.entry.start = 0 THEN fs_alloc(b) ELSE Reached(b, 0)
      /\ UNCHANGED <<disk, Nxt_Free, fat_buf, dir_data_buf, file>>
  BY DEF fs_write
<1>2. /\ IsCall(b) /\ b.op = "write" /\ b.f = file.entry.name /\ b.k = 0
      /\ b.clus = file.entry.start /\ b.new = 0 /\ b.pos = file.loc /\ b.count = Len(data)
  BY DEF IsCall, Begin
<1>3. /\ file.loc \in 0 .. file.entry.size /\ file.entry.size \in Nat
      /\ file.entry.start \in {0} \cup Cluster
  BY <1>1, FileFacts DEF FatIInv
<1>4. Len(data) \in Nat \ {0}
  BY FatAssumption
<1> HIDE DEF b
<1>5. /\ IsCall(call') /\ call'.op = "write" /\ call'.f = file.entry.name /\ call'.k = 0
      /\ call'.clus = file.entry.start /\ call'.pos = file.loc /\ call'.count = Len(data)
      /\ \/ /\ file.entry.start # 0 /\ call'.new = 0
            /\ call'.at = IF 0 < file.loc \div CS THEN "advance" ELSE "move"
         \/ /\ file.entry.start = 0
            /\ \/ call'.at = "search" /\ call'.new = 2
               \/ call'.at = "mark" /\ call'.new \in Cluster \ ({2} \cup Owned)
  <2>1. CASE file.entry.start = 0
    <3>1. call' = fs_alloc(b)
      BY <1>1, <2>1
    <3>2. /\ IsCall(call') /\ Same(b, call') /\ call'.clus = b.clus /\ call'.k = b.k
          /\ \/ call'.at = "search" /\ call'.new = 2
             \/ call'.at = "mark" /\ call'.new \in Cluster \ ({2} \cup Owned)
      BY <1>2, <3>1, AllocIs DEF FatIInv
    <3> QED BY <1>2, <2>1, <3>2 DEF Same
  <2>2. CASE file.entry.start # 0
    <3>1. call' = Reached(b, 0)
      BY <1>1, <2>2
    <3>2. /\ IsCall(call') /\ Same(b, call') /\ call'.clus = b.clus /\ call'.k = 0 /\ call'.new = b.new
          /\ call'.at = IF 0 < b.pos \div CS THEN "advance" ELSE "move"
      BY <1>2, <3>1, ReachedIs
    <3> QED BY <1>2, <2>2, <3>2 DEF Same
  <2> QED BY <2>1, <2>2
<1>6. /\ Caches' /\ Tables' /\ Names' /\ FileOK' /\ ChainsOK' /\ AtRest' /\ Synced' /\ Hint'
      /\ \A i \in DirSlot : Chain(i)' = Chain(i)
      /\ Owned' = Owned /\ FAT' = FAT
      /\ file.slot \in DirSlot /\ IsChain(FAT, s, file.entry.start)
  BY <1>1, <1>5, BeginKeeps
<1>7. /\ EndClus' \in Nat /\ file.loc \div CS \in Nat /\ file.loc \div CS <= EndClus'
  <2>1. file.loc \in Nat
    BY <1>3
  <2>2. /\ (file.loc + Len(data) - 1) \div CS \in Nat /\ file.loc \div CS \in Nat
        /\ file.loc \div CS <= (file.loc + Len(data) - 1) \div CS
    BY <1>4, <2>1, PlaceFacts
  <2>3. EndClus' = (file.loc + Len(data) - 1) \div CS
    BY <1>5 DEF EndClus
  <2> QED BY <2>2, <2>3
<1>8. /\ Len(s) \in Nat
      /\ file.entry.start # 0 => 0 < Len(s) /\ s[1] = file.entry.start
      /\ file.entry.start = 0 => s = <<>>
  <2>1. 0 \notin Cluster
    BY SectorsApart
  <2>2. /\ Len(s) \in 0 .. total_data_clusters /\ s # <<>> => Len(s) \in 1 .. Len(s)
        /\ file.entry.start \in Cluster => s # <<>> /\ file.entry.start = s[1]
        /\ file.entry.start \notin Cluster => s = <<>>
    BY <1>6, ChainNext
  <2> HIDE DEF s
  <2> QED BY <1>3, <2>1, <2>2, FatAssumption
<1>9. Transfer'
  <2>1. Chain(file.slot)' = s /\ file' = file /\ file'.slot \in DirSlot
    BY <1>1, <1>6
  <2>2. CASE file.entry.start # 0
    BY <1>3, <1>4, <1>5, <1>7, <1>8, <2>1, <2>2 DEF Transfer, Stage, Running
  <2>3. CASE file.entry.start = 0
    BY <1>3, <1>4, <1>5, <1>6, <1>7, <1>8, <2>1, <2>3 DEF Transfer, Stage, Running
  <2> QED BY <2>2, <2>3
<1> QED BY <1>6, <1>9 DEF FatIInv, CallOK

\* The loop goes on to the next cluster of the chain, or a write to look for one.
LEMMA NextClusterKeeps ==
    ASSUME FatIInv, NextCluster
    PROVE  FatIInv' /\ FAT' = FAT /\ \A i \in DirSlot : Chain(i)' = Chain(i)
<1> DEFINE s == Chain(file.slot)
           x == FAT[call.clus]
           e == [call EXCEPT !.clus = Entry(call.clus)]
<1>1. /\ Transfer /\ call.at = "advance" /\ get_fat_entry_value(call.clus)
      /\ UNCHANGED <<Nxt_Free, dir_data_buf, file>>
      /\ call' = IF Entry(call.clus) > LastCluster /\ Running("write") THEN fs_alloc(call)
                 ELSE Reached(e, call.k + 1)
  BY WhichCall DEF NextCluster, Stage, FatIInv, Transferring
<1>2. /\ IsChain(FAT, s, file.entry.start) /\ Len(s) \in Nat
      /\ EndClus \in Nat /\ StartClus \in Nat /\ StartClus <= EndClus /\ call.k \in Nat
      /\ Running("read") => EndClus < Len(s)
      /\ file.slot \in DirSlot
  BY <1>1, TransferFacts
<1>3. call.k < EndClus /\ call.k < Len(s) /\ call.clus = s[call.k + 1] /\ call.new = 0
  BY <1>1 DEF Transfer, Stage
<1>4. /\ \A i \in 1 .. Len(s) : s[i] \in Cluster
      /\ \A i \in 1 .. Len(s) - 1 : FAT[s[i]] = s[i + 1]
      /\ s # <<>> => Len(s) \in 1 .. Len(s) /\ FAT[s[Len(s)]] = EOC
  BY <1>2, ChainNext
<1>5. call.clus \in Cluster
  <2>1. call.k + 1 \in 1 .. Len(s)
    BY <1>2, <1>3
  <2> QED BY <1>3, <1>4, <2>1
<1>6. Entry(call.clus) = x
  BY <1>5, EntryIs DEF FatIInv
<1>7. IF call.k + 1 = Len(s) THEN x = EOC ELSE x = s[call.k + 2] /\ x \in Cluster
  <2>1. CASE call.k + 1 = Len(s)
    BY <1>2, <1>3, <1>4, <2>1
  <2>2. CASE call.k + 1 # Len(s)
    <3>1. call.k + 1 \in 1 .. Len(s) - 1 /\ call.k + 2 \in 1 .. Len(s) /\ call.k + 2 = (call.k + 1) + 1
      BY <1>2, <1>3, <2>2
    <3>2. FAT[s[call.k + 1]] = s[call.k + 2]
      BY <1>4, <3>1
    <3> QED BY <1>3, <1>4, <2>2, <3>1, <3>2
  <2> QED BY <2>1, <2>2
<1>8. x > LastCluster <=> call.k + 1 = Len(s)
  <2>1. EOC > LastCluster /\ \A c \in Cluster : c \in Nat /\ c <= LastCluster /\ LastCluster \in Nat
    BY SectorsApart DEF Cluster
  <2> QED BY <1>7, <2>1
<1>9. IsCall(call) /\ call.op \in {"read", "write"}
  BY <1>1 DEF Transfer
<1> HIDE DEF s, x
<1>10. CASE x > LastCluster /\ Running("write")
  <2>1. call' = fs_alloc(call)
    BY <1>1, <1>6, <1>10
  <2>2. /\ IsCall(call') /\ Same(call, call') /\ call'.clus = call.clus /\ call'.k = call.k
        /\ \/ call'.at = "search" /\ call'.new = 2
           \/ call'.at = "mark" /\ call'.new \in Cluster \ ({2} \cup Owned)
    BY <1>9, <2>1, AllocIs DEF FatIInv
  <2>3. /\ Caches' /\ Tables' /\ Names' /\ FileOK' /\ ChainsOK' /\ AtRest' /\ Synced'
        /\ \A i \in DirSlot : Chain(i)' = Chain(i)
        /\ Owned' = Owned /\ FAT' = FAT
    BY <1>1, <1>5, <2>2, TransferReads DEF Same
  <2>4. Hint'
    BY <1>1, <2>3 DEF Hint, FatIInv
  <2>5. Chain(file.slot)' = s /\ file' = file /\ EndClus' = EndClus /\ call.k + 1 = Len(s)
    BY <1>1, <1>2, <1>8, <1>10, <2>2, <2>3 DEF EndClus, Same, s
  <2>6. Transfer'
    <3>1. CASE call'.at = "search"
      <4>1. call'.new = 2 /\ call'.at # "mark"
        BY <2>2, <3>1, Zenon
      <4>2. call'.clus \in Cluster /\ call'.k + 1 = Len(s) /\ call'.clus = s[Len(s)] /\ call'.k < EndClus
        BY <1>3, <1>5, <2>2, <2>5
      <4>3. /\ file'.slot \in DirSlot /\ call'.op \in {"read", "write"} /\ call'.f = file'.entry.name
            /\ call'.pos = file'.loc /\ call'.count \in Nat \ {0} /\ call'.k \in 0 .. EndClus
            /\ call'.op = "write"
        BY <1>1, <1>10, <2>2, <2>5 DEF Transfer, Running, Same
      <4> QED BY <2>2, <2>5, <3>1, <4>1, <4>2, <4>3 DEF Transfer, Stage, Running
    <3>2. CASE call'.at = "mark"
      BY <1>1, <1>2, <1>3, <1>5, <1>10, <2>2, <2>3, <2>5, <3>2 DEF Transfer, Stage, Running, Same
    <3> QED BY <2>2, <3>1, <3>2
  <2> QED BY <2>3, <2>4, <2>6 DEF FatIInv, CallOK
<1>11. CASE ~(x > LastCluster /\ Running("write"))
  <2>1. call' = Reached(e, call.k + 1)
    BY <1>1, <1>6, <1>11
  <2>2. call.k + 1 < Len(s) /\ x = s[call.k + 2]
    <3>1. call.k + 1 # Len(s)
      BY <1>2, <1>3, <1>8, <1>9, <1>11 DEF Running
    <3> QED BY <1>2, <1>3, <1>7, <3>1
  <2>3. IsCall(e) /\ Same(call, e) /\ e.clus = x /\ e.new = call.new
    BY <1>6, <1>9 DEF IsCall, Same
  <2> HIDE DEF e
  <2>4. /\ IsCall(call') /\ Same(call, call') /\ call'.clus = x /\ call'.k = call.k + 1 /\ call'.new = 0
        /\ call'.at = IF call.k + 1 < StartClus THEN "advance" ELSE "move"
    BY <1>3, <2>1, <2>3, ReachedIs DEF Same, StartClus
  <2>5. /\ Caches' /\ Tables' /\ Names' /\ FileOK' /\ ChainsOK' /\ AtRest' /\ Synced'
        /\ \A i \in DirSlot : Chain(i)' = Chain(i)
        /\ Owned' = Owned /\ FAT' = FAT
    BY <1>1, <1>5, <2>4, TransferReads DEF Same
  <2>6. Hint'
    BY <1>1, <2>5 DEF Hint, FatIInv
  <2>7. Chain(file.slot)' = s /\ file' = file /\ EndClus' = EndClus
    BY <1>1, <1>2, <2>4, <2>5 DEF EndClus, Same, s
  <2>8. Transfer'
    <3>0. call.k + 1 \in 0 .. EndClus /\ x = s[call.k + 1 + 1]
      BY <1>2, <1>3, <2>2
    <3>1. CASE call'.at = "advance"
      <4>1. call.k + 1 < EndClus
        BY <1>2, <2>4, <3>1
      <4> QED BY <1>1, <1>2, <1>9, <2>2, <2>4, <2>7, <3>0, <3>1, <4>1 DEF Transfer, Stage, Running, Same
    <3>2. CASE call'.at = "move"
      BY <1>1, <1>2, <1>9, <2>2, <2>4, <2>7, <3>0, <3>2 DEF Transfer, Stage, Running, Same
    <3> QED BY <2>4, <3>1, <3>2
  <2> QED BY <2>5, <2>6, <2>8 DEF FatIInv, CallOK
<1> QED BY <1>10, <1>11

\* The call ends with nothing but its locals lost.
LEMMA FailKeeps ==
    ASSUME FatIInv, Transfer, call.at # "clear", Fail
    PROVE  FatIInv' /\ FAT' = FAT /\ \A i \in DirSlot : Chain(i)' = Chain(i)
<1> USE DEF FatIInv
<1>1. call' = NoCall /\ UNCHANGED <<disk, Nxt_Free, fat_buf, dir_data_buf, file>>
  BY DEF Fail
<1>2. disk' = [s \in Sectors |-> disk'[s]] /\ Loaded \subseteq Cluster
  BY <1>1, ChainFacts DEF Caches
<1>3. FatMoved /\ FAT' = FAT
  BY <1>1, <1>2, FatUntouched
<1>4. DirMoved /\ Root' = Root
  BY <1>1, DirUntouched
<1>5. CacheOK(file'.data_buf, LOCAL_DATA_BUF_NUM, DataSectors(Loaded), disk')
  BY <1>1, <1>2, DataUntouched
<1>6. /\ call.op \in Reading /\ call'.op \in Reading /\ call'.at # "clear" /\ call.f = file.entry.name
  BY <1>1 DEF Reading, NoCall, Transfer
<1>7. /\ file' = FileRec(file.entry, file.slot, file'.loc, file'.data_buf)
      /\ file'.loc \in 0 .. file.entry.size /\ file # NoFile
  BY <1>1, FileFacts, TransferFacts
<1>8. FAT'[2] # 0 /\ \A k \in Owned : FAT'[k] = FAT[k]
  BY <1>3 DEF ChainsOK
<1>9. /\ Caches' /\ Tables' /\ Names' /\ FileOK' /\ ChainsOK' /\ AtRest' /\ Synced'
      /\ \A i \in DirSlot : Chain(i)' = Chain(i)
      /\ Owned' = Owned
  BY <1>3, <1>4, <1>5, <1>6, <1>7, <1>8, FileStep
<1> QED BY <1>1, <1>3, <1>9 DEF Hint, CallOK

\* What a write that looks for a cluster knows of its file goes on to hold.
LEMMA SearchKeeps ==
    ASSUME FatIInv, Search
    PROVE  FatIInv' /\ FAT' = FAT /\ \A i \in DirSlot : Chain(i)' = Chain(i)
<1> DEFINE s == Chain(file.slot)
<1>1. Transfer /\ call.at = "search"
  BY WhichCall DEF Search, Stage, FatIInv, Transferring
<1>2. CASE call.new > LastCluster
  BY <1>1, <1>2, FailKeeps DEF Search
<1>3. CASE ~(call.new > LastCluster)
  <2>1. /\ get_fat_entry_value(call.new) /\ UNCHANGED <<Nxt_Free, dir_data_buf, file>>
        /\ call' = IF Entry(call.new) = 0 THEN [call EXCEPT !.at = "mark"] ELSE [call EXCEPT !.new = @ + 1]
    BY <1>3 DEF Search
  <2>2. IsCall(call) /\ call.op = "write" /\ call.new \in Nat /\ call.new >= 2 /\ file.slot \in DirSlot
    BY <1>1 DEF Transfer, Stage, Running
  <2>3. call.new \in Cluster
    BY <1>3, <2>2, FatAssumption DEF Cluster, LastCluster
  <2>4. /\ IsCall(call') /\ Same(call, call') /\ call'.clus = call.clus /\ call'.k = call.k
        /\ \/ call'.at = "search" /\ call'.new = call.new + 1
           \/ call'.at = "mark" /\ call'.new = call.new /\ Entry(call.new) = 0
    <3>1. CASE Entry(call.new) = 0
      <4>1. call' = [call EXCEPT !.at = "mark"]
        BY <2>1, <3>1
      <4> QED BY <2>2, <3>1, <4>1 DEF IsCall, Same
    <3>2. CASE Entry(call.new) # 0
      <4>1. call' = [call EXCEPT !.new = call.new + 1]
        BY <2>1, <3>2
      <4> QED BY <1>1, <2>2, <4>1 DEF IsCall, Same
    <3> QED BY <3>1, <3>2
  <2>5. /\ Caches' /\ Tables' /\ Names' /\ FileOK' /\ ChainsOK' /\ AtRest' /\ Synced'
        /\ \A i \in DirSlot : Chain(i)' = Chain(i)
        /\ Owned' = Owned /\ FAT' = FAT
    BY <1>1, <2>1, <2>3, <2>4, TransferReads DEF Same
  <2>6. Entry(call.new) = 0 => call.new \notin {2} \cup Owned
    BY <2>3, EntryIs, ChainFacts DEF FatIInv, ChainsOK
  <2>7. Hint'
    BY <2>1, <2>5 DEF Hint, FatIInv
  <2>8. Chain(file.slot)' = s /\ file' = file /\ EndClus' = EndClus
    BY <2>1, <2>2, <2>4, <2>5 DEF EndClus, Same
  <2>9. Transfer'
    <3>1. CASE call'.at = "search"
      <4>1. call'.new \in Nat /\ call'.new >= 2
        BY <2>2, <2>4, <3>1
      <4> QED BY <1>1, <2>2, <2>4, <2>8, <3>1, <4>1 DEF Transfer, Stage, Running, Same
    <3>2. CASE call'.at = "mark"
      <4>1. call'.new \in Cluster \ ({2} \cup Owned')
        BY <2>3, <2>4, <2>5, <2>6, <3>2
      <4> QED BY <1>1, <2>2, <2>4, <2>8, <3>2, <4>1 DEF Transfer, Stage, Running, Same
    <3> QED BY <2>4, <3>1, <3>2
  <2> QED BY <2>5, <2>7, <2>9 DEF FatIInv, CallOK
<1> QED BY <1>2, <1>3

\* The new cluster, in no chain, gets the end mark.
LEMMA MarkKeeps ==
    ASSUME FatIInv, Mark
    PROVE  /\ FatIInv' /\ FAT' = [FAT EXCEPT ![call.new] = EOC]
           /\ \A i \in DirSlot : Chain(i)' = Chain(i)
<1> DEFINE s == Chain(file.slot)
<1>1. /\ Transfer /\ call.at = "mark" /\ fs_modify_fat(call.new, EOC)
      /\ call' = [call EXCEPT !.at = "scan", !.next = call.new]
      /\ UNCHANGED <<Nxt_Free, dir_data_buf, file>>
  BY WhichCall DEF Mark, Stage, FatIInv, Transferring
<1>2. /\ IsCall(call) /\ call.op = "write" /\ call.new \in Cluster \ ({2} \cup Owned) /\ file.slot \in DirSlot
      /\ call.f = file.entry.name
  BY <1>1 DEF Transfer, Stage, Running
<1>3. /\ IsCall(call') /\ Same(call, call') /\ call'.clus = call.clus /\ call'.k = call.k
      /\ call'.at = "scan" /\ call'.new = call.new /\ call'.next = call.new
  BY <1>1, <1>2 DEF IsCall, Same
<1>4. FatMoved /\ FAT' = [FAT EXCEPT ![call.new] = EOC] /\ Except(FatSectors)
  BY <1>1, <1>2, FatModified, SectorsApart DEF FatIInv
<1>5. /\ DirMoved /\ Root' = Root
      /\ CacheOK(file'.data_buf, LOCAL_DATA_BUF_NUM, DataSectors(Loaded), disk')
  BY <1>1, <1>4, FatOnly
<1>6. call.op \in Reading /\ call'.op \in Reading /\ call.at # "clear" /\ call'.at # "clear"
  BY <1>1, <1>2, <1>3 DEF Reading, Same
<1>7. /\ file # NoFile /\ file' = FileRec(file.entry, file.slot, file'.loc, file'.data_buf)
      /\ file'.loc \in 0 .. file.entry.size
  BY <1>1, TransferFacts, FileFacts DEF FatIInv
<1>8. /\ FAT'[call.new] = EOC /\ \A k \in Cluster \ {call.new} : FAT'[k] = FAT[k]
  BY <1>2, <1>4 DEF FAT
<1>9. FAT'[2] # 0 /\ \A k \in Owned : FAT'[k] = FAT[k]
  BY <1>2, <1>8, ChainFacts, SectorsApart DEF FatIInv, ChainsOK
<1>10. /\ Caches' /\ Tables' /\ Names' /\ FileOK' /\ ChainsOK' /\ AtRest' /\ Synced'
       /\ \A i \in DirSlot : Chain(i)' = Chain(i)
       /\ Owned' = Owned
  BY <1>2, <1>4, <1>5, <1>6, <1>7, <1>9, FileStep
<1>11. Hint'
  BY <1>1, <1>10 DEF Hint, FatIInv
<1>12. Chain(file.slot)' = s /\ file' = file /\ EndClus' = EndClus
  BY <1>1, <1>2, <1>3, <1>10 DEF EndClus, Same
<1>13. call.new \in Nat
  BY <1>2, SectorsApart
<1>14. Transfer'
  BY <1>1, <1>2, <1>3, <1>8, <1>10, <1>12, <1>13 DEF Transfer, Stage, Running, Same
<1> QED BY <1>4, <1>10, <1>11, <1>14 DEF FatIInv, CallOK

\* The hint for the next time is never in a chain and never the new cluster.
LEMMA ScanKeeps ==
    ASSUME FatIInv, Scan
    PROVE  /\ FatIInv' /\ FAT' = FAT /\ \A i \in DirSlot : Chain(i)' = Chain(i)
           /\ call' # NoCall => call'.op = "write" /\ call'.new = call.new /\ call'.at \in {"scan", "erase"}
<1> DEFINE s == Chain(file.slot)
<1>1. Transfer /\ call.at = "scan"
  BY WhichCall DEF Scan, Stage, FatIInv, Transferring
<1>2. CASE call.next > LastCluster
  BY <1>1, <1>2, FailKeeps DEF Scan, Fail
<1>3. CASE ~(call.next > LastCluster)
  <2>1. /\ get_fat_entry_value(call.next) /\ UNCHANGED <<dir_data_buf, file>>
        /\ IF Entry(call.next) = 0
           THEN Nxt_Free' = call.next - 1 /\ call' = [call EXCEPT !.at = "erase", !.next = 0]
           ELSE UNCHANGED Nxt_Free /\ call' = [call EXCEPT !.next = @ + 1]
    BY <1>3 DEF Scan
  <2>2. /\ IsCall(call) /\ call.op = "write" /\ call.next \in Nat /\ call.next >= call.new
        /\ call.new \in Cluster \ ({2} \cup Owned) /\ FAT[call.new] = EOC /\ file.slot \in DirSlot
    BY <1>1 DEF Transfer, Stage, Running
  <2>3. call.next \in Cluster /\ call.next - 1 \in Cluster /\ call.new \in Nat
    BY <1>3, <2>2, FatAssumption DEF Cluster, LastCluster
  <2>4. /\ IsCall(call') /\ Same(call, call') /\ call'.clus = call.clus /\ call'.k = call.k
        /\ call'.new = call.new
        /\ \/ /\ Nxt_Free' = Nxt_Free /\ call'.at = "scan" /\ call'.next = call.next + 1
           \/ /\ Nxt_Free' = call.next - 1 /\ call'.at = "erase" /\ Entry(call.next) = 0
    <3>1. CASE Entry(call.next) = 0
      <4>1. call' = [call EXCEPT !.at = "erase", !.next = 0] /\ Nxt_Free' = call.next - 1
        BY <2>1, <3>1
      <4> QED BY <2>2, <3>1, <4>1 DEF IsCall, Same
    <3>2. CASE Entry(call.next) # 0
      <4>1. call' = [call EXCEPT !.next = call.next + 1] /\ Nxt_Free' = Nxt_Free
        BY <2>1, <3>2
      <4> QED BY <1>1, <2>2, <4>1 DEF IsCall, Same
    <3> QED BY <3>1, <3>2
  <2>5. /\ Caches' /\ Tables' /\ Names' /\ FileOK' /\ ChainsOK' /\ AtRest' /\ Synced'
        /\ \A i \in DirSlot : Chain(i)' = Chain(i)
        /\ Owned' = Owned /\ FAT' = FAT
    BY <1>1, <2>1, <2>3, <2>4, TransferReads DEF Same
  <2>6. Entry(call.next) = 0 => call.next \notin {2} \cup Owned /\ call.next # call.new
    BY <2>2, <2>3, EntryIs, ChainFacts, SectorsApart DEF FatIInv, ChainsOK
  <2>7. Hint' /\ (call'.at = "erase" => Nxt_Free' + 1 # call.new)
    <3>1. CASE Nxt_Free' = Nxt_Free /\ call'.at = "scan"
      BY <2>5, <3>1 DEF Hint, FatIInv
    <3>2. CASE Nxt_Free' = call.next - 1 /\ Entry(call.next) = 0
      <4>1. Nxt_Free' + 1 = call.next
        BY <2>2, <3>2
      <4> QED BY <2>3, <2>5, <2>6, <3>2, <4>1 DEF Hint
    <3> QED BY <2>4, <3>1, <3>2
  <2>8. Chain(file.slot)' = s /\ file' = file /\ EndClus' = EndClus
    BY <2>1, <2>2, <2>4, <2>5 DEF EndClus, Same
  <2>9. Transfer'
    <3>0. call'.new \in Cluster \ ({2} \cup Owned') /\ FAT'[call'.new] = EOC
      BY <2>2, <2>4, <2>5
    <3>1. CASE call'.at = "scan"
      <4>1. call'.next \in Nat /\ call'.next >= call'.new
        BY <2>2, <2>3, <2>4, <3>1
      <4> QED BY <1>1, <2>2, <2>4, <2>8, <3>0, <3>1, <4>1 DEF Transfer, Stage, Running, Same
    <3>2. CASE call'.at = "erase"
      BY <1>1, <2>2, <2>4, <2>7, <2>8, <3>0, <3>2 DEF Transfer, Stage, Running, Same
    <3> QED BY <2>4, <3>1, <3>2
  <2> QED BY <2>2, <2>4, <2>5, <2>7, <2>9 DEF FatIInv, CallOK, Same
<1> QED BY <1>2, <1>3

\* Steps on the data of the open file leave the FAT and the directory alone.
LEMMA DataOnly ==
    ASSUME FatIInv, Except(DataSectors(Loaded)), disk' = [s \in Sectors |-> disk'[s]],
           fat_buf' = fat_buf, dir_data_buf' = dir_data_buf
    PROVE  /\ FatMoved /\ FAT' = FAT /\ FATOnDisk' = FATOnDisk
           /\ DirMoved /\ Root' = Root /\ RootOnDisk' = RootOnDisk
           /\ disk'[FSInfo] = disk[FSInfo]
           /\ FAT'[2] # 0 /\ \A k \in Owned : FAT'[k] = FAT[k]
<1> USE DEF FatIInv
<1>1. Loaded \subseteq Cluster \ {2}
  BY ChainFacts
<1>2. \A s \in DataSectors(Loaded) : s \notin FatSectors /\ s # FSInfo /\ s # RootSector
  BY <1>1, SectorsApart DEF DataSectors, RootSector
<1>3. FSInfo \in Sectors /\ RootSector \in Sectors /\ FatSectors \subseteq Sectors
  BY SectorSets DEF Sectors
<1>4. disk'[FSInfo] = disk[FSInfo] /\ disk'[RootSector] = disk[RootSector] /\ \A s \in FatSectors : disk'[s] = disk[s]
  BY <1>2, <1>3 DEF Except
<1>5. FatMoved /\ FAT' = FAT /\ FATOnDisk' = FATOnDisk
  BY <1>4, FatUntouched
<1>6. DirMoved /\ Root' = Root /\ RootOnDisk' = RootOnDisk
  BY <1>4, DirUntouched
<1> QED BY <1>4, <1>5, <1>6 DEF ChainsOK

\* Erasing the new cluster, where it is, writes a sector of no chain.
LEMMA EraseKeeps ==
    ASSUME FatIInv, ErasesInPlace, Erase
    PROVE  /\ FatIInv' /\ FAT' = FAT
           /\ \A i \in DirSlot : Chain(i)' = Chain(i)
<1> DEFINE s == Chain(file.slot)
<1>1. /\ Transfer /\ call.at = "erase"
      /\ disk' = [disk EXCEPT ![fs_dataclus2sec(call.new)] = Zeros]
      /\ call' = [call EXCEPT !.at = "link"]
      /\ UNCHANGED <<Nxt_Free, fat_buf, dir_data_buf, file>>
  BY WhichCall DEF Erase, Stage, FatIInv, Transferring
<1>2. /\ IsCall(call) /\ call.op = "write" /\ call.new \in Cluster \ ({2} \cup Owned) /\ file.slot \in DirSlot
      /\ call.f = file.entry.name /\ FAT[call.new] = EOC /\ Nxt_Free + 1 # call.new
  BY <1>1 DEF Transfer, Stage, Running
<1>3. /\ IsCall(call') /\ Same(call, call') /\ call'.clus = call.clus /\ call'.k = call.k
      /\ call'.at = "link" /\ call'.new = call.new
  BY <1>1, <1>2 DEF IsCall, Same
<1>0. base_addr = 0
  <2>1. call.new \in Nat /\ first_data_sector \in Nat /\ base_addr \in Nat
    BY <1>2, SectorsApart, FirstSector, FatAssumption
  <2>2. fs_dataclus2sec(call.new) = base_addr + fs_dataclus2sec(call.new)
    BY <1>1 DEF ErasesInPlace, Stage, DataSector
  <2> QED BY <2>1, <2>2 DEF fs_dataclus2sec
<1>4. /\ disk' = [t \in Sectors |-> disk'[t]] /\ disk'[DataSector(call.new)] = Zeros
      /\ \A t \in Sectors \ {DataSector(call.new)} : disk'[t] = disk[t]
  <2>1. fs_dataclus2sec(call.new) = DataSector(call.new) /\ DataSector(call.new) \in Sectors
    BY <1>1, <1>2, SectorSets DEF FatIInv, ErasesInPlace, Stage
  <2>2. disk = [t \in Sectors |-> disk[t]]
    BY DEF FatIInv, Caches
  <2> HIDE DEF Sectors
  <2> QED BY <1>1, <2>1, <2>2
<1>5. /\ disk'[RootSector] = disk[RootSector] /\ \A t \in FatSectors : disk'[t] = disk[t]
      /\ \A c \in Loaded : disk'[DataSector(c)] = disk[DataSector(c)] /\ Loaded \subseteq Cluster
  <2>1. RootSector = DataSector(2) /\ 2 \in Cluster
    BY SectorsApart DEF RootSector
  <2>2. Loaded \subseteq Owned /\ Loaded \subseteq Cluster
    BY ChainFacts DEF FatIInv
  <2> QED BY <1>2, <1>4, <2>1, <2>2, SectorsApart, SectorSets DEF FatIInv
<1>6. FatMoved /\ FAT' = FAT
  BY <1>1, <1>4, <1>5, FatUntouched DEF FatIInv
<1>7. DirMoved /\ Root' = Root
  BY <1>1, <1>5, DirUntouched DEF FatIInv
<1>8. CacheOK(file'.data_buf, LOCAL_DATA_BUF_NUM, DataSectors(Loaded), disk')
  <2>1. Loaded \subseteq Cluster
    BY ChainFacts DEF FatIInv
  <2> QED BY <1>1, <1>5, <2>1, DataUntouched DEF FatIInv
<1>9. call.op \in Reading /\ call'.op \in Reading /\ call.at # "clear" /\ call'.at # "clear"
  BY <1>1, <1>2, <1>3 DEF Reading, Same
<1>10. /\ file # NoFile /\ file' = FileRec(file.entry, file.slot, file'.loc, file'.data_buf)
       /\ file'.loc \in 0 .. file.entry.size
  BY <1>1, TransferFacts, FileFacts DEF FatIInv
<1>11. FAT'[2] # 0 /\ \A k \in Owned : FAT'[k] = FAT[k]
  BY <1>6 DEF FatIInv, ChainsOK
<1>12. /\ Caches' /\ Tables' /\ Names' /\ FileOK' /\ ChainsOK' /\ AtRest' /\ Synced'
       /\ \A i \in DirSlot : Chain(i)' = Chain(i)
       /\ Owned' = Owned
  BY <1>2, <1>6, <1>7, <1>8, <1>9, <1>10, <1>11, FileStep
<1>13. Hint'
  BY <1>1, <1>12 DEF Hint, FatIInv
<1>14. Chain(file.slot)' = s /\ file' = file /\ EndClus' = EndClus
  BY <1>1, <1>2, <1>3, <1>12 DEF EndClus, Same
<1>15. Transfer'
  BY <1>0, <1>1, <1>2, <1>3, <1>4, <1>6, <1>12, <1>14 DEF Transfer, Stage, Running, Same
<1> QED BY <1>6, <1>12, <1>13, <1>15 DEF FatIInv, CallOK

\* A step on the cluster that a read or write has reached.
LEMMA MoveKeeps ==
    ASSUME FatIInv, Transfer, call.at = "move", DataMoved,
           UNCHANGED <<Nxt_Free, fat_buf, dir_data_buf>>,
           file' = FileRec(file.entry, file.slot, file.loc, file'.data_buf),
           IsCall(call'), Same(call, call'), call'.clus = call.clus, call'.k = call.k, call'.new = call.new,
           call'.at = After
    PROVE  /\ FatIInv' /\ FAT' = FAT
           /\ \A i \in DirSlot : Chain(i)' = Chain(i)
<1> DEFINE s == Chain(file.slot)
<1>1. call'.at = IF call.k = EndClus THEN "end" ELSE "advance"
  BY DEF After
<1>2. /\ FatMoved /\ FAT' = FAT /\ DirMoved /\ Root' = Root
      /\ FAT'[2] # 0 /\ \A k \in Owned : FAT'[k] = FAT[k]
      /\ CacheOK(file'.data_buf, LOCAL_DATA_BUF_NUM, DataSectors(Loaded), disk')
  BY DataOnly DEF DataMoved
<1>3. /\ call.op \in Reading /\ call'.op \in Reading /\ call.at # "clear" /\ call'.at # "clear"
      /\ call.f = file.entry.name
  BY <1>1 DEF Transfer, Reading, Same
<1>4. /\ file # NoFile /\ file' = FileRec(file.entry, file.slot, file'.loc, file'.data_buf)
      /\ file'.loc = file.loc /\ file'.loc \in 0 .. file.entry.size
  <2>1. file'.loc = file.loc
    BY DEF FileRec
  <2> QED BY <2>1, TransferFacts, FileFacts DEF FatIInv
<1>5. /\ Caches' /\ Tables' /\ Names' /\ FileOK' /\ ChainsOK' /\ AtRest' /\ Synced'
      /\ \A i \in DirSlot : Chain(i)' = Chain(i)
      /\ Owned' = Owned /\ file'.slot = file.slot /\ file'.entry = file.entry
  BY <1>2, <1>3, <1>4, FileStep
<1>6. Hint'
  BY <1>5 DEF Hint, FatIInv
<1>7. EndClus' = EndClus /\ EndClus \in Nat /\ call.k \in 0 .. EndClus /\ file.slot \in DirSlot
  BY TransferFacts DEF EndClus, Same, Transfer
<1>8. Chain(file.slot)' = s
  BY <1>5, <1>7
<1>9. Transfer'
  <2>1. CASE call.k = EndClus
    BY <1>1, <1>4, <1>5, <1>7, <1>8, <2>1 DEF Transfer, Stage, Running, Same
  <2>2. CASE call.k # EndClus
    <3>1. call.k < EndClus
      BY <1>7, <2>2
    <3> QED BY <1>1, <1>4, <1>5, <1>7, <1>8, <2>2, <3>1 DEF Transfer, Stage, Running, Same
  <2> QED BY <2>1, <2>2
<1> QED BY <1>2, <1>5, <1>6, <1>9 DEF FatIInv, CallOK

\* The cluster a read or write has reached is one of its file.
LEMMA ReachedIsLoaded ==
    ASSUME FatIInv, Transfer, call.at = "move"
    PROVE  call.clus \in Loaded /\ Loaded \subseteq Cluster /\ IsCall(call)
           /\ file = FileRec(file.entry, file.slot, file.loc, file.data_buf)
<1> DEFINE s == Chain(file.slot)
<1>1. IsChain(FAT, s, file.entry.start) /\ Len(s) \in Nat /\ file.slot \in DirSlot /\ call.k \in Nat
  BY TransferFacts
<1>2. call.k < Len(s) /\ call.clus = s[call.k + 1] /\ IsCall(call)
  BY DEF Transfer
<1>3. call.k + 1 \in 1 .. Len(s)
  BY <1>1, <1>2
<1>4. call.clus \in Range(s)
  BY <1>1, <1>2, <1>3, ChainNext
<1>5. Loaded = Range(s)
  BY <1>1 DEF Loaded, Stage
<1> QED BY <1>2, <1>4, <1>5, ChainFacts, FileFacts DEF FatIInv

\* Reading changes the buffers and the locals only.
LEMMA MoveReadKeeps ==
    ASSUME FatIInv, MoveRead
    PROVE  FatIInv' /\ FAT' = FAT /\ \A i \in DirSlot : Chain(i)' = Chain(i)
<1> DEFINE b == Fetched(file.data_buf, DataSector(call.clus), disk)
           bytes == Seen(file.data_buf, DataSector(call.clus), disk)
           x == call.data \o [i \in 1 .. Moved |-> bytes[StartByte + i - 1]]
<1>1. /\ Transfer /\ call.at = "move"
      /\ file' = [file EXCEPT !.data_buf = b]
      /\ disk' = Fetching(file.data_buf, DataSector(call.clus), disk)
      /\ call' = [call EXCEPT !.at = After, !.cur = call.cur + Moved, !.data = x]
      /\ UNCHANGED <<Nxt_Free, fat_buf, dir_data_buf>>
  BY WhichCall DEF MoveRead, Stage, FatIInv, Transferring
<1>2. /\ call.clus \in Loaded /\ Loaded \subseteq Cluster /\ IsCall(call)
      /\ file = FileRec(file.entry, file.slot, file.loc, file.data_buf)
  BY <1>1, ReachedIsLoaded
<1> HIDE DEF b, x
<1>3. file' = FileRec(file.entry, file.slot, file.loc, file'.data_buf) /\ file'.data_buf = b
  BY <1>1, <1>2 DEF FileRec
<1>4. /\ IsCall(call') /\ Same(call, call') /\ call'.clus = call.clus /\ call'.k = call.k
      /\ call'.at = After /\ call'.new = call.new
  BY <1>1, <1>2 DEF IsCall, Same
<1>5. DataMoved
  BY <1>1, <1>2, <1>3, DataFetched DEF FatIInv, b
<1> QED BY <1>1, <1>3, <1>4, <1>5, MoveKeeps

\* Writing changes a cluster of the open file.
LEMMA MoveWriteKeeps ==
    ASSUME FatIInv, MoveWrite
    PROVE  FatIInv' /\ FAT' = FAT /\ \A i \in DirSlot : Chain(i)' = Chain(i)
<1> DEFINE s == DataSector(call.clus)
           x == Overlay(Seen(file.data_buf, s, disk))
           b == Modified(Fetched(file.data_buf, s, disk), s, x)
<1>1. /\ Transfer /\ call.at = "move"
      /\ file' = [file EXCEPT !.data_buf = b]
      /\ disk' = Fetching(file.data_buf, DataSector(call.clus), disk)
      /\ call' = [call EXCEPT !.at = After, !.cur = call.cur + Moved]
      /\ UNCHANGED <<Nxt_Free, fat_buf, dir_data_buf>>
  BY WhichCall DEF MoveWrite, Stage, FatIInv, Transferring
<1>2. /\ call.clus \in Loaded /\ Loaded \subseteq Cluster /\ IsCall(call)
      /\ file = FileRec(file.entry, file.slot, file.loc, file.data_buf)
  BY <1>1, ReachedIsLoaded
<1> HIDE DEF b, x
<1>3. file' = FileRec(file.entry, file.slot, file.loc, file'.data_buf) /\ file'.data_buf = b
  BY <1>1, <1>2 DEF FileRec
<1>4. /\ IsCall(call') /\ Same(call, call') /\ call'.clus = call.clus /\ call'.k = call.k
      /\ call'.at = After /\ call'.new = call.new
  BY <1>1, <1>2 DEF IsCall, Same
<1>5. DataMoved
  BY <1>1, <1>2, <1>3, DataModified DEF FatIInv, b
<1> QED BY <1>1, <1>3, <1>4, <1>5, MoveKeeps

\* The chain of one entry becomes t, of clusters that it had or that no chain had.
LEMMA ChainReplaced ==
    ASSUME ChainsOK, NEW p \in DirSlot, NEW t, IsChain(FAT', t, First(p)'),
           2 \notin Range(t), \A c \in Range(t) : c \in Owned => c \in Range(Chain(p)),
           \A i \in DirSlot \ {p} : First(i)' = First(i),
           \A i \in DirSlot \ {p} : \A c \in Range(Chain(i)) : FAT'[c] = FAT[c], FAT'[2] # 0,
           \A i \in DirSlot \ {p} : ~Freeing(i)' => ~Freeing(i) /\ Dir(i)'.size = Dir(i).size,
           ~Freeing(p)' => Len(t) * CS >= Dir(p)'.size
    PROVE  /\ ChainsOK' /\ Chain(p)' = t /\ \A i \in DirSlot \ {p} : Chain(i)' = Chain(i)
           /\ Owned' \subseteq Owned \cup Range(t)
           /\ \A c \in Owned : c \notin Range(Chain(p)) \ Range(t) => c \in Owned'
<1>1. ASSUME NEW i \in DirSlot \ {p}
      PROVE  IsChain(FAT', Chain(i), First(i)') /\ Chain(i)' = Chain(i)
  <2>1. IsChain(FAT, Chain(i), First(i)) /\ \A x \in Range(Chain(i)) : FAT'[x] = FAT[x]
    BY DEF ChainsOK
  <2>2. IsChain(FAT', Chain(i), First(i)) /\ Follow(FAT', First(i)) = Chain(i)
    BY <2>1, ChainFrame
  <2>3. Chain(i)' = Follow(FAT', First(i)')
    BY DEF Chain
  <2> QED BY <2>2, <2>3
<1>2. Chain(p)' = t
  <2>1. Chain(p)' = Follow(FAT', First(p)')
    BY DEF Chain
  <2> QED BY <2>1, FollowIs
<1>3. \A i \in DirSlot : IsChain(FAT', Chain(i)', First(i)')
  BY <1>1, <1>2
<1>4. \A i \in DirSlot : Range(Chain(i)) \subseteq Owned
  BY DEF Owned
<1>5. \A i \in DirSlot : 2 \notin Range(Chain(i)')
  BY <1>1, <1>2 DEF ChainsOK
<1>6. ASSUME NEW i \in DirSlot, NEW j \in DirSlot, i # j
      PROVE  Range(Chain(i)') \cap Range(Chain(j)') = {}
  BY <1>1, <1>2, <1>4, <1>6 DEF ChainsOK
<1>7. \A i \in DirSlot : ~Freeing(i)' => Len(Chain(i)') * CS >= Dir(i)'.size
  BY <1>1, <1>2 DEF ChainsOK
<1>8. ChainsOK'
  BY <1>3, <1>5, <1>6, <1>7 DEF ChainsOK
<1>9. Owned' \subseteq Owned \cup Range(t)
  BY <1>1, <1>2, <1>4 DEF Owned
<1>10. ASSUME NEW c \in Owned, c \notin Range(Chain(p)) \ Range(t)  PROVE c \in Owned'
  <2>1. PICK i \in DirSlot : c \in Range(Chain(i))
    BY DEF Owned
  <2>2. c \in Range(Chain(i)')
    BY <1>1, <1>2, <1>10, <2>1
  <2> QED BY <2>2 DEF Owned
<1> QED BY <1>1, <1>2, <1>8, <1>9, <1>10

\* The disk has gone on while the file of entry p is in use.
LEMMA SyncedButOne ==
    ASSUME ChainsOK, Synced, Root' = Root, NEW p \in DirSlot, InUse(Root[p].name)',
           \A i \in DirSlot \ {p} : Chain(i)' = Chain(i),
           \A i \in DirSlot \ {p} : \A c \in Range(Chain(i)) : FAT'[c] = FAT[c],
           \A i \in DirSlot : RootOnDisk'[i] \in {RootOnDisk[i], Root[i]},
           \A k \in Cluster : FATOnDisk'[k] \in {FATOnDisk[k], FAT[k]},
           \A f \in File : InUse(f) => InUse(f)'
    PROVE  Synced'
<1>4. ASSUME NEW i \in DirSlot
      PROVE  \/ Root'[i] = RootOnDisk'[i]
             \/ \A n \in File \cap {Root'[i].name, RootOnDisk'[i].name} : InUse(n)'
  BY DEF Synced
<1>5. ASSUME NEW i \in DirSlot, Root'[i].name \in File, ~InUse(Root[i].name)',
             NEW c \in Range(Chain(i)')
      PROVE  FATOnDisk'[c] = FAT'[c]
  <2>0. i # p
    BY <1>5 DEF InUse
  <2>1. c \in Range(Chain(i)) /\ c \in Cluster
    BY <2>0, <1>5, ChainFacts
  <2>2. FATOnDisk[c] = FAT[c]
    <3>1. Root[i].name \in File /\ ~InUse(Root[i].name)
      BY <1>5 DEF InUse
    <3> QED BY <2>1, <3>1 DEF Synced
  <2> QED BY <2>0, <2>1, <2>2
<1> QED BY <1>4, <1>5 DEF Synced

\* The new cluster becomes the last of the chain of the open file.
LEMMA LinkKeeps ==
    ASSUME FatIInv, Link
    PROVE  /\ FatIInv' /\ \A i \in DirSlot : i # file.slot => Chain(i)' = Chain(i)
           /\ Range(Chain(file.slot)') = Range(Chain(file.slot)) \cup {call.new}
           /\ \A c \in Cluster : FAT'[c] # 0 => FAT[c] # 0
<1>0. PICK p \in DirSlot : p = file.slot
  <2>1. Transfer
    BY WhichCall DEF Link, Stage, FatIInv, Transferring
  <2> QED BY <2>1 DEF Transfer
<1> DEFINE s == Chain(p)
           new == call.new
<1>1. /\ Transfer /\ call.at = "link"
      /\ IF call.clus = 0
         THEN file' = [file EXCEPT !.entry.start = call.new] /\ UNCHANGED <<disk, fat_buf>>
         ELSE fs_modify_fat(call.clus, call.new) /\ UNCHANGED file
      /\ call' = [call EXCEPT !.at = "clear"]
      /\ UNCHANGED <<Nxt_Free, dir_data_buf>>
  BY WhichCall DEF Link, Stage, FatIInv, Transferring
<1>2. /\ IsCall(call) /\ call.op = "write" /\ new \in Cluster \ ({2} \cup Owned) /\ p \in DirSlot /\ p = file.slot
      /\ call.f = file.entry.name /\ FAT[new] = EOC /\ Nxt_Free + 1 # new /\ disk[DataSector(new)] = Zeros /\ base_addr = 0
      /\ call.pos = file.loc /\ call.count \in Nat \ {0} /\ call.k \in 0 .. EndClus
      /\ \/ call.clus = 0 /\ file.entry.start = 0 /\ call.k = 0 /\ s = <<>>
         \/ call.clus \in Cluster /\ call.k + 1 = Len(s) /\ call.clus = s[Len(s)] /\ call.k < EndClus
  BY <1>0, <1>1 DEF Transfer, Stage, Running
<1>3. /\ IsCall(call') /\ Same(call, call') /\ call'.clus = call.clus /\ call'.k = call.k
      /\ call'.at = "clear" /\ call'.new = new
  BY <1>1, <1>2 DEF IsCall, Same
<1>4. /\ file # NoFile /\ IsChain(FAT, s, file.entry.start) /\ Len(s) \in Nat
      /\ Len(s) * CS >= file.entry.size /\ \A i \in DirSlot : ~Freeing(i)
      /\ file.entry.size \in Nat /\ file.entry.name \in File /\ file.loc \in 0 .. file.entry.size
      /\ Root[p].name = file.entry.name
      /\ file = FileRec(file.entry, file.slot, file.loc, file.data_buf)
      /\ file.entry \in [name : File, start : {0} \cup Cluster, size : Nat]
  BY <1>0, <1>1, TransferFacts, FileFacts DEF FatIInv
<1>5. \A i \in DirSlot : ~Freeing(i)'
  BY <1>2, <1>3 DEF Freeing, Running, Same
<1>6. 0 \notin Cluster /\ new \in Cluster /\ new # 2 /\ new \notin Owned /\ Range(s) \subseteq Owned
  BY <1>2, SectorsApart, ChainFacts DEF FatIInv
<1>7. \E t : /\ IsChain(FAT', t, file'.entry.start) /\ Range(t) = Range(s) \cup {new}
             /\ Len(t) = Len(s) + 1 /\ t[Len(t)] = new
             /\ file'.slot = p /\ file'.entry.name = file.entry.name /\ file'.entry.size = file.entry.size
             /\ file'.loc = file.loc /\ file'.data_buf = file.data_buf
             /\ file' = FileRec(file'.entry, p, file.loc, file.data_buf)
             /\ file'.entry \in [name : File, start : {0} \cup Cluster, size : Nat]
             /\ \A i \in DirSlot \ {p} : \A c \in Range(Chain(i)) : FAT'[c] = FAT[c]
             /\ FAT'[2] # 0 /\ (\A c \in Cluster : FAT'[c] # 0 => FAT[c] # 0)
             /\ FatMoved /\ Except(FatSectors)
  <2>1. CASE call.clus = 0
    <3>1. file' = [file EXCEPT !.entry.start = new] /\ UNCHANGED <<disk, fat_buf>>
      BY <1>1, <2>1
    <3>2. s = <<>> /\ Range(s) = {} /\ Len(s) = 0
      <4>1. s = <<>>
        BY <1>2, <1>6, <2>1
      <4> QED BY <4>1 DEF Range
    <3>3. disk' = [t \in Sectors |-> disk'[t]]
      BY <3>1 DEF FatIInv, Caches
    <3>4. FatMoved /\ FAT' = FAT /\ Except(FatSectors)
      BY <3>1, <3>3, FatUntouched DEF FatIInv, Except
    <3>5. file'.entry = [name |-> file.entry.name, start |-> new, size |-> file.entry.size]
      BY <1>4, <3>1 DEF FileRec
    <3>6. /\ file'.slot = p /\ file'.loc = file.loc /\ file'.data_buf = file.data_buf
          /\ file' = FileRec(file'.entry, p, file.loc, file.data_buf)
      BY <1>0, <1>4, <3>1 DEF FileRec
    <3>7. /\ file'.entry.start = new /\ file'.entry.name = file.entry.name /\ file'.entry.size = file.entry.size
          /\ file'.entry \in [name : File, start : {0} \cup Cluster, size : Nat]
      BY <1>4, <1>6, <3>5
    <3>8. /\ IsChain(FAT', <<new>>, new) /\ Range(<<new>>) = {new}
          /\ Len(<<new>>) = 1 /\ <<new>>[1] = new
      BY <1>2, <3>4, ChainSingle
    <3>9. FAT'[2] # 0
      BY <3>4 DEF FatIInv, ChainsOK
    <3> HIDE DEF s, new
    <3>10. Range(<<new>>) = Range(s) \cup {new} /\ Len(<<new>>) = Len(s) + 1 /\ <<new>>[Len(<<new>>)] = new
      BY <3>2, <3>8
    <3> WITNESS <<new>>
    <3> QED BY <3>4, <3>6, <3>7, <3>8, <3>9, <3>10
  <2>2. CASE call.clus # 0
    <3>1. fs_modify_fat(call.clus, new) /\ file' = file
      BY <1>1, <2>2
    <3>2. call.clus \in Cluster /\ call.clus = s[Len(s)] /\ call.clus \in Range(s) /\ s # <<>> /\ Len(s) > 0
      <4>1. call.clus \in Cluster /\ call.clus = s[Len(s)] /\ call.k + 1 = Len(s) /\ call.k \in Nat
        BY <1>1, <1>2, <2>2, TransferFacts
      <4>2. Len(s) > 0
        BY <1>4, <4>1
      <4>3. s # <<>>
        BY <4>2
      <4> QED BY <1>4, <4>1, <4>2, <4>3, ChainNext
    <3>3. new \in Nat
      BY <1>6, SectorsApart
    <3>4. FatMoved /\ FAT' = [FAT EXCEPT ![call.clus] = new] /\ Except(FatSectors)
      BY <3>1, <3>2, <3>3, FatModified DEF FatIInv
    <3>5. FAT'[call.clus] = new /\ \A c \in Cluster \ {call.clus} : FAT'[c] = FAT[c]
      BY <3>2, <3>4 DEF FAT
    <3>6. \A c \in Range(s) \ {s[Len(s)]} : FAT'[c] = FAT[c]
      BY <1>4, <3>2, <3>5, ChainNext
    <3>7. FAT'[new] = EOC /\ FAT[call.clus] # 0
      BY <1>2, <1>6, <3>2, <3>5, ChainFacts DEF FatIInv
    <3>8. new \in Cluster \ Range(s) /\ FAT'[s[Len(s)]] = new
      BY <1>6, <3>2, <3>5
    <3>9. /\ IsChain(FAT', Append(s, new), file.entry.start) /\ Range(Append(s, new)) = Range(s) \cup {new}
          /\ Len(Append(s, new)) = Len(s) + 1 /\ Append(s, new)[Len(s) + 1] = new
      BY <1>4, <3>2, <3>6, <3>7, <3>8, ChainAppend
    <3>10. FAT'[2] # 0 /\ \A c \in Cluster : FAT'[c] # 0 => FAT[c] # 0
      BY <1>6, <3>2, <3>5, <3>7, SectorsApart DEF FatIInv, ChainsOK
    <3>11. ASSUME NEW i \in DirSlot \ {p}, NEW c \in Range(Chain(i))  PROVE FAT'[c] = FAT[c]
      <4>1. c \in Cluster /\ c # call.clus
        BY <1>2, <3>2, ChainFacts DEF FatIInv, ChainsOK
      <4> QED BY <3>5, <4>1
    <3> HIDE DEF s, new
    <3> WITNESS Append(s, new)
    <3>12. file.slot = p
      BY <1>0
    <3> QED BY <1>4, <3>1, <3>4, <3>9, <3>10, <3>11, <3>12
  <2> QED BY <2>1, <2>2
<1>8. PICK t : /\ IsChain(FAT', t, file'.entry.start) /\ Range(t) = Range(s) \cup {new}
               /\ Len(t) = Len(s) + 1 /\ t[Len(t)] = new
               /\ file'.slot = p /\ file'.entry.name = file.entry.name /\ file'.entry.size = file.entry.size
               /\ file'.loc = file.loc /\ file'.data_buf = file.data_buf
               /\ file' = FileRec(file'.entry, p, file.loc, file.data_buf)
               /\ file'.entry \in [name : File, start : {0} \cup Cluster, size : Nat]
               /\ \A i \in DirSlot \ {p} : \A c \in Range(Chain(i)) : FAT'[c] = FAT[c]
               /\ FAT'[2] # 0 /\ (\A c \in Cluster : FAT'[c] # 0 => FAT[c] # 0)
               /\ FatMoved /\ Except(FatSectors)
  BY <1>7
<1>9. /\ DirMoved /\ Root' = Root
      /\ CacheOK(file'.data_buf, LOCAL_DATA_BUF_NUM, DataSectors(Loaded), disk')
      /\ disk'[DataSector(new)] = Zeros
  BY <1>1, <1>2, <1>8, FatOnly
<1>10. First(p)' = file'.entry.start /\ Dir(p)' = file'.entry
  BY <1>5, <1>8, <1>2 DEF First, Dir
<1>11. \A i \in DirSlot \ {p} : Dir(i)' = Dir(i) /\ First(i)' = First(i)
  BY <1>4, <1>2, <1>5, <1>8, <1>9 DEF First, Dir
<1>12. Len(t) * CS >= Dir(p)'.size
  <2>1. Len(s) * CS \in Nat /\ (Len(s) + 1) * CS = Len(s) * CS + CS /\ CS \in Nat
    BY <1>4, FatAssumption
  <2> QED BY <1>4, <1>8, <1>10, <2>1
<1>13. /\ ChainsOK' /\ Chain(p)' = t /\ \A i \in DirSlot \ {p} : Chain(i)' = Chain(i)
       /\ Owned' \subseteq Owned \cup Range(t)
  <2>1. 2 \notin Range(t) /\ \A c \in Range(t) : c \in Owned => c \in Range(Chain(p))
    BY <1>2, <1>6, <1>8, ChainFacts DEF FatIInv
  <2>2. IsChain(FAT', t, First(p)')
    BY <1>8, <1>10
  <2>3. \A i \in DirSlot \ {p} : ~Freeing(i)' => ~Freeing(i) /\ Dir(i)'.size = Dir(i).size
    BY <1>4, <1>11
  <2>4. p \in DirSlot /\ FAT'[2] # 0 /\ ChainsOK
    BY <1>8 DEF FatIInv
  <2>5. \A i \in DirSlot \ {p} : \A c \in Range(Chain(i)) : FAT'[c] = FAT[c]
    BY <1>8
  <2> HIDE DEF s, new
  <2> QED BY <2>4, <2>5, <1>11, <1>12, <2>1, <2>2, <2>3, ChainReplaced
<1>14. Loaded' = Range(s) /\ Loaded = Range(s)
  <2>1. Loaded = Range(s)
    BY <1>1, <1>2 DEF Loaded, Stage
  <2>2. Loaded' = Range(t) \ {new}
    BY <1>2, <1>3, <1>8, <1>13 DEF Loaded, Stage
  <2> QED BY <1>6, <1>8, <2>1, <2>2
<1>15. Caches' /\ Tables'
  BY <1>8, <1>9, <1>14, StoredOK DEF FileCache
<1>16. Names'
  BY <1>9 DEF Names, FatIInv
<1>17. FileOK'
  BY <1>2, <1>4, <1>8, <1>9 DEF FileOK, FileRec
<1>18. Synced'
  <2>1. \A f \in File : InUse(f) => InUse(f)'
    BY <1>3, <1>8 DEF InUse, Same
  <2>2. InUse(Root[p].name)'
    BY <1>4, <1>8, <1>9 DEF InUse
  <2>3. /\ \A i \in DirSlot : RootOnDisk'[i] \in {RootOnDisk[i], Root[i]}
        /\ \A k \in Cluster : FATOnDisk'[k] \in {FATOnDisk[k], FAT[k]}
    BY <1>8, <1>9 DEF FatMoved, DirMoved
  <2> QED BY <1>2, <1>8, <1>9, <1>13, <2>1, <2>2, <2>3, SyncedButOne DEF FatIInv
<1>19. Hint'
  <2>1. Owned' \subseteq Owned \cup {new}
    BY <1>6, <1>8, <1>13
  <2> QED BY <1>1, <1>2, <2>1 DEF Hint, FatIInv
<1>20. AtRest'
  <2>1. call'.op = "write" /\ NoCall.op = "none"
    BY <1>2, <1>3 DEF Same, NoCall
  <2> QED BY <2>1 DEF AtRest
<1>21. EndClus' = EndClus /\ t # <<>>
  <2>1. Len(t) > 0
    BY <1>4, <1>8
  <2> QED BY <1>3, <2>1 DEF EndClus, Same
<1>22. Transfer'
  <2>1. Chain(file.slot)' = t /\ file'.slot \in DirSlot
    BY <1>2, <1>8, <1>13 DEF Chain, First, Freeing, Dir
  <2>2. \/ call.clus = 0 /\ call.k = 0 /\ Len(t) = 1
        \/ call.clus \in Cluster /\ call.k < EndClus /\ Len(t) = call.k + 2
    <3>1. call.k \in Nat
      BY <1>1, TransferFacts
    <3> QED BY <1>2, <1>8, <3>1
  <2> QED BY <1>2, <1>3, <1>8, <1>9, <1>21, <2>1, <2>2 DEF Transfer, Stage, Running, Same
<1> QED BY <1>0, <1>8, <1>13, <1>15, <1>16, <1>17, <1>18, <1>19, <1>20, <1>22 DEF FatIInv, CallOK

\* From now on the file may have the new cluster in its buffers.
LEMMA ClearKeeps ==
    ASSUME FatIInv, ClearCluster
    PROVE  /\ FatIInv' /\ FAT' = FAT /\ \A i \in DirSlot : Chain(i)' = Chain(i)
           /\ call.new \in Owned
<1> DEFINE s == Chain(file.slot)
           e == [call EXCEPT !.clus = call.new, !.new = 0]
           k == IF call.clus = 0 THEN 0 ELSE call.k + 1
           b == Cleared(file.data_buf, fs_dataclus2sec(call.new), Zeros)
<1>1. /\ Transfer /\ call.at = "clear"
      /\ file' = [file EXCEPT !.data_buf = b]
      /\ disk' = Evicted(file.data_buf, disk)
      /\ call' = Reached(e, k)
      /\ UNCHANGED <<Nxt_Free, fat_buf, dir_data_buf>>
  BY WhichCall DEF ClearCluster, Stage, FatIInv, Transferring
<1>2. /\ IsCall(call) /\ call.op = "write" /\ file.slot \in DirSlot /\ call.f = file.entry.name
      /\ call.new \in Cluster /\ s # <<>> /\ s[Len(s)] = call.new
      /\ \/ call.clus = 0 /\ call.k = 0 /\ Len(s) = 1
         \/ call.clus \in Cluster /\ call.k < EndClus /\ Len(s) = call.k + 2
      /\ disk[DataSector(call.new)] = Zeros /\ base_addr = 0
      /\ call.pos = file.loc /\ call.count \in Nat \ {0}
  BY <1>1 DEF Transfer, Stage, Running
<1>3. /\ IsChain(FAT, s, file.entry.start) /\ Len(s) \in Nat /\ EndClus \in Nat /\ call.k \in Nat
      /\ StartClus \in Nat /\ StartClus <= EndClus /\ \A i \in DirSlot : ~Freeing(i)
      /\ file = FileRec(file.entry, file.slot, file.loc, file.data_buf) /\ file # NoFile
  BY <1>1, TransferFacts, FileFacts DEF FatIInv
<1>4. IsCall(e) /\ Same(call, e) /\ e.clus = call.new /\ e.new = 0
  <2>1. ASSUME NEW d, d = e  PROVE IsCall(d) /\ Same(call, d) /\ d.clus = call.new /\ d.new = 0
    BY <1>2, <2>1 DEF IsCall, Same
  <2> QED BY <2>1, Zenon
<1> HIDE DEF e, b
<1>5. /\ IsCall(call') /\ Same(call, call') /\ call'.clus = call.new /\ call'.new = 0 /\ call'.k = k
      /\ call'.at = IF k < StartClus THEN "advance" ELSE "move"
  BY <1>1, <1>4, ReachedIs DEF Same, StartClus
<1>6. call.new \in Range(s) /\ Loaded = Range(s) \ {call.new} /\ Loaded \subseteq Cluster /\ call.new \in Owned
  <2>1. call.new \in Range(s)
    BY <1>2, <1>3, ChainNext
  <2>2. Loaded = Range(s) \ {call.new}
    BY <1>1, <1>2 DEF Loaded, Stage
  <2> QED BY <1>2, <2>1, <2>2, ChainFacts DEF FatIInv
<1>7. /\ file' = FileRec(file.entry, file.slot, file.loc, file'.data_buf) /\ file'.data_buf = b
      /\ file'.slot = file.slot /\ file'.entry = file.entry /\ file'.loc = file.loc
  BY <1>1, <1>3 DEF FileRec
<1>8. /\ CacheOK(file'.data_buf, LOCAL_DATA_BUF_NUM, DataSectors(Loaded \cup {call.new}), disk')
      /\ disk' = [t \in Sectors |-> disk'[t]] /\ Except(DataSectors(Loaded))
  <2>1. call.new \in Cluster \ Loaded
    BY <1>2, <1>6
  <2> QED BY <1>1, <1>2, <1>6, <1>7, <2>1, DataCleared DEF FatIInv, b
<1>9. /\ FatMoved /\ FAT' = FAT /\ DirMoved /\ Root' = Root
      /\ FAT'[2] # 0 /\ \A c \in Owned : FAT'[c] = FAT[c]
  BY <1>1, <1>8, DataOnly
<1>10. \A i \in DirSlot : ~Freeing(i)'
  BY <1>2, <1>5 DEF Freeing, Running, Same
<1>11. \A i \in DirSlot : Dir(i)' = Dir(i) /\ First(i)' = First(i)
  BY <1>3, <1>7, <1>9, <1>10 DEF First, Dir
<1>12. Owned' = Owned /\ \A i \in DirSlot : Chain(i)' = Chain(i)
  BY <1>9, <1>11, ChainsSame DEF FatIInv
<1>13. Loaded' = Loaded \cup {call.new}
  <2>1. call'.at # "clear"
    BY <1>5
  <2> QED BY <1>2, <1>6, <1>7, <1>12, <2>1 DEF Loaded, Stage
<1>14. Caches' /\ Tables'
  BY <1>8, <1>9, <1>13, StoredOK DEF FileCache
<1>15. Names' /\ ChainsOK' /\ Synced'
  <2>1. \A i \in DirSlot : ~Freeing(i)' => Len(Chain(i)) * CS >= Dir(i)'.size
    BY <1>3, <1>11 DEF ChainsOK, FatIInv
  <2>2. \A f \in File : InUse(f) => InUse(f)'
    BY <1>5, <1>7 DEF InUse, Same
  <2>3. /\ \A i \in DirSlot : RootOnDisk'[i] \in {RootOnDisk[i], Root[i]}
        /\ \A c \in Cluster : FATOnDisk'[c] \in {FATOnDisk[c], FAT[c]}
    BY <1>9 DEF FatMoved, DirMoved
  <2> QED BY <1>9, <1>11, <2>1, <2>2, <2>3, SameView DEF FatIInv
<1>16. FileOK'
  BY <1>2, <1>7, <1>9, <1>3, FileFacts DEF FileOK, FileRec, FatIInv
<1>17. Hint'
  BY <1>1, <1>12 DEF Hint, FatIInv
<1>18. AtRest'
  <2>1. call'.op = "write" /\ NoCall.op = "none"
    BY <1>2, <1>5 DEF Same, NoCall
  <2> QED BY <2>1 DEF AtRest
<1>19. Transfer'
  <2>1. Chain(file.slot)' = s /\ file'.slot \in DirSlot
    BY <1>2, <1>7, <1>12
  <2>2. EndClus' = EndClus
    BY <1>5 DEF EndClus, Same
  <2>3. k \in 0 .. EndClus /\ k + 1 = Len(s) /\ 0 \notin Cluster
    <3>1. 0 \notin Cluster
      BY SectorsApart
    <3>2. CASE call.clus = 0
      BY <1>2, <1>3, <3>1, <3>2
    <3>3. CASE call.clus # 0
      <4>1. k = call.k + 1 /\ call.k < EndClus /\ Len(s) = call.k + 2
        BY <1>2, <3>3
      <4> HIDE DEF k
      <4> QED BY <1>3, <3>1, <4>1
    <3> QED BY <3>2, <3>3
  <2>4. k < Len(s) /\ call.new = s[k + 1]
    BY <1>2, <1>3, <2>3
  <2> HIDE DEF k
  <2>5. CASE call'.at = "advance"
    <3>1. k < EndClus
      BY <1>3, <1>5, <2>3, <2>5
    <3> QED BY <1>2, <1>5, <1>7, <2>1, <2>2, <2>3, <2>4, <2>5, <3>1 DEF Transfer, Stage, Running, Same
  <2>6. CASE call'.at = "move"
    BY <1>2, <1>5, <1>7, <2>1, <2>2, <2>3, <2>4, <2>6 DEF Transfer, Stage, Running, Same
  <2> QED BY <1>5, <2>5, <2>6
<1> QED BY <1>6, <1>9, <1>12, <1>14, <1>15, <1>16, <1>17, <1>18, <1>19 DEF FatIInv, CallOK

\* The file is long enough for its new size.
LEMMA EndMoveKeeps ==
    ASSUME FatIInv, EndMove
    PROVE  /\ FatIInv' /\ FAT' = FAT /\ \A i \in DirSlot : Chain(i)' = Chain(i)
<1> DEFINE s == Chain(file.slot)
           size == IF Running("write") THEN Max({file.entry.size, call.pos + call.count}) ELSE file.entry.size
<1>1. /\ Transfer /\ call.at = "end" /\ call' = NoCall
      /\ file' = [file EXCEPT !.loc = file.loc + call.count, !.entry.size = size]
      /\ UNCHANGED <<disk, Nxt_Free, fat_buf, dir_data_buf>>
  BY WhichCall DEF EndMove, Stage, FatIInv, Transferring
<1>2. /\ file.slot \in DirSlot /\ call.f = file.entry.name /\ call.pos = file.loc /\ call.count \in Nat \ {0}
      /\ call.k < Len(s) /\ call.k = EndClus
      /\ Running("read") => call.pos + call.count <= file.entry.size
      /\ call.op \in {"read", "write"}
  BY <1>1 DEF Transfer, Stage
<1>3. /\ Len(s) \in Nat /\ EndClus \in Nat /\ call.pos \in Nat /\ Len(s) * CS >= file.entry.size
      /\ \A i \in DirSlot : ~Freeing(i)
      /\ \A m \in Nat : call.pos + call.count <= m * CS <=> EndClus < m
      /\ file = FileRec(file.entry, file.slot, file.loc, file.data_buf) /\ file # NoFile
      /\ file.entry \in [name : File, start : {0} \cup Cluster, size : Nat]
      /\ file.entry.size \in Nat /\ Root[file.slot].name = file.entry.name
  BY <1>1, TransferFacts, FileFacts DEF FatIInv
<1>4. call.pos + call.count <= Len(s) * CS
  BY <1>2, <1>3
<1>5. size \in Nat /\ size >= call.pos + call.count /\ size <= Len(s) * CS
  <2>1. CASE Running("write")
    <3>1. \A x, y \in Nat : Max({x, y}) = IF x >= y THEN x ELSE y
      BY DEF Max
    <3>2. size = IF file.entry.size >= call.pos + call.count THEN file.entry.size ELSE call.pos + call.count
      BY <1>2, <1>3, <2>1, <3>1
    <3> QED BY <1>2, <1>3, <1>4, <3>2
  <2>2. CASE ~Running("write")
    BY <1>2, <1>3, <2>2 DEF Running
  <2> QED BY <2>1, <2>2
<1> HIDE DEF size
<1>6. /\ file' = FileRec(file'.entry, file.slot, file.loc + call.count, file.data_buf)
      /\ file'.slot = file.slot /\ file'.loc = file.loc + call.count /\ file'.data_buf = file.data_buf
      /\ file'.entry = [name |-> file.entry.name, start |-> file.entry.start, size |-> size]
  BY <1>1, <1>3 DEF FileRec
<1>7. /\ file'.entry.name = file.entry.name /\ file'.entry.start = file.entry.start /\ file'.entry.size = size
      /\ file'.entry \in [name : File, start : {0} \cup Cluster, size : Nat]
  BY <1>3, <1>5, <1>6
<1>8. disk' = [t \in Sectors |-> disk'[t]] /\ Except(DataSectors(Loaded)) /\ Loaded \subseteq Cluster
  BY <1>1, ChainFacts DEF FatIInv, Caches, Except
<1>9. /\ FatMoved /\ FAT' = FAT /\ DirMoved /\ Root' = Root
      /\ FAT'[2] # 0 /\ \A c \in Owned : FAT'[c] = FAT[c]
  BY <1>1, <1>8, DataOnly
<1>10. CacheOK(file'.data_buf, LOCAL_DATA_BUF_NUM, DataSectors(Loaded), disk')
  BY <1>1, <1>6, <1>8, DataUntouched DEF FatIInv
<1>11. \A i \in DirSlot : ~Freeing(i)'
  BY <1>1 DEF Freeing, Running, NoCall
<1>12. /\ \A i \in DirSlot : First(i)' = First(i)
       /\ \A i \in DirSlot : i # file.slot => Dir(i)' = Dir(i)
       /\ \A i \in DirSlot : i = file.slot => Dir(i)'.size = size
  <2>1. \A i \in DirSlot : i # file.slot => Dir(i)' = Dir(i)
    BY <1>6, <1>9 DEF Dir
  <2>2. \A i \in DirSlot : i = file.slot => Dir(i)'.size = size /\ Dir(i)'.start = file.entry.start /\ Dir(i) = file.entry
    BY <1>6, <1>7 DEF Dir
  <2>3. \A i \in DirSlot : First(i)' = Dir(i)'.start /\ First(i) = Dir(i).start
    BY <1>3, <1>11 DEF First
  <2> QED BY <2>1, <2>2, <2>3
<1>13. Owned' = Owned /\ \A i \in DirSlot : Chain(i)' = Chain(i)
  BY <1>9, <1>12, ChainsSame DEF FatIInv
<1>14. Caches' /\ Tables'
  <2>1. Loaded' = Loaded
    <3>1. call'.at # "clear"
      BY <1>1 DEF NoCall
    <3> QED BY <1>1, <1>2, <1>6, <1>13, <3>1 DEF Loaded, Stage
  <2> QED BY <1>9, <1>10, <2>1, StoredOK DEF FileCache
<1>15. Names' /\ ChainsOK' /\ Synced'
  <2>1. \A i \in DirSlot : ~Freeing(i)' => Len(Chain(i)) * CS >= Dir(i)'.size
    <3>1. \A i \in DirSlot : i # file.slot => Len(Chain(i)) * CS >= Dir(i)'.size
      BY <1>3, <1>12 DEF ChainsOK, FatIInv
    <3>2. Len(s) * CS \in Nat
      <4>1. ASSUME NEW x \in Nat  PROVE x * CS \in Nat
        BY FatAssumption
      <4> QED BY <1>3, <4>1
    <3>3. \A i \in DirSlot : i = file.slot => Len(Chain(i)) * CS >= Dir(i)'.size
      BY <1>5, <1>12, <3>2
    <3> QED BY <3>1, <3>3
  <2>2. \A f \in File : InUse(f) => InUse(f)'
    BY <1>2, <1>7 DEF InUse
  <2>3. /\ \A i \in DirSlot : RootOnDisk'[i] \in {RootOnDisk[i], Root[i]}
        /\ \A c \in Cluster : FATOnDisk'[c] \in {FATOnDisk[c], FAT[c]}
    BY <1>9 DEF FatMoved, DirMoved
  <2> QED BY <1>9, <1>12, <2>1, <2>2, <2>3, SameView DEF FatIInv
<1>16. FileOK'
  BY <1>2, <1>3, <1>5, <1>6, <1>7, <1>9 DEF FileOK, FileRec
<1>17. Hint'
  BY <1>1, <1>13 DEF Hint, FatIInv
<1>18. AtRest'
  <2>1. file' # NoFile
    BY <1>2, <1>6, FileFacts DEF FatIInv, NoFile
  <2> QED BY <2>1 DEF AtRest
<1> QED BY <1>1, <1>9, <1>13, <1>14, <1>15, <1>16, <1>17, <1>18 DEF FatIInv, CallOK

\* The file pointer stays within the file.
LEMMA SeekKeeps ==
    ASSUME FatIInv, NEW loc \in Seek, fs_lseek(loc)
    PROVE  FatIInv' /\ FAT' = FAT /\ \A i \in DirSlot : Chain(i)' = Chain(i)
<1>1. /\ call = NoCall /\ file # NoFile
      /\ file' = [file EXCEPT !.loc = Min({loc, file.entry.size})]
      /\ UNCHANGED <<disk, Nxt_Free, fat_buf, dir_data_buf, call>>
  BY DEF fs_lseek
<1>2. /\ file = FileRec(file.entry, file.slot, file.loc, file.data_buf) /\ file.entry.size \in Nat
  BY <1>1, FileFacts DEF FatIInv
<1>3. Min({loc, file.entry.size}) \in 0 .. file.entry.size
  <2>1. {loc, file.entry.size} \in SUBSET Nat
    BY <1>2, FatAssumption
  <2>2. /\ Min({loc, file.entry.size}) \in {loc, file.entry.size}
        /\ \A x \in {loc, file.entry.size} : Min({loc, file.entry.size}) <= x
    BY <2>1, MinIsLeast
  <2> QED BY <1>2, <2>1, <2>2
<1>4. /\ file' = FileRec(file.entry, file.slot, file'.loc, file'.data_buf)
      /\ file'.loc \in 0 .. file.entry.size /\ file'.data_buf = file.data_buf
  BY <1>1, <1>2, <1>3 DEF FileRec
<1>5. disk' = [t \in Sectors |-> disk'[t]] /\ Except(DataSectors(Loaded)) /\ Loaded \subseteq Cluster
  BY <1>1, ChainFacts DEF FatIInv, Caches, Except
<1>6. /\ FatMoved /\ FAT' = FAT /\ DirMoved /\ Root' = Root
      /\ FAT'[2] # 0 /\ \A c \in Owned : FAT'[c] = FAT[c]
  BY <1>1, <1>5, DataOnly
<1>7. CacheOK(file'.data_buf, LOCAL_DATA_BUF_NUM, DataSectors(Loaded), disk')
  BY <1>1, <1>4, <1>5, DataUntouched DEF FatIInv
<1>8. call.op \in Reading /\ call'.op \in Reading /\ call.at # "clear" /\ call'.at # "clear"
  BY <1>1 DEF NoCall, Reading
<1>9. /\ Caches' /\ Tables' /\ Names' /\ FileOK' /\ ChainsOK' /\ AtRest' /\ Synced'
      /\ Owned' = Owned /\ \A i \in DirSlot : Chain(i)' = Chain(i)
  BY <1>1, <1>4, <1>6, <1>7, <1>8, FileStep
<1> QED BY <1>1, <1>6, <1>9 DEF Hint, FatIInv, CallOK

--------------------------------------------------------------------------------
(* Closing, creating and removing *)

\* Steps that touch neither the FAT nor the disk.
LEMMA DiskSame ==
    ASSUME FatIInv, disk' = disk, fat_buf' = fat_buf
    PROVE  /\ FatMoved /\ FAT' = FAT /\ FATOnDisk' = FATOnDisk
           /\ FAT'[2] # 0 /\ \A c \in Owned : FAT'[c] = FAT[c]
           /\ disk' = [t \in Sectors |-> disk'[t]] /\ Loaded \subseteq Cluster
           /\ file'.data_buf = file.data_buf =>
                 CacheOK(file'.data_buf, LOCAL_DATA_BUF_NUM, DataSectors(Loaded), disk')
<1>1. disk' = [t \in Sectors |-> disk'[t]] /\ Loaded \subseteq Cluster
  BY ChainFacts DEF FatIInv, Caches
<1>2. FatMoved /\ FAT' = FAT /\ FATOnDisk' = FATOnDisk
  BY <1>1, FatUntouched DEF FatIInv
<1>3. file'.data_buf = file.data_buf =>
         CacheOK(file'.data_buf, LOCAL_DATA_BUF_NUM, DataSectors(Loaded), disk')
  BY <1>1, DataUntouched DEF FatIInv
<1> QED BY <1>1, <1>2, <1>3 DEF FatIInv, ChainsOK

\* A step of fs_fflush, or before it.
LEMMA ClosingStep ==
    ASSUME FatIInv, Closing, call.at # "free", call'.at # "free", call'.at # "clear",
           call'.op = call.op, call'.f = call.f,
           file' = FileRec(file.entry, file.slot, file.loc, file'.data_buf), file = NoFile => file' = file,
           FatMoved, FAT' = FAT, DirMoved, Root' = Root,
           CacheOK(file'.data_buf, LOCAL_DATA_BUF_NUM, DataSectors(Loaded), disk')
    PROVE  /\ Caches' /\ Tables' /\ Names' /\ FileOK' /\ ChainsOK' /\ AtRest' /\ Synced'
           /\ \A i \in DirSlot : Chain(i)' = Chain(i)
           /\ Owned' = Owned /\ file'.slot = file.slot /\ file'.entry = file.entry
<1>1. file'.slot = file.slot /\ file'.entry = file.entry /\ file'.loc = file.loc
  BY DEF FileRec
<1>2. \A i \in DirSlot : ~Freeing(i) /\ ~Freeing(i)'
  BY DEF Freeing, Stage
<1>3. \A i \in DirSlot : Dir(i)' = Dir(i) /\ First(i)' = First(i)
  BY <1>1, <1>2 DEF First, Dir
<1>4. Owned' = Owned /\ \A i \in DirSlot : Chain(i)' = Chain(i)
  BY <1>3, ChainsSame DEF FatIInv
<1>5. Loaded' = Loaded
  <2>1. call.at # "clear"
    BY DEF Closing
  <2> QED BY <1>1, <1>4, <2>1 DEF Loaded, Stage
<1>6. Caches' /\ Tables'
  BY <1>5, StoredOK DEF FileCache
<1>7. FileOK'
  <2>1. CASE file = NoFile
    BY <2>1 DEF FileOK
  <2>2. CASE file # NoFile
    BY <1>1, <2>2, FileFacts DEF FileOK, FileRec, FatIInv
  <2> QED BY <2>1, <2>2
<1>8. Names' /\ ChainsOK' /\ Synced'
  <2>1. \A i \in DirSlot : ~Freeing(i)' => Len(Chain(i)) * CS >= Dir(i)'.size
    BY <1>2, <1>3 DEF ChainsOK, FatIInv
  <2>2. \A f \in File : InUse(f) => InUse(f)'
    BY <1>1 DEF InUse
  <2>3. /\ \A i \in DirSlot : RootOnDisk'[i] \in {RootOnDisk[i], Root[i]}
        /\ \A c \in Cluster : FATOnDisk'[c] \in {FATOnDisk[c], FAT[c]}
        /\ FAT'[2] # 0
    BY DEF FatMoved, DirMoved, FatIInv, ChainsOK
  <2> QED BY <1>3, <2>1, <2>2, <2>3, SameView DEF FatIInv
<1>9. AtRest'
  BY DEF AtRest, NoCall, Closing
<1> QED BY <1>1, <1>4, <1>6, <1>7, <1>8, <1>9

\* A call in its last steps is Closing.
LEMMA ClosingFacts ==
    ASSUME FatIInv, call.at \in {"free", "info", "flush"}
    PROVE  /\ Closing /\ call.at # "clear" /\ call = Ending(call.op, call.f, call.at, call.slot, call.clus)
           /\ file = FileRec(file.entry, file.slot, file.loc, file.data_buf) /\ call # NoCall
  BY WhichCall, FileFacts DEF FatIInv, Closing

\* The hint goes to the disk.
LEMMA WriteFSInfoKeeps ==
    ASSUME FatIInv, WriteFSInfo
    PROVE  FatIInv' /\ FAT' = FAT /\ \A i \in DirSlot : Chain(i)' = Chain(i)
<1>1. /\ call.at = "info" /\ disk' = [disk EXCEPT ![FSInfo] = Nxt_Free]
      /\ call' = [call EXCEPT !.at = "flush"]
      /\ UNCHANGED <<Nxt_Free, fat_buf, dir_data_buf, file>>
  BY DEF WriteFSInfo, Stage
<1>2. /\ Closing /\ call = Ending(call.op, call.f, call.at, call.slot, call.clus)
      /\ file = FileRec(file.entry, file.slot, file.loc, file.data_buf)
  BY <1>1, ClosingFacts
<1>3. call' = Ending(call.op, call.f, "flush", call.slot, call.clus)
  BY <1>1, <1>2 DEF Ending
<1>4. /\ call'.op = call.op /\ call'.f = call.f /\ call'.at = "flush" /\ call'.slot = call.slot
      /\ call'.clus = call.clus
  BY <1>3 DEF Ending
<1>5. /\ disk' = [t \in Sectors |-> disk'[t]] /\ disk'[FSInfo] = Nxt_Free
      /\ \A t \in Sectors \ {FSInfo} : disk'[t] = disk[t]
  <2>1. disk = [t \in Sectors |-> disk[t]] /\ FSInfo \in Sectors
    BY DEF FatIInv, Caches, Sectors
  <2> HIDE DEF Sectors
  <2> QED BY <1>1, <2>1
<1>6. /\ disk'[RootSector] = disk[RootSector] /\ \A t \in FatSectors : disk'[t] = disk[t]
      /\ \A c \in Loaded : disk'[DataSector(c)] = disk[DataSector(c)]
      /\ Loaded \subseteq Cluster
  <2>1. RootSector = DataSector(2) /\ 2 \in Cluster
    BY SectorsApart DEF RootSector
  <2>2. Loaded \subseteq Cluster
    BY ChainFacts DEF FatIInv
  <2> QED BY <1>5, <2>1, <2>2, SectorsApart, SectorSets DEF FatIInv
<1>7. FatMoved /\ FAT' = FAT
  BY <1>1, <1>5, <1>6, FatUntouched DEF FatIInv
<1>8. DirMoved /\ Root' = Root
  BY <1>1, <1>6, DirUntouched DEF FatIInv
<1>9. CacheOK(file'.data_buf, LOCAL_DATA_BUF_NUM, DataSectors(Loaded), disk')
  BY <1>1, <1>6, DataUntouched DEF FatIInv
<1>10. /\ Caches' /\ Tables' /\ Names' /\ FileOK' /\ ChainsOK' /\ AtRest' /\ Synced'
       /\ \A i \in DirSlot : Chain(i)' = Chain(i)
       /\ Owned' = Owned
  BY <1>1, <1>2, <1>4, <1>7, <1>8, <1>9, ClosingStep
<1>11. Hint'
  BY <1>1, <1>10 DEF Hint, FatIInv
<1>12. Closing'
  BY <1>1, <1>2, <1>3, <1>4, <1>5, <1>8 DEF Closing, Stage, Running
<1> QED BY <1>7, <1>10, <1>11, <1>12 DEF FatIInv, CallOK

\* A dirty buffer of the FAT goes to the disk.
LEMMA FlushFatKeeps ==
    ASSUME FatIInv, FlushFat
    PROVE  FatIInv' /\ FAT' = FAT /\ \A i \in DirSlot : Chain(i)' = Chain(i)
<1>1. call.at = "flush" /\ UNCHANGED <<Nxt_Free, dir_data_buf, file, call>>
  BY DEF FlushFat, Stage
<1>2. Closing /\ file = FileRec(file.entry, file.slot, file.loc, file.data_buf)
  BY <1>1, ClosingFacts
<1>3. FatMoved /\ FAT' = FAT /\ Except(FatSectors)
  BY FatWritten DEF FatIInv
<1>4. /\ DirMoved /\ Root' = Root /\ disk'[FSInfo] = disk[FSInfo]
      /\ CacheOK(file'.data_buf, LOCAL_DATA_BUF_NUM, DataSectors(Loaded), disk')
  BY <1>1, <1>3, FatOnly
<1>5. /\ Caches' /\ Tables' /\ Names' /\ FileOK' /\ ChainsOK' /\ AtRest' /\ Synced'
      /\ \A i \in DirSlot : Chain(i)' = Chain(i)
      /\ Owned' = Owned
  BY <1>1, <1>2, <1>3, <1>4, ClosingStep
<1>6. Hint' /\ Closing'
  BY <1>1, <1>2, <1>4, <1>5 DEF Hint, Closing, FatIInv, Stage, Running
<1> QED BY <1>3, <1>5, <1>6 DEF FatIInv, CallOK

\* A dirty buffer of the directory goes to the disk.
LEMMA FlushDirKeeps ==
    ASSUME FatIInv, FlushDir
    PROVE  FatIInv' /\ FAT' = FAT /\ \A i \in DirSlot : Chain(i)' = Chain(i)
<1>1. call.at = "flush" /\ UNCHANGED <<Nxt_Free, fat_buf, file, call>>
  BY DEF FlushDir, Stage
<1>2. Closing /\ file = FileRec(file.entry, file.slot, file.loc, file.data_buf)
  BY <1>1, ClosingFacts
<1>3. /\ DirMoved /\ Root' = Root /\ Except({RootSector})
      /\ disk' = [s \in Sectors |-> disk'[s]]
  BY DirWritten DEF FatIInv
<1>4. /\ disk'[FSInfo] = disk[FSInfo] /\ \A t \in FatSectors : disk'[t] = disk[t]
      /\ \A c \in Loaded : disk'[DataSector(c)] = disk[DataSector(c)]
      /\ Loaded \subseteq Cluster
  <2>1. RootSector = DataSector(2) /\ 2 \in Cluster /\ FSInfo \in Sectors
    BY SectorsApart DEF RootSector, Sectors
  <2>2. Loaded \subseteq Cluster /\ 2 \notin Loaded
    BY ChainFacts DEF FatIInv
  <2> QED BY <1>3, <2>1, <2>2, SectorsApart, SectorSets DEF FatIInv, Except
<1>5. FatMoved /\ FAT' = FAT
  BY <1>1, <1>3, <1>4, FatUntouched DEF FatIInv
<1>6. CacheOK(file'.data_buf, LOCAL_DATA_BUF_NUM, DataSectors(Loaded), disk')
  BY <1>1, <1>4, DataUntouched DEF FatIInv
<1>7. /\ Caches' /\ Tables' /\ Names' /\ FileOK' /\ ChainsOK' /\ AtRest' /\ Synced'
      /\ \A i \in DirSlot : Chain(i)' = Chain(i)
      /\ Owned' = Owned
  BY <1>1, <1>2, <1>3, <1>5, <1>6, ClosingStep
<1>8. Hint' /\ Closing'
  BY <1>1, <1>2, <1>3, <1>4, <1>7 DEF Hint, Closing, FatIInv, Stage, Running
<1> QED BY <1>5, <1>7, <1>8 DEF FatIInv, CallOK

\* A dirty buffer of the file being closed goes to the disk.
LEMMA FlushDataKeeps ==
    ASSUME FatIInv, FlushData
    PROVE  FatIInv' /\ FAT' = FAT /\ \A i \in DirSlot : Chain(i)' = Chain(i)
<1> DEFINE b == Flushed(file.data_buf, NextDirty(file.data_buf))
<1>1. /\ call.at = "flush" /\ UNCHANGED <<Nxt_Free, fat_buf, dir_data_buf, call>>
      /\ file' = [file EXCEPT !.data_buf = b] /\ call.op = "close"
  BY DEF FlushData, Stage, Running
<1>2. Closing /\ file = FileRec(file.entry, file.slot, file.loc, file.data_buf)
  BY <1>1, ClosingFacts
<1>3. file # NoFile
  BY <1>1, <1>2, FileFacts DEF Closing, FatIInv, Running
<1> HIDE DEF b
<1>4. /\ file' = FileRec(file.entry, file.slot, file.loc, file'.data_buf)
      /\ file'.data_buf = b /\ file'.slot = file.slot /\ file'.entry = file.entry
  BY <1>1, <1>2 DEF FileRec
<1>5. DataMoved
  <2>1. Loaded \subseteq Cluster
    BY ChainFacts DEF FatIInv
  <2> QED BY <1>4, <2>1, DataWritten DEF FatIInv, b
<1>6. /\ FatMoved /\ FAT' = FAT /\ DirMoved /\ Root' = Root /\ disk'[FSInfo] = disk[FSInfo]
      /\ CacheOK(file'.data_buf, LOCAL_DATA_BUF_NUM, DataSectors(Loaded), disk')
  BY <1>1, <1>5, DataOnly DEF DataMoved
<1>7. /\ Caches' /\ Tables' /\ Names' /\ FileOK' /\ ChainsOK' /\ AtRest' /\ Synced'
      /\ \A i \in DirSlot : Chain(i)' = Chain(i)
      /\ Owned' = Owned
  BY <1>1, <1>2, <1>3, <1>4, <1>6, ClosingStep
<1>8. Hint' /\ Closing'
  BY <1>1, <1>2, <1>4, <1>6, <1>7 DEF Hint, Closing, FatIInv, Stage, Running
<1> QED BY <1>6, <1>7, <1>8 DEF FatIInv, CallOK

\* When no buffer is dirty, users see what is on the disk.
LEMMA NothingToWrite ==
    ASSUME FatIInv, Dirty(fat_buf) = {}, Dirty(dir_data_buf) = {}
    PROVE  FATOnDisk = FAT /\ RootOnDisk = Root
<1>1. \A s \in FatSectors : Seen(fat_buf, s, disk) = disk[s]
  BY SectorSets, NothingDirty, FatAssumption DEF FatIInv, Caches
<1>2. Root = RootOnDisk
  BY SectorSets, NothingDirty, FatAssumption DEF FatIInv, Caches, Root, RootOnDisk
<1>3. \A c \in Cluster : Entry(c) = disk[FatSector(c)][c % PerSector]
  BY <1>1, SectorsApart DEF Entry
<1> QED BY <1>2, <1>3 DEF FAT, FATOnDisk

\* The FAT, the directory and the first clusters stay as they are.
LEMMA ChainsStay ==
    ASSUME Names, ChainsOK, Root' = Root, FAT' = FAT,
           \A i \in DirSlot : First(i)' = First(i),
           \A i \in DirSlot : ~Freeing(i)' => ~Freeing(i) /\ Dir(i)'.size = Dir(i).size
    PROVE  /\ Names' /\ ChainsOK' /\ Owned' = Owned /\ \A i \in DirSlot : Chain(i)' = Chain(i)
<1>1. /\ \A i \in DirSlot : IsChain(FAT', Chain(i), First(i)') /\ Chain(i)' = Chain(i)
      /\ Owned' = Owned
  BY ChainsSame
<1>2. Names'
  BY DEF Names
<1>3. ChainsOK'
  BY <1>1 DEF ChainsOK
<1> QED BY <1>1, <1>2, <1>3

\* When the call ends, the disk is what users see.
LEMMA EndFlushKeeps ==
    ASSUME FatIInv, EndFlush
    PROVE  FatIInv' /\ FAT' = FAT /\ \A i \in DirSlot : Chain(i)' = Chain(i)
<1>1. /\ call.at = "flush" /\ Dirty(fat_buf) = {} /\ Dirty(dir_data_buf) = {}
      /\ file' = IF call.op = "close" THEN NoFile ELSE file
      /\ call' = NoCall
      /\ UNCHANGED <<disk, Nxt_Free, fat_buf, dir_data_buf>>
  BY DEF EndFlush, Stage, Running
<1>2. Closing /\ file = FileRec(file.entry, file.slot, file.loc, file.data_buf)
  BY <1>1, ClosingFacts
<1>3. FATOnDisk = FAT /\ RootOnDisk = Root
  BY <1>1, NothingToWrite
<1>4. /\ FatMoved /\ FAT' = FAT /\ FATOnDisk' = FATOnDisk
      /\ disk' = [t \in Sectors |-> disk'[t]] /\ Loaded \subseteq Cluster
  BY <1>1, DiskSame
<1>5. DirMoved /\ Root' = Root /\ RootOnDisk' = RootOnDisk
  BY <1>1, DirUntouched DEF FatIInv
<1>6. \A i \in DirSlot : ~Freeing(i) /\ ~Freeing(i)'
  BY <1>1 DEF Freeing, Stage, NoCall
<1>7. /\ \A i \in DirSlot : Dir(i)' = Dir(i) /\ First(i)' = First(i)
      /\ FileOK'
  <2>1. CASE call.op = "close"
    <3>1. file' = NoFile /\ file'.slot = 0 /\ Root[file.slot] = file.entry
      BY <1>1, <1>2, <2>1 DEF NoFile, Closing, Running
    <3>2. \A i \in DirSlot : Dir(i)' = Dir(i)
      BY <1>5, <3>1, FileFacts DEF Dir, FatIInv
    <3> QED BY <1>6, <3>1, <3>2 DEF First, FileOK
  <2>2. CASE call.op # "close"
    <3>1. file' = file
      BY <1>1, <2>2
    <3>2. \A i \in DirSlot : Dir(i)' = Dir(i)
      BY <1>5, <3>1 DEF Dir
    <3> QED BY <1>5, <1>6, <3>1, <3>2 DEF First, FileOK, FatIInv
  <2> QED BY <2>1, <2>2
<1>8. Names' /\ ChainsOK' /\ Owned' = Owned /\ \A i \in DirSlot : Chain(i)' = Chain(i)
  BY <1>4, <1>5, <1>6, <1>7, ChainsStay DEF FatIInv
<1>9. FileCache'
  <2>1. CASE call.op = "close"
    BY <1>1, <2>1, EmptyOK, FatAssumption DEF FileCache, NoFile
  <2>2. CASE call.op # "close"
    <3>1. file' = file /\ Loaded' = Loaded
      BY <1>1, <1>8, <2>2 DEF Loaded, Stage, NoCall
    <3> QED BY <1>1, <1>4, <3>1, DataUntouched DEF FileCache, FatIInv
  <2> QED BY <2>1, <2>2
<1>10. Caches' /\ Tables'
  BY <1>4, <1>5, <1>9, StoredOK
<1>11. AtRest'
  BY <1>1, <1>2 DEF AtRest, Closing, Stage
<1>12. Hint' /\ CallOK'
  BY <1>1, <1>8 DEF Hint, CallOK, FatIInv
<1>13. Synced'
  <2>1. Root' = RootOnDisk' /\ FATOnDisk' = FAT'
    BY <1>3, <1>4, <1>5
  <2> QED BY <2>1 DEF Synced
<1> QED BY <1>4, <1>7, <1>8, <1>10, <1>11, <1>12, <1>13 DEF FatIInv

\* An entry is set to e, whose chain is the one it had.
LEMMA RootSet ==
    ASSUME FatIInv, NEW p \in DirSlot, NEW e \in Entries, SetRoot(p, e),
           UNCHANGED <<disk, Nxt_Free, fat_buf, file>>,
           call.at # "clear", call'.at # "clear", call' # NoCall,
           \A i \in DirSlot : ~Freeing(i)' /\ (Freeing(i) => i = p), p = file.slot => e = file.entry,
           e.name \in File => /\ \A i \in DirSlot \ {p} : Root[i].name # e.name
                              /\ \A j \in 1 .. p - 1 : Root[j].name # None,
           e.name \notin File => e.start = 0, e.name # None,
           IsChain(FAT, Chain(p), e.start), Len(Chain(p)) * CS >= e.size,
           \A f \in File : InUse(f) => InUse(f)',
           \A n \in File \cap {e.name, Root[p].name} : InUse(n)'
    PROVE  /\ Caches' /\ Tables' /\ Names' /\ FileOK' /\ ChainsOK' /\ Hint' /\ AtRest' /\ Synced'
           /\ FAT' = FAT /\ \A i \in DirSlot : Chain(i)' = Chain(i)
           /\ Root' = [Root EXCEPT ![p] = e] /\ Root'[p] = e
<1>1. DirMoved /\ Root' = [Root EXCEPT ![p] = e] /\ RootOnDisk' = RootOnDisk
  BY DirModified DEF FatIInv
<1>2. /\ Root'[p] = e /\ \A i \in DirSlot \ {p} : Root'[i] = Root[i]
      /\ Root' = [i \in DirSlot |-> Root'[i]]
  <2>1. Root \in RootTable
    BY DEF FatIInv, Tables
  <2> QED BY <1>1, <2>1 DEF RootTable
<1>3. /\ FatMoved /\ FAT' = FAT /\ FATOnDisk' = FATOnDisk /\ FAT'[2] # 0
      /\ CacheOK(file'.data_buf, LOCAL_DATA_BUF_NUM, DataSectors(Loaded), disk')
  BY DiskSame
<1>4. Dir(p)' = e /\ \A i \in DirSlot \ {p} : Dir(i)' = Dir(i)
  BY <1>2 DEF Dir
<1>5. First(p)' = e.start /\ \A i \in DirSlot \ {p} : First(i)' = First(i)
  BY <1>4 DEF First
<1>6. /\ ChainsOK' /\ Chain(p)' = Chain(p) /\ \A i \in DirSlot \ {p} : Chain(i)' = Chain(i)
      /\ Owned' \subseteq Owned \cup Range(Chain(p))
  <2>1. ChainsOK /\ 2 \notin Range(Chain(p))
    BY DEF FatIInv, ChainsOK
  <2>2. IsChain(FAT', Chain(p), First(p)') /\ (~Freeing(p)' => Len(Chain(p)) * CS >= Dir(p)'.size)
    BY <1>3, <1>4, <1>5
  <2>3. \A i \in DirSlot \ {p} : ~Freeing(i)' => ~Freeing(i) /\ Dir(i)'.size = Dir(i).size
    BY <1>4
  <2>4. \A i \in DirSlot \ {p} : \A c \in Range(Chain(i)) : FAT'[c] = FAT[c]
    BY <1>3
  <2>5. \A c \in Range(Chain(p)) : c \in Owned => c \in Range(Chain(p))
    OBVIOUS
  <2> QED BY <1>3, <1>5, <2>1, <2>2, <2>3, <2>4, <2>5, ChainReplaced
<1>7. \A i \in DirSlot : Chain(i)' = Chain(i)
  BY <1>6
<1>8. Owned' = Owned
  BY <1>7 DEF Owned
<1>9. Loaded' = Loaded
  BY <1>7 DEF Loaded, Stage
<1>10. Caches' /\ Tables'
  BY <1>1, <1>3, <1>9, StoredOK DEF FileCache
<1>11. Names'
  <2>1. \A i \in DirSlot : Root'[i].name \notin File => Root'[i].start = 0
    BY <1>2 DEF Names, FatIInv
  <2>2. \A i, j \in DirSlot : Root'[i].name \in File /\ Root'[i].name = Root'[j].name => i = j
    BY <1>2 DEF Names, FatIInv
  <2>3. ASSUME NEW i \in DirSlot, Root'[i].name \in File, NEW j \in 1 .. i  PROVE Root'[j].name # None
    <3>1. j \in DirSlot /\ (j # p /\ i = p => j \in 1 .. p - 1)
      BY FatAssumption DEF DirSlot
    <3>2. CASE j = p
      BY <1>2, <3>2
    <3>3. CASE j # p /\ i = p
      BY <1>2, <2>3, <3>1, <3>3
    <3>4. CASE j # p /\ i # p
      BY <1>2, <2>3, <3>1, <3>4 DEF Names, FatIInv
    <3> QED BY <3>2, <3>3, <3>4
  <2> QED BY <2>1, <2>2, <2>3 DEF Names
<1>12. FileOK'
  BY <1>2 DEF FileOK, FatIInv
<1>13. Hint' /\ AtRest'
  BY <1>8 DEF Hint, AtRest, FatIInv
<1>14. Synced'
  <2>1. ASSUME NEW i \in DirSlot
        PROVE  \/ Root'[i] = RootOnDisk'[i]
               \/ \A n \in File \cap {Root'[i].name, RootOnDisk'[i].name} : InUse(n)'
    <3>1. CASE i = p
      BY <1>1, <1>2, <3>1 DEF Synced, FatIInv
    <3>2. CASE i # p
      BY <1>1, <1>2, <3>2 DEF Synced, FatIInv
    <3> QED BY <3>1, <3>2
  <2>2. ASSUME NEW i \in DirSlot, Root'[i].name \in File, ~InUse(Root[i].name)', i # p,
               NEW c \in Range(Chain(i)')
        PROVE  FATOnDisk'[c] = FAT'[c]
    <3>1. Root[i].name \in File /\ ~InUse(Root[i].name)
      BY <1>2, <2>2 DEF InUse
    <3> QED BY <1>3, <1>7, <2>2, <3>1 DEF Synced, FatIInv
  <2>3. ASSUME NEW i \in DirSlot, Root'[i].name \in File, ~(Root'[i].name \in {file'.entry.name, call'.f}),
               NEW c \in Range(Chain(i)')
        PROVE  FATOnDisk'[c] = FAT'[c]
    <3>1. CASE i = p
      BY <1>2, <2>3, <3>1 DEF InUse
    <3>2. CASE i # p
      <4>1. Root'[i].name = Root[i].name
        BY <1>2, <3>2
      <4>2. ~InUse(Root[i].name)'
        BY <1>2, <2>3, <3>2, <4>1 DEF InUse
      <4> QED BY <2>2, <2>3, <3>2, <4>2
    <3> QED BY <3>1, <3>2
  <2> QED BY <2>1, <2>3 DEF Synced, InUse
<1> QED BY <1>2, <1>1, <1>3, <1>6, <1>7, <1>10, <1>11, <1>12, <1>13, <1>14

\* A call that looks at the directory, and may open a file.
LEMMA RootRead ==
    ASSUME FatIInv, call = NoCall, ReadRoot, UNCHANGED <<disk, Nxt_Free, fat_buf>>,
           call'.at # "clear", FileOK', file' = NoFile => file = NoFile,
           file' = file \/ file'.data_buf = Empty(LOCAL_DATA_BUF_NUM),
           \A i \in DirSlot : First(i)' = First(i) /\ Dir(i)'.size = Dir(i).size,
           \A f \in File : InUse(f) => InUse(f)'
    PROVE  /\ Caches' /\ Tables' /\ Names' /\ ChainsOK' /\ Hint' /\ AtRest' /\ Synced'
           /\ FAT' = FAT /\ Root' = Root /\ \A i \in DirSlot : Chain(i)' = Chain(i)
<1>1. DirMoved /\ Root' = Root /\ RootOnDisk' = RootOnDisk
  BY DirRead DEF FatIInv
<1>2. /\ FatMoved /\ FAT' = FAT /\ FATOnDisk' = FATOnDisk /\ FAT'[2] # 0
      /\ disk' = [t \in Sectors |-> disk'[t]] /\ Loaded \subseteq Cluster
  BY DiskSame
<1>3. \A i \in DirSlot : ~Freeing(i)
  BY DEF Freeing, Running, NoCall
<1>4. Names' /\ ChainsOK' /\ Owned' = Owned /\ \A i \in DirSlot : Chain(i)' = Chain(i)
  BY <1>1, <1>2, <1>3, ChainsStay DEF FatIInv
<1>5. FileCache'
  <2>1. CASE file' = file
    <3>1. Loaded' = Loaded
      BY <1>4, <2>1 DEF Loaded, Stage, NoCall
    <3> QED BY <1>2, <2>1, <3>1, DataUntouched DEF FileCache, FatIInv
  <2>2. CASE file'.data_buf = Empty(LOCAL_DATA_BUF_NUM)
    BY <2>2, EmptyOK, FatAssumption DEF FileCache
  <2> QED BY <2>1, <2>2
<1>6. Caches' /\ Tables'
  BY <1>1, <1>2, <1>5, StoredOK
<1>7. AtRest'
  <2>1. ASSUME file' = NoFile
        PROVE  Dirty(fat_buf') = {} /\ Dirty(dir_data_buf') = {} /\ disk'[FSInfo] = Nxt_Free'
    <3>1. Dirty(fat_buf) = {} /\ Dirty(dir_data_buf) = {} /\ disk[FSInfo] = Nxt_Free
      BY <2>1 DEF AtRest, FatIInv
    <3>2. Dirty(Fetched(dir_data_buf, RootSector, disk)) = {}
      BY <3>1, NothingDirty, SectorSets, FatAssumption DEF FatIInv, Caches
    <3> QED BY <3>1, <3>2 DEF ReadRoot
  <2> QED BY <2>1 DEF AtRest
<1>8. Hint'
  BY <1>4 DEF Hint, FatIInv
<1>9. Synced'
  <2>1. ASSUME NEW i \in DirSlot
        PROVE  \/ Root'[i] = RootOnDisk'[i]
               \/ \A n \in File \cap {Root'[i].name, RootOnDisk'[i].name} : InUse(n)'
    BY <1>1 DEF Synced, FatIInv
  <2>2. ASSUME NEW i \in DirSlot, Root'[i].name \in File, ~InUse(Root[i].name)',
               NEW c \in Range(Chain(i)')
        PROVE  FATOnDisk'[c] = FAT'[c]
    <3>1. Root[i].name \in File /\ ~InUse(Root[i].name)
      BY <1>1, <2>2 DEF InUse
    <3> QED BY <1>2, <1>4, <2>2, <3>1 DEF Synced, FatIInv
  <2> QED BY <2>1, <2>2 DEF Synced
<1> QED BY <1>1, <1>2, <1>4, <1>6, <1>7, <1>8, <1>9

\* What fs_find and fs_find_empty_entry return.
LEMMA FindFacts ==
    ASSUME Tables, Names
    PROVE  /\ \A f \in File : fs_find(f) = { i \in DirSlot : Root[i].name = f }
           /\ \A f \in File : fs_find(f) # {} => Min(fs_find(f)) \in fs_find(f)
           /\ \A f \in File : \A i \in DirSlot : Root[i].name = f => Min(fs_find(f)) = i
<1>1. DOMAIN Root = DirSlot
  BY DEF Tables, RootTable
<1>2. ASSUME NEW f \in File  PROVE fs_find(f) = { i \in DirSlot : Root[i].name = f }
  BY <1>1 DEF fs_find, Names
<1>3. ASSUME NEW f \in File, fs_find(f) # {}  PROVE Min(fs_find(f)) \in fs_find(f)
  <2>1. fs_find(f) \in SUBSET Nat
    BY <1>2, FatAssumption DEF DirSlot
  <2> QED BY <1>3, <2>1, MinIsLeast
<1>4. ASSUME NEW f \in File, NEW i \in DirSlot, Root[i].name = f  PROVE Min(fs_find(f)) = i
  <2>1. Min(fs_find(f)) \in DirSlot /\ Root[Min(fs_find(f))].name = f
    BY <1>2, <1>3, <1>4
  <2> QED BY <1>4, <2>1 DEF Names
<1> QED BY <1>2, <1>3, <1>4

\* There are more entries than names, and so one that no file has.
LEMMA EmptyEntryExists ==
    ASSUME Tables, Names
    PROVE  /\ fs_find_empty_entry \in DirSlot
           /\ Root[fs_find_empty_entry].name \in {None, Deleted}
           /\ \A j \in 1 .. fs_find_empty_entry - 1 : Root[j].name \notin {None, Deleted}
<1> DEFINE E == { i \in DOMAIN Root : Root[i].name \in {None, Deleted} }
<1>1. DOMAIN Root = DirSlot /\ DirSlot \in SUBSET Nat
  BY FatAssumption DEF Tables, RootTable, DirSlot
<1>2. E # {}
  <2>1. SUFFICES ASSUME E = {}  PROVE FALSE
    OBVIOUS
  <2>2. \A i \in DirSlot : Root[i].name \in File
    BY <1>1, <2>1 DEF Tables, RootTable, Entries
  <2> DEFINE g == [i \in DirSlot |-> Root[i].name]
  <2>3. g \in Injection(DirSlot, File)
    <3>1. g \in [DirSlot -> File]
      BY <2>2
    <3>2. \A i, j \in DirSlot : g[i] = g[j] => i = j
      BY <2>2 DEF Names
    <3> QED BY <3>1, <3>2 DEF Injection, IsInjective
  <2>4. IsFiniteSet(DirSlot) /\ Cardinality(DirSlot) = SlotCount
    BY CardinalityTo, FS_Interval, FatAssumption DEF DirSlot
  <2>5. Cardinality(DirSlot) <= Cardinality(File)
    BY <2>3, <2>4, FS_Injection, FatAssumption
  <2>6. Cardinality(File) \in Nat
    BY FS_CardinalityType, FatAssumption
  <2> QED BY <2>4, <2>5, <2>6, FatAssumption
<1>3. E \in SUBSET Nat
  BY <1>1
<1>4. Min(E) \in E /\ \A x \in E : Min(E) <= x
  BY <1>2, <1>3, MinIsLeast
<1>5. fs_find_empty_entry = Min(E)
  BY DEF fs_find_empty_entry
<1> HIDE DEF E
<1>6. Min(E) \in DirSlot /\ Root[Min(E)].name \in {None, Deleted}
  BY <1>1, <1>4 DEF E
<1>7. ASSUME NEW j \in 1 .. Min(E) - 1  PROVE Root[j].name \notin {None, Deleted}
  <2>1. j \in DirSlot /\ j < Min(E) /\ j \in Nat
    BY <1>6, FatAssumption DEF DirSlot
  <2>2. j \notin E
    BY <1>4, <1>6, <2>1, FatAssumption DEF DirSlot
  <2> QED BY <1>1, <2>1, <2>2 DEF E
<1> QED BY <1>5, <1>6, <1>7

\* Opening a file gives it the entry of its name.
LEMMA OpenKeeps ==
    ASSUME FatIInv, NEW f \in File, fs_open(f)
    PROVE  FatIInv' /\ FAT' = FAT /\ \A i \in DirSlot : Chain(i)' = Chain(i)
<1>1. /\ call = NoCall /\ file = NoFile /\ ReadRoot
      /\ file' = IF fs_find(f) = {} THEN NoFile ELSE Opened(f)
      /\ UNCHANGED <<disk, Nxt_Free, fat_buf, call>>
  BY DEF fs_open
<1>2. Root' = Root
  BY <1>1, DirRead DEF FatIInv
<1>3. \A i \in DirSlot : ~Freeing(i) /\ ~Freeing(i)'
  BY <1>1 DEF Freeing, Running, NoCall
<1>4. /\ FileOK' /\ (file' = NoFile => file = NoFile)
      /\ file' = file \/ file'.data_buf = Empty(LOCAL_DATA_BUF_NUM)
      /\ \A i \in DirSlot : Dir(i)' = Dir(i)
      /\ \A n \in File : ~InUse(n)
  <2>1. \A i \in DirSlot : Dir(i) = Root[i]
    BY <1>1, FileFacts DEF Dir, FatIInv
  <2>2. \A n \in File : ~InUse(n)
    BY <1>1, FatAssumption DEF InUse, NoCall, NoFile, EmptyEntry
  <2>3. CASE file' = NoFile
    <3>1. \A i \in DirSlot : Dir(i)' = Dir(i)
      BY <1>1, <1>2, <2>3 DEF Dir
    <3> QED BY <1>1, <2>2, <2>3, <3>1 DEF FileOK
  <2>4. CASE fs_find(f) # {}
    <3> DEFINE i == Min(fs_find(f))
    <3>1. i \in DirSlot /\ Root[i].name = f
      BY <2>4, FindFacts DEF FatIInv
    <3> HIDE DEF i
    <3>2. file' = FileRec(Root[i], i, 0, Empty(LOCAL_DATA_BUF_NUM))
      BY <1>1, <2>4 DEF Opened, FileRec, i
    <3>3. /\ file'.entry = Root[i] /\ file'.slot = i /\ file'.loc = 0
          /\ file'.data_buf = Empty(LOCAL_DATA_BUF_NUM)
      BY <3>2 DEF FileRec
    <3>4. Root[i] \in [name : File, start : {0} \cup Cluster, size : Nat]
      <4>1. Root[i] \in Entries
        BY <3>1 DEF FatIInv, Tables, RootTable
      <4> QED BY <3>1, <4>1 DEF Entries
    <3>5. 0 \in 0 .. Root[i].size
      BY <3>4
    <3>6. FileOK'
      BY <1>2, <3>1, <3>2, <3>3, <3>4, <3>5 DEF FileOK, FileRec
    <3>7. \A j \in DirSlot : Dir(j)' = Dir(j)
      BY <1>2, <2>1, <3>3 DEF Dir
    <3> QED BY <1>1, <2>2, <3>3, <3>6, <3>7
  <2> QED BY <1>1, <2>3, <2>4
<1>5. \A i \in DirSlot : First(i)' = First(i) /\ Dir(i)'.size = Dir(i).size
  BY <1>3, <1>4 DEF First
<1>6. call'.at # "clear"
  BY <1>1 DEF NoCall
<1>7. /\ Caches' /\ Tables' /\ Names' /\ ChainsOK' /\ Hint' /\ AtRest' /\ Synced'
      /\ FAT' = FAT /\ \A i \in DirSlot : Chain(i)' = Chain(i)
  BY <1>1, <1>4, <1>5, <1>6, RootRead
<1> QED BY <1>1, <1>4, <1>7 DEF FatIInv, CallOK

\* Closing sets the entry of the file, which nobody sees on the disk yet.
LEMMA CloseKeeps ==
    ASSUME FatIInv, fs_close
    PROVE  FatIInv' /\ FAT' = FAT /\ \A i \in DirSlot : Chain(i)' = Chain(i)
<1>1. /\ call = NoCall /\ file # NoFile /\ SetRoot(file.slot, file.entry)
      /\ call' = Ending("close", file.entry.name, "info", file.slot, 0)
      /\ UNCHANGED <<disk, Nxt_Free, fat_buf, file>>
  BY DEF fs_close
<1>2. /\ file.slot \in DirSlot /\ Root[file.slot].name = file.entry.name /\ file.entry.name \in File
      /\ file.entry \in [name : File, start : {0} \cup Cluster, size : Nat]
  BY <1>1, FileFacts DEF FatIInv
<1>3. PICK p \in DirSlot : p = file.slot
  BY <1>2
<1>4. PICK e \in Entries : e = file.entry
  BY <1>2 DEF Entries
<1>5. SetRoot(p, e)
  BY <1>1, <1>3, <1>4
<1>6. /\ call'.op = "close" /\ call'.f = e.name /\ call'.at = "info" /\ call'.slot = p /\ call'.clus = 0
      /\ call' = Ending(call'.op, call'.f, call'.at, call'.slot, call'.clus)
      /\ call.op = "none" /\ call.at = "none" /\ call.f = None
  BY <1>1, <1>3, <1>4 DEF Ending, NoCall
<1>7. call' # NoCall
  BY <1>6 DEF NoCall
<1>8. \A i \in DirSlot : ~Freeing(i) /\ ~Freeing(i)'
  BY <1>6 DEF Freeing, Running
<1>9. /\ e.name \in File /\ Root[p].name = e.name /\ e.name # None
      /\ \A i \in DirSlot \ {p} : Root[i].name # e.name
      /\ \A j \in 1 .. p - 1 : Root[j].name # None
  <2>1. e.name \in File /\ Root[p].name = e.name /\ e.name # None
    BY <1>2, <1>3, <1>4, FatAssumption
  <2>2. \A i \in DirSlot \ {p} : Root[i].name # e.name
    BY <2>1 DEF Names, FatIInv
  <2>3. \A j \in 1 .. p - 1 : j \in 1 .. p
    BY DEF DirSlot
  <2> QED BY <2>1, <2>2, <2>3 DEF Names, FatIInv
<1>10. IsChain(FAT, Chain(p), e.start) /\ Len(Chain(p)) * CS >= e.size
  <2>1. Dir(p) = e /\ First(p) = e.start
    BY <1>3, <1>4, <1>8 DEF Dir, First
  <2> QED BY <1>8, <2>1 DEF ChainsOK, FatIInv
<1>11. \A n \in File : InUse(n) => InUse(n)'
  BY <1>1, <1>6, FatAssumption DEF InUse
<1>12. \A n \in File \cap {e.name, Root[p].name} : InUse(n)'
  BY <1>6, <1>9 DEF InUse
<1>13. /\ Caches' /\ Tables' /\ Names' /\ FileOK' /\ ChainsOK' /\ Hint' /\ AtRest' /\ Synced'
       /\ FAT' = FAT /\ \A i \in DirSlot : Chain(i)' = Chain(i)
       /\ Root'[p] = e
  BY <1>1, <1>4, <1>5, <1>6, <1>7, <1>8, <1>9, <1>10, <1>11, <1>12, RootSet
<1>14. Closing'
  BY <1>1, <1>3, <1>4, <1>6, <1>9, <1>13 DEF Closing, Stage, Running
<1> QED BY <1>13, <1>14 DEF FatIInv, CallOK

\* Creating sets an entry that no file had.
LEMMA CreateKeeps ==
    ASSUME FatIInv, NEW f \in File, fs_create(f)
    PROVE  FatIInv' /\ FAT' = FAT /\ \A i \in DirSlot : Chain(i)' = Chain(i)
<1>1. call = NoCall /\ UNCHANGED <<disk, Nxt_Free, fat_buf, file>>
  BY DEF fs_create
<1>2. \A i \in DirSlot : ~Freeing(i)
  BY <1>1 DEF Freeing, Running, NoCall
<1>3. CASE fs_find(f) # {}
  <2>1. ReadRoot /\ UNCHANGED call
    BY <1>3 DEF fs_create
  <2>2. Root' = Root
    BY <1>1, <2>1, DirRead DEF FatIInv
  <2>3. /\ FileOK' /\ call'.at # "clear"
        /\ \A i \in DirSlot : First(i)' = First(i) /\ Dir(i)'.size = Dir(i).size
        /\ \A n \in File : InUse(n) => InUse(n)'
    BY <1>1, <2>1, <2>2 DEF FileOK, FatIInv, NoCall, First, Dir, Freeing, Running, Stage, InUse
  <2>4. /\ Caches' /\ Tables' /\ Names' /\ ChainsOK' /\ Hint' /\ AtRest' /\ Synced'
        /\ FAT' = FAT /\ \A i \in DirSlot : Chain(i)' = Chain(i)
    BY <1>1, <2>1, <2>3, RootRead
  <2> QED BY <1>1, <2>1, <2>3, <2>4 DEF FatIInv, CallOK
<1>4. CASE fs_find(f) = {}
  <2>1. PICK p \in DirSlot : p = fs_find_empty_entry
    BY EmptyEntryExists DEF FatIInv
  <2>2. PICK e \in Entries : e = [name |-> f, start |-> 0, size |-> 0]
    BY DEF Entries
  <2>3. SetRoot(p, e) /\ call' = Ending("create", f, "info", 0, 0)
    BY <1>4, <2>1, <2>2 DEF fs_create
  <2>4. /\ call'.op = "create" /\ call'.f = f /\ call'.at = "info" /\ call'.clus = 0
        /\ call' = Ending(call'.op, call'.f, call'.at, call'.slot, call'.clus)
        /\ call.at = "none" /\ call.f = None /\ e.name = f /\ e.start = 0 /\ e.size = 0
    BY <1>1, <2>2, <2>3 DEF Ending, NoCall
  <2>5. call' # NoCall
    BY <2>4 DEF NoCall
  <2>6. \A i \in DirSlot : ~Freeing(i)'
    BY <2>4 DEF Freeing, Running
  <2>7. /\ Root[p].name \in {None, Deleted} /\ Root[p].name \notin File /\ f # None
        /\ \A j \in 1 .. p - 1 : Root[j].name # None
        /\ \A i \in DirSlot : Root[i].name # f
    BY <1>4, <2>1, EmptyEntryExists, FindFacts, FatAssumption DEF FatIInv
  <2>8. p # file.slot
    BY <2>7, FileFacts DEF FatIInv
  <2>9. IsChain(FAT, Chain(p), e.start) /\ Len(Chain(p)) * CS >= e.size
    <3>1. First(p) = 0
      BY <1>2, <2>7, <2>8 DEF First, Dir, Names, FatIInv
    <3>2. IsChain(FAT, Chain(p), 0)
      BY <3>1 DEF ChainsOK, FatIInv
    <3>3. Len(Chain(p)) \in Nat
      BY <3>2, ChainNext
    <3> QED BY <2>4, <3>2, <3>3, FatAssumption
  <2>10. /\ \A n \in File : InUse(n) => InUse(n)'
         /\ \A n \in File \cap {e.name, Root[p].name} : InUse(n)'
    BY <1>1, <2>4, <2>7, FatAssumption DEF InUse
  <2>11. /\ Caches' /\ Tables' /\ Names' /\ FileOK' /\ ChainsOK' /\ Hint' /\ AtRest' /\ Synced'
         /\ FAT' = FAT /\ \A i \in DirSlot : Chain(i)' = Chain(i)
    BY <1>1, <1>2, <2>3, <2>4, <2>5, <2>6, <2>7, <2>8, <2>9, <2>10, RootSet
  <2>12. Closing'
    BY <2>4 DEF Closing, Stage, Running
  <2> QED BY <2>11, <2>12 DEF FatIInv, CallOK
<1> QED BY <1>3, <1>4

\* Removing starts at the head of the chain.
LEMMA RemoveBegins ==
    ASSUME FatIInv, NEW f \in File, fs_rm(f)
    PROVE  FatIInv' /\ FAT' = FAT /\ \A i \in DirSlot : Chain(i)' = Chain(i)
<1>1. /\ call = NoCall /\ (file # NoFile => file.entry.name # f) /\ ReadRoot
      /\ call' = IF fs_find(f) = {} THEN NoCall
                 ELSE Ending("rm", f, "free", Opened(f).slot, Opened(f).entry.start)
      /\ UNCHANGED <<disk, Nxt_Free, fat_buf, file>>
  BY DEF fs_rm
<1>2. Root' = Root
  BY <1>1, DirRead DEF FatIInv
<1>3. \A i \in DirSlot : ~Freeing(i) /\ Dir(i)' = Dir(i)
  BY <1>1, <1>2 DEF Freeing, Running, NoCall, Dir
<1>4. FileOK'
  BY <1>1, <1>2 DEF FileOK, FatIInv
<1>5. CallOK' /\ call'.at # "clear" /\ \A i \in DirSlot : First(i)' = First(i)
  <2>1. CASE call' = NoCall
    <3>1. \A i \in DirSlot : ~Freeing(i)'
      BY <2>1 DEF Freeing, Running, NoCall
    <3> QED BY <1>3, <2>1, <3>1 DEF CallOK, NoCall, First
  <2>2. CASE fs_find(f) # {}
    <3>1. PICK p \in DirSlot : p = Min(fs_find(f)) /\ Root[p].name = f
      BY <2>2, FindFacts DEF FatIInv
    <3>2. Opened(f).slot = p /\ Opened(f).entry.start = Root[p].start
      BY <3>1 DEF Opened
    <3>3. /\ call' = Ending("rm", f, "free", p, Root[p].start)
          /\ call'.op = "rm" /\ call'.f = f /\ call'.at = "free" /\ call'.slot = p /\ call'.clus = Root[p].start
          /\ call' = Ending(call'.op, call'.f, call'.at, call'.slot, call'.clus)
      BY <1>1, <2>2, <3>2 DEF Ending
    <3>4. p # file.slot
      BY <1>1, <3>1, FileFacts DEF FatIInv
    <3>5. \A i \in DirSlot : First(i)' = First(i)
      BY <1>3, <3>3, <3>4 DEF First, Freeing, Dir
    <3>6. Closing'
      BY <1>1, <1>2, <3>1, <3>3, <3>4 DEF Closing, Stage, Running
    <3> QED BY <3>3, <3>5, <3>6 DEF CallOK
  <2> QED BY <1>1, <2>1, <2>2
<1>6. \A n \in File : InUse(n) => InUse(n)'
  BY <1>1, FatAssumption DEF InUse, NoCall
<1>7. \A i \in DirSlot : First(i)' = First(i) /\ Dir(i)'.size = Dir(i).size
  BY <1>3, <1>5
<1>8. /\ Caches' /\ Tables' /\ Names' /\ ChainsOK' /\ Hint' /\ AtRest' /\ Synced'
      /\ FAT' = FAT /\ \A i \in DirSlot : Chain(i)' = Chain(i)
  BY <1>1, <1>4, <1>5, <1>6, <1>7, RootRead
<1> QED BY <1>4, <1>5, <1>8 DEF FatIInv

\* What fs_rm knows while it frees clusters.
LEMMA FreeFacts ==
    ASSUME FatIInv, call.at = "free"
    PROVE  /\ call.op = "rm" /\ call.slot \in DirSlot /\ call.slot # file.slot /\ Root[call.slot].name = call.f
           /\ Closing /\ call.f \in File /\ call # NoCall
           /\ call = Ending("rm", call.f, "free", call.slot, call.clus)
           /\ \A i \in DirSlot : Freeing(i) <=> i = call.slot
  BY WhichCall DEF FatIInv, Closing, Stage, Running, Freeing

\* Freeing a cluster takes the head off the chain.
LEMMA FreeKeeps ==
    ASSUME FatIInv, FreeChain, call.clus \in Cluster
    PROVE  /\ FatIInv' /\ FAT' = [FAT EXCEPT ![call.clus] = 0]
           /\ \A i \in DirSlot : i # call.slot => Chain(i)' = Chain(i)
           /\ call'.slot = call.slot /\ call'.at = "free" /\ call'.op = "rm" /\ call'.f = call.f
           /\ Range(Chain(call.slot)') = Range(Chain(call.slot)) \ {call.clus}
<1>1. /\ call.at = "free" /\ fs_modify_fat(call.clus, 0)
      /\ call' = [call EXCEPT !.clus = Entry(call.clus)]
      /\ UNCHANGED <<dir_data_buf, Nxt_Free, file>>
  BY DEF FreeChain, Stage
<1>2. PICK p \in DirSlot : p = call.slot
  BY <1>1, FreeFacts
<1> DEFINE s == Chain(p)
           c == call.clus
<1>3. /\ call.op = "rm" /\ p # file.slot /\ Root[p].name = call.f /\ call.f \in File /\ Closing
      /\ call = Ending("rm", call.f, "free", p, c)
      /\ \A i \in DirSlot : Freeing(i) <=> i = p
  BY <1>1, <1>2, FreeFacts
<1>4. c \in Cluster /\ Entry(c) = FAT[c]
  BY EntryIs DEF FatIInv
<1>5. call' = Ending("rm", call.f, "free", p, FAT[c])
  BY <1>1, <1>3, <1>4 DEF Ending
<1>6. /\ call'.op = "rm" /\ call'.f = call.f /\ call'.at = "free" /\ call'.slot = p /\ call'.clus = FAT[c]
  BY <1>5 DEF Ending
<1>7. \A i \in DirSlot : Freeing(i)' <=> i = p
  BY <1>6 DEF Freeing, Running, Stage
<1>8. FatMoved /\ FAT' = [FAT EXCEPT ![c] = 0] /\ Except(FatSectors)
  BY <1>1, <1>4, FatModified DEF FatIInv
<1>9. /\ FAT'[c] = 0 /\ \A k \in Cluster : k # c => FAT'[k] = FAT[k]
  BY <1>4, <1>8, EntryIs DEF FatIInv
<1>10. IsChain(FAT, s, c) /\ First(p) = c
  <2>1. First(p) = c
    BY <1>3 DEF First
  <2> QED BY <2>1 DEF ChainsOK, FatIInv
<1>11. /\ s # <<>> /\ c \in Range(s) /\ Range(s) \subseteq Cluster /\ Range(s) \subseteq Owned /\ c \in Owned
       /\ c # 2
  BY <1>4, <1>10, ChainNext, ChainFacts DEF FatIInv
<1>12. IsChain(FAT', Tail(s), FAT[c]) /\ Range(Tail(s)) = Range(s) \ {c}
  <2>1. \A x \in Range(s) \ {c} : FAT'[x] = FAT[x]
    BY <1>9, <1>11
  <2> QED BY <1>4, <1>10, <2>1, ChainDrop
<1>13. /\ DirMoved /\ Root' = Root /\ RootOnDisk' = RootOnDisk
       /\ CacheOK(file'.data_buf, LOCAL_DATA_BUF_NUM, DataSectors(Loaded), disk')
       /\ disk'[FSInfo] = disk[FSInfo]
  BY <1>1, <1>8, FatOnly
<1>14. \A i \in DirSlot : Dir(i)' = Dir(i)
  BY <1>1, <1>13 DEF Dir
<1>15. First(p)' = FAT[c] /\ \A i \in DirSlot \ {p} : First(i)' = First(i)
  BY <1>3, <1>6, <1>7, <1>14 DEF First
<1>16. \A i \in DirSlot \ {p} : \A x \in Range(Chain(i)) : FAT'[x] = FAT[x]
  <2>1. \A i \in DirSlot \ {p} : c \notin Range(Chain(i)) /\ Range(Chain(i)) \subseteq Cluster
    BY <1>11, ChainFacts DEF ChainsOK, FatIInv
  <2> QED BY <1>9, <2>1
<1> HIDE DEF c, s
<1>17. FAT'[2] # 0 /\ 2 \notin Range(Tail(s))
  <2>1. FAT[2] # 0 /\ 2 \in Cluster /\ 2 \notin Range(s)
    BY SectorsApart DEF ChainsOK, FatIInv, s
  <2> QED BY <1>9, <1>11, <1>12, <2>1
<1>18. /\ ChainsOK' /\ Chain(p)' = Tail(s) /\ \A i \in DirSlot \ {p} : Chain(i)' = Chain(i)
       /\ Owned' \subseteq Owned \cup Range(Tail(s))
  <2>1. ChainsOK /\ IsChain(FAT', Tail(s), First(p)')
    BY <1>12, <1>15 DEF FatIInv
  <2>2. \A x \in Range(Tail(s)) : x \in Owned => x \in Range(Chain(p))
    BY <1>12 DEF s
  <2>3. \A i \in DirSlot \ {p} : ~Freeing(i)' => ~Freeing(i) /\ Dir(i)'.size = Dir(i).size
    BY <1>3, <1>14
  <2>4. ~Freeing(p)' => Len(Tail(s)) * CS >= Dir(p)'.size
    BY <1>7
  <2> QED BY <1>15, <1>16, <1>17, <2>1, <2>2, <2>3, <2>4, ChainReplaced
<1>19. Owned' \subseteq Owned
  BY <1>11, <1>12, <1>18
<1>20. Loaded' = Loaded
  BY <1>1, <1>3, <1>6, <1>18 DEF Loaded, Stage, FatIInv, Ending, Closing
<1>21. Caches' /\ Tables'
  BY <1>8, <1>13, <1>20, StoredOK DEF FileCache
<1>22. Names' /\ FileOK'
  BY <1>1, <1>13 DEF Names, FileOK, FatIInv
<1>23. Hint' /\ AtRest'
  BY <1>1, <1>6, <1>19 DEF Hint, AtRest, FatIInv, NoCall
<1>24. CallOK'
  BY <1>1, <1>2, <1>3, <1>5, <1>6, <1>13 DEF CallOK, Closing, Stage, Running
<1>25. Synced'
  <2>1. InUse(Root[p].name)'
    BY <1>3, <1>6, <1>13 DEF InUse
  <2>2. \A n \in File : InUse(n) => InUse(n)'
    BY <1>1, <1>6 DEF InUse
  <2>3. /\ \A i \in DirSlot : RootOnDisk'[i] \in {RootOnDisk[i], Root[i]}
        /\ \A k \in Cluster : FATOnDisk'[k] \in {FATOnDisk[k], FAT[k]}
    BY <1>8, <1>13 DEF FatMoved
  <2>4. Synced /\ ChainsOK
    BY DEF FatIInv
  <2> QED BY <1>13, <1>16, <1>18, <2>1, <2>2, <2>3, <2>4, SyncedButOne
<1>26. Range(Chain(p)') = Range(s) \ {c}
  BY <1>12, <1>18
<1> QED BY <1>2, <1>6, <1>8, <1>18, <1>21, <1>22, <1>23, <1>24, <1>25, <1>26 DEF FatIInv, s, c

\* When no cluster is left, the entry is given up.
LEMMA DeleteKeeps ==
    ASSUME FatIInv, FreeChain, call.clus \notin Cluster
    PROVE  /\ FatIInv' /\ FAT' = FAT /\ \A i \in DirSlot : Chain(i)' = Chain(i)
           /\ Range(Chain(call.slot)) = {} /\ call'.op = "rm" /\ call'.f = call.f /\ call'.clus = 0
<1>1. /\ call.at = "free" /\ SetRoot(call.slot, DeletedEntry)
      /\ call' = [call EXCEPT !.at = "info", !.clus = 0]
      /\ UNCHANGED <<disk, fat_buf, Nxt_Free, file>>
  BY DEF FreeChain, Stage
<1>2. PICK p \in DirSlot : p = call.slot
  BY <1>1, FreeFacts
<1>3. PICK e \in Entries : e = DeletedEntry
  BY DEF Entries, DeletedEntry
<1>4. SetRoot(p, e) /\ e.name = Deleted /\ e.start = 0 /\ e.size = 0
  BY <1>1, <1>2, <1>3 DEF DeletedEntry
<1>5. /\ call.op = "rm" /\ p # file.slot /\ Root[p].name = call.f /\ call.f \in File
      /\ call = Ending("rm", call.f, "free", p, call.clus)
      /\ \A i \in DirSlot : Freeing(i) <=> i = p
  BY <1>1, <1>2, FreeFacts
<1>6. call' = Ending("rm", call.f, "info", p, 0)
  <2>1. PICK m : m = [call EXCEPT !.at = "info"]
    OBVIOUS
  <2>2. call' = [m EXCEPT !.clus = 0]
    BY <1>1, <2>1
  <2>3. m = Ending("rm", call.f, "info", p, call.clus)
    BY <1>5, <2>1 DEF Ending
  <2> QED BY <2>2, <2>3 DEF Ending
<1>7. /\ call'.op = "rm" /\ call'.f = call.f /\ call'.at = "info" /\ call'.slot = p /\ call'.clus = 0
  BY <1>6 DEF Ending
<1>8. \A i \in DirSlot : ~Freeing(i)'
  BY <1>7 DEF Freeing, Stage
<1>9. Chain(p) = <<>> /\ Range(Chain(p)) = {}
  <2>1. First(p) = call.clus
    BY <1>5 DEF First
  <2>2. IsChain(FAT, Chain(p), call.clus)
    BY <2>1 DEF ChainsOK, FatIInv
  <2> QED BY <2>2, ChainNext
<1>10. IsChain(FAT, Chain(p), e.start) /\ Len(Chain(p)) * CS >= e.size
  <2>1. 0 \in Nat \ Cluster
    BY SectorsApart
  <2>2. IsChain(FAT, <<>>, 0)
    BY <2>1, ChainEmpty
  <2>3. Len(<<>>) = 0 /\ 0 * CS = 0
    BY FatAssumption
  <2> QED BY <1>4, <1>9, <2>2, <2>3
<1>11. /\ \A n \in File : InUse(n) => InUse(n)'
       /\ \A n \in File \cap {e.name, Root[p].name} : InUse(n)'
       /\ e.name \notin File /\ e.name # None
  BY <1>1, <1>4, <1>5, <1>7, FatAssumption DEF InUse
<1>12. call' # NoCall /\ call.at # "clear" /\ call'.at # "clear"
  BY <1>1, <1>7 DEF NoCall
<1>13. /\ Caches' /\ Tables' /\ Names' /\ FileOK' /\ ChainsOK' /\ Hint' /\ AtRest' /\ Synced'
       /\ FAT' = FAT /\ \A i \in DirSlot : Chain(i)' = Chain(i)
       /\ Root' = [Root EXCEPT ![p] = e] /\ Root'[p] = e
  BY <1>1, <1>4, <1>5, <1>8, <1>10, <1>11, <1>12, RootSet
<1>14. \A i \in DirSlot : Root'[i].name # call.f
  <2>1. DOMAIN Root = DirSlot
    BY DEF FatIInv, Tables, RootTable
  <2>2. \A i \in DirSlot \ {p} : Root'[i] = Root[i] /\ Root[i].name # call.f
    BY <1>5, <1>13, <2>1 DEF FatIInv, Names
  <2>3. Root'[p].name # call.f
    BY <1>4, <1>5, <1>11, <1>13
  <2> QED BY <2>2, <2>3
<1>15. Closing'
  BY <1>5, <1>6, <1>7, <1>14 DEF Closing, Stage, Running
<1> QED BY <1>2, <1>7, <1>9, <1>13, <1>15 DEF FatIInv, CallOK

--------------------------------------------------------------------------------
(* Starting *)

\* Started anew between calls, the driver sees what it saw.
LEMMA InitKeeps ==
    ASSUME FatIInv, ~CrashAnywhere, init_fs
    PROVE  FatIInv' /\ FAT' = FAT /\ \A i \in DirSlot : Chain(i)' = Chain(i)
<1>1. /\ call = NoCall /\ file = NoFile /\ Nxt_Free' = disk[FSInfo]
      /\ fat_buf' = Empty(FAT_BUF_NUM) /\ dir_data_buf' = Empty(DIR_DATA_BUF_NUM)
      /\ file' = NoFile /\ call' = NoCall /\ disk' = disk
  BY DEF init_fs
<1>2. Dirty(fat_buf) = {} /\ Dirty(dir_data_buf) = {} /\ disk[FSInfo] = Nxt_Free
  BY <1>1 DEF FatIInv, AtRest
<1>3. FATOnDisk = FAT /\ RootOnDisk = Root /\ \A s \in FatSectors : Seen(fat_buf, s, disk) = disk[s]
  BY <1>2, NothingToWrite, SectorSets, NothingDirty, FatAssumption DEF FatIInv, Caches
<1>4. \A s \in FatSectors \cup {RootSector} : Seen(fat_buf', s, disk') = disk[s] /\ Seen(dir_data_buf', s, disk') = disk[s]
  <2>1. FatSectors \cup {RootSector} \subseteq Nat
    BY SectorsApart, SectorSets DEF FatIInv, RootSector
  <2> QED BY <1>1, <2>1, EmptyOK, FatAssumption DEF Seen
<1>5. RootOnDisk' = RootOnDisk /\ Root' = RootOnDisk'
  BY <1>1, <1>4 DEF Root, RootOnDisk
<1>6. FATOnDisk' = FATOnDisk /\ FAT' = FATOnDisk'
  <2>1. \A c \in Cluster : Seen(fat_buf', FatSector(c), disk') = disk[FatSector(c)]
    BY <1>4, SectorsApart
  <2> QED BY <1>1, <2>1 DEF FAT, FATOnDisk, Entry
<1>7. \A i \in DirSlot : ~Freeing(i) /\ ~Freeing(i)'
  BY <1>1 DEF Freeing, Running, NoCall
<1>8. \A i \in DirSlot : Dir(i)' = Dir(i) /\ First(i)' = First(i)
  BY <1>1, <1>3, <1>5, <1>7 DEF Dir, First
<1>9. Names' /\ ChainsOK' /\ Owned' = Owned /\ \A i \in DirSlot : Chain(i)' = Chain(i)
  BY <1>3, <1>5, <1>6, <1>7, <1>8, ChainsStay DEF FatIInv
<1>10. /\ CacheOK(fat_buf', FAT_BUF_NUM, FatSectors, disk') /\ Dirty(fat_buf') = {}
       /\ CacheOK(dir_data_buf', DIR_DATA_BUF_NUM, {RootSector}, disk') /\ Dirty(dir_data_buf') = {}
       /\ CacheOK(file'.data_buf, LOCAL_DATA_BUF_NUM, DataSectors(Loaded)', disk')
  BY <1>1, EmptyOK, FatAssumption DEF NoFile
<1>11. Caches'
  BY <1>1, <1>10 DEF Caches, FatIInv
<1>12. Tables'
  BY <1>1, <1>3, <1>4, <1>5 DEF Tables, FatIInv
<1>13. FileOK' /\ AtRest' /\ CallOK' /\ Hint'
  BY <1>1, <1>2, <1>9, <1>10 DEF FileOK, AtRest, CallOK, Hint, FatIInv
<1>14. Synced'
  BY <1>5, <1>6 DEF Synced
<1> QED BY <1>3, <1>6, <1>9, <1>11, <1>12, <1>13, <1>14 DEF FatIInv

\* A volume just formatted has no files and one chain, the directory.
LEMMA FatInitOK ==
    ASSUME FatInit
    PROVE  FatIInv
<1>1. /\ Nxt_Free = 2 /\ fat_buf = Empty(FAT_BUF_NUM) /\ dir_data_buf = Empty(DIR_DATA_BUF_NUM)
      /\ file = NoFile /\ call = NoCall
  BY DEF FatInit
<1> DEFINE T(s) == [i \in 0 .. PerSector - 1 |-> IF s = FatSector(2) /\ i = 2 % PerSector THEN EOC ELSE 0]
<1>2. /\ disk = [s \in Sectors |-> disk[s]] /\ disk[FSInfo] = 2
      /\ \A s \in FatSectors : disk[s] = T(s)
      /\ disk[RootSector] = [i \in DirSlot |-> EmptyEntry]
  <2>1. Sectors = {FSInfo} \cup FatSectors \cup { DataSector(c) : c \in Cluster }
    BY DEF Sectors, DataSectors
  <2>2. /\ FSInfo \in Sectors /\ FatSectors \subseteq Sectors /\ RootSector \in Sectors
        /\ FSInfo \notin FatSectors /\ RootSector \notin FatSectors /\ RootSector # FSInfo
    BY <2>1, SectorsApart DEF RootSector
  <2>3. disk = [s \in Sectors |->
                 CASE s = FSInfo -> 2
                   [] s \in FatSectors -> T(s)
                   [] s = RootSector -> [i \in DirSlot |-> EmptyEntry]
                   [] OTHER -> Zeros]
    BY <2>1 DEF FatInit, DirSlot
  <2> HIDE DEF T
  <2> QED BY <2>2, <2>3
<1>3. \A s \in Nat : Seen(fat_buf, s, disk) = disk[s] /\ Seen(dir_data_buf, s, disk) = disk[s]
  BY <1>1, EmptyOK, FatAssumption DEF Seen
<1>4. Root = [i \in DirSlot |-> EmptyEntry] /\ RootOnDisk = Root
  BY <1>2, <1>3, SectorsApart DEF Root, RootOnDisk, RootSector
<1>5. FAT = [c \in Cluster |-> IF c = 2 THEN EOC ELSE 0] /\ FATOnDisk = FAT
  <2>1. \A c \in Cluster : FatSector(c) \in FatSectors /\ FatSector(c) \in Nat
    BY SectorsApart
  <2>2. \A c \in Cluster : Entry(c) = disk[FatSector(c)][c % PerSector]
    BY <1>3, <2>1 DEF Entry
  <2>3. \A c \in Cluster : disk[FatSector(c)][c % PerSector] = IF c = 2 THEN EOC ELSE 0
    <3> HIDE DEF T
    <3>1. \A c \in Cluster : disk[FatSector(c)] = T(FatSector(c)) /\ c % PerSector \in 0 .. PerSector - 1
      BY <1>2, <2>1, SectorsApart
    <3>2. \A s : \A i \in 0 .. PerSector - 1 :
             T(s)[i] = IF s = FatSector(2) /\ i = 2 % PerSector THEN EOC ELSE 0
      BY DEF T
    <3>3. \A c \in Cluster : disk[FatSector(c)][c % PerSector] =
             IF FatSector(c) = FatSector(2) /\ c % PerSector = 2 % PerSector THEN EOC ELSE 0
      BY <3>1, <3>2
    <3> QED BY <3>3, SectorsApart
  <2> QED BY <2>2, <2>3 DEF FAT, FATOnDisk
<1>6. EmptyEntry \in Entries /\ EmptyEntry.name = None /\ EmptyEntry.start = 0 /\ EmptyEntry.size = 0
  BY DEF Entries, EmptyEntry
<1>7. \A i \in DirSlot : Dir(i) = EmptyEntry /\ ~Freeing(i) /\ First(i) = 0
  BY <1>1, <1>4, <1>6 DEF Dir, First, Freeing, Running, NoCall, NoFile
<1>8. \A i \in DirSlot : IsChain(FAT, Chain(i), First(i)) /\ Chain(i) = <<>> /\ Range(Chain(i)) = {}
  <2>1. IsChain(FAT, <<>>, 0) /\ Follow(FAT, 0) = <<>>
    BY ChainEmpty, SectorsApart
  <2>2. Range(<<>>) = {}
    BY DEF Range
  <2> QED BY <1>7, <2>1, <2>2 DEF Chain
<1>9. Owned = {}
  BY <1>8 DEF Owned
<1>10. Caches
  BY <1>1, <1>2, EmptyOK, FatAssumption DEF Caches, NoFile
<1>11. Tables
  <2>1. \A s \in FatSectors : disk[s] \in FatTable /\ s \in Nat
    <3>1. \A s : T(s) \in FatTable
      BY SectorsApart DEF FatTable
    <3> HIDE DEF T
    <3> QED BY <1>2, <3>1, SectorsApart
  <2> QED BY <1>3, <1>4, <1>6, <2>1 DEF Tables, RootTable
<1>12. Names
  BY <1>4, <1>6, FatAssumption DEF Names
<1>13. FileOK /\ CallOK
  BY <1>1 DEF FileOK, CallOK
<1>14. ChainsOK
  <2>1. FAT[2] # 0
    BY <1>5, SectorsApart
  <2>2. \A i \in DirSlot : Len(Chain(i)) * CS >= Dir(i).size
    <3>1. Len(<<>>) = 0 /\ 0 * CS = 0
      BY FatAssumption
    <3> QED BY <1>6, <1>7, <1>8, <3>1
  <2> QED BY <1>8, <2>1, <2>2 DEF ChainsOK
<1>15. Hint
  BY <1>1, <1>9, SectorsApart DEF Hint
<1>16. AtRest
  BY <1>1, <1>2, EmptyOK, FatAssumption DEF AtRest
<1>17. Synced
  BY <1>4, <1>5 DEF Synced
<1> QED BY <1>10, <1>11, <1>12, <1>13, <1>14, <1>15, <1>16, <1>17 DEF FatIInv

\* Every step keeps the invariant.
LEMMA FatStepKeeps ==
    ASSUME FatIInv, ErasesInPlace, ~CrashAnywhere, FatNext
    PROVE  FatIInv'
<1>1. CASE \E f \in File : fs_open(f) \/ fs_create(f) \/ fs_rm(f)
  BY <1>1, OpenKeeps, CreateKeeps, RemoveBegins
<1>2. CASE \E n \in 1 .. MaxCount : fs_read(n)
  BY <1>2, ReadBegins
<1>3. CASE \E data \in Data : fs_write(data)
  BY <1>3, WriteBegins
<1>4. CASE \E loc \in Seek : fs_lseek(loc)
  BY <1>4, SeekKeeps
<1>5. CASE fs_close
  BY <1>5, CloseKeeps
<1>6. CASE NextCluster
  BY <1>6, NextClusterKeeps
<1>7. CASE Search
  BY <1>7, SearchKeeps
<1>8. CASE Mark
  BY <1>8, MarkKeeps
<1>9. CASE Scan
  BY <1>9, ScanKeeps
<1>10. CASE Erase
  BY <1>10, EraseKeeps
<1>11. CASE Link
  BY <1>11, LinkKeeps
<1>12. CASE ClearCluster
  BY <1>12, ClearKeeps
<1>13. CASE MoveRead
  BY <1>13, MoveReadKeeps
<1>14. CASE MoveWrite
  BY <1>14, MoveWriteKeeps
<1>15. CASE EndMove
  BY <1>15, EndMoveKeeps
<1>16. CASE FreeChain
  <2>1. CASE call.clus \in Cluster
    BY <1>16, <2>1, FreeKeeps
  <2>2. CASE call.clus \notin Cluster
    BY <1>16, <2>2, DeleteKeeps
  <2> QED BY <2>1, <2>2
<1>17. CASE WriteFSInfo
  BY <1>17, WriteFSInfoKeeps
<1>18. CASE FlushFat
  BY <1>18, FlushFatKeeps
<1>19. CASE FlushDir
  BY <1>19, FlushDirKeeps
<1>20. CASE FlushData
  BY <1>20, FlushDataKeeps
<1>21. CASE EndFlush
  BY <1>21, EndFlushKeeps
<1>22. CASE init_fs
  BY <1>22, InitKeeps
<1> QED BY <1>1, <1>2, <1>3, <1>4, <1>5, <1>6, <1>7, <1>8, <1>9, <1>10, <1>11, <1>12, <1>13, <1>14,
           <1>15, <1>16, <1>17, <1>18, <1>19, <1>20, <1>21, <1>22 DEF FatNext

\* So does no step.
LEMMA FatStutterKeeps ==
    ASSUME FatIInv, UNCHANGED fatVars
    PROVE  FatIInv'
<1>1. UNCHANGED <<disk, Nxt_Free, fat_buf, dir_data_buf, file, call>>
  BY DEF fatVars
<1>2. /\ Root' = Root /\ RootOnDisk' = RootOnDisk
      /\ FAT' = FAT /\ FATOnDisk' = FATOnDisk
  BY <1>1 DEF Root, RootOnDisk, FAT, FATOnDisk, Entry
<1>3. /\ \A i \in DirSlot : Freeing(i)' <=> Freeing(i)
      /\ \A i \in DirSlot : Dir(i)' = Dir(i)
  BY <1>1, <1>2 DEF Freeing, Dir, Running, Stage
<1>4. \A i \in DirSlot : First(i)' = First(i)
  BY <1>1, <1>3 DEF First
<1>5. \A i \in DirSlot : Chain(i)' = Chain(i)
  BY <1>2, <1>4 DEF Chain
<1>6. Owned' = Owned
  BY <1>5 DEF Owned
<1>7. Loaded' = Loaded
  BY <1>1, <1>5 DEF Loaded, Stage
<1>8. Caches' /\ Tables'
  BY <1>1, <1>2, <1>7 DEF FatIInv, Caches, Tables
<1>9. Names' /\ FileOK' /\ Hint' /\ AtRest'
  BY <1>1, <1>2, <1>6 DEF FatIInv, Names, FileOK, Hint, AtRest
<1>10. ChainsOK'
  BY <1>2, <1>3, <1>4, <1>5 DEF FatIInv, ChainsOK
<1>11. CallOK'
  <2>1. CASE call = NoCall
    BY <1>1, <2>1 DEF CallOK
  <2>2. CASE Transfer
    <3>1. file.slot \in DirSlot
      BY <2>2 DEF Transfer
    <3>2. Chain(file.slot)' = Chain(file.slot) /\ EndClus' = EndClus
      BY <1>1, <1>5, <3>1 DEF EndClus
    <3>3. Transfer'
      BY <1>1, <1>2, <1>6, <2>2, <3>2 DEF Transfer, Running, Stage
    <3> QED BY <3>3 DEF CallOK
  <2>3. CASE Closing
    <3>1. Closing'
      BY <1>1, <1>2, <2>3 DEF Closing, Running, Stage
    <3> QED BY <3>1 DEF CallOK
  <2> QED BY <2>1, <2>2, <2>3 DEF CallOK, FatIInv
<1>12. Synced'
  <2>1. \A n : InUse(n)' <=> InUse(n)
    BY <1>1 DEF InUse
  <2> QED BY <1>1, <1>2, <1>5, <2>1 DEF Synced, FatIInv, InUse
<1> QED BY <1>8, <1>9, <1>10, <1>11, <1>12 DEF FatIInv

\* Wherever the partition starts, the FAT, the directory and the chains are whole in
\* the buffers and on the disk as long as each new cluster is erased where it is
\* (fat.c:533 erases it there on a partition at the start of the card only).
THEOREM FatIInvariant ==
    ASSUME ~CrashAnywhere
    PROVE  FatSpec /\ []ErasesInPlace => []FatIInv
<1>1. FatInit => FatIInv
  BY FatInitOK
<1>2. FatIInv /\ ErasesInPlace /\ [FatNext]_fatVars => FatIInv'
  BY FatStepKeeps, FatStutterKeeps
<1> QED BY <1>1, <1>2, PTL DEF FatSpec

--------------------------------------------------------------------------------
(* The theorems *)

\* A file that exists has one entry, and its clusters are the chain of that entry.
LEMMA ExistingFile ==
    ASSUME FatIInv, NEW f \in exists
    PROVE  \E i \in DirSlot : /\ Root[i].name = f /\ ~Freeing(i) /\ entry(f) = Dir(i)
                              /\ Follow(FAT, entry(f).start) = Chain(i) /\ Min(fs_find(f)) = i
<1>1. f \in File /\ fs_find(f) # {} /\ ~(Running("rm") /\ call.f = f)
  BY DEF exists
<1>2. PICK i \in DirSlot : Root[i].name = f /\ Min(fs_find(f)) = i
  BY <1>1, FindFacts DEF FatIInv
<1>3. ~Freeing(i)
  <2>1. CASE call.at = "free"
    BY <1>1, <1>2, <2>1, FreeFacts DEF Running
  <2>2. CASE call.at # "free"
    BY <2>2 DEF Freeing, Stage
  <2> QED BY <2>1, <2>2
<1>4. entry(f) = Dir(i)
  <2>1. CASE file = NoFile
    <3>1. file.entry.name # f /\ i # file.slot
      BY <1>1, <2>1, FileFacts, FatAssumption DEF FatIInv
    <3> QED BY <1>2, <3>1 DEF entry, Dir
  <2>2. CASE file # NoFile
    <3>1. file.slot \in DirSlot /\ Root[file.slot].name = file.entry.name /\ file.entry.name \in File
      BY <2>2, FileFacts DEF FatIInv
    <3>2. file.entry.name = f <=> i = file.slot
      BY <1>1, <1>2, <3>1 DEF Names, FatIInv
    <3> QED BY <1>2, <3>2 DEF entry, Dir
  <2> QED BY <2>1, <2>2
<1>5. Follow(FAT, entry(f).start) = Chain(i)
  BY <1>3, <1>4 DEF Chain, First
<1> QED BY <1>2, <1>3, <1>4, <1>5

\* The elements of a chain, by either name.
LEMMA ElementsIsRange ==
    ASSUME NEW s  PROVE Elements(s) = Range(s)
  BY DEF Elements, Range

\* The invariant implies what the runs check of the chains.
LEMMA FatInvHolds ==
    ASSUME FatIInv
    PROVE  FatInv
<1>1. FatTypeOK
  <2>1. Nxt_Free \in Cluster
    BY DEF FatIInv, Hint
  <2>2. \A c \in {fat_buf, dir_data_buf, file.data_buf} : OneBuffer(c) /\ CleanIsOnDisk(c, disk)
    BY DEF FatIInv, Caches, CacheOK
  <2>3. file # NoFile => /\ file.entry \in [name : File, start : {0} \cup Cluster, size : Nat]
                         /\ file.loc <= file.entry.size
    BY FileFacts DEF FatIInv
  <2>4. call = NoCall \/ call.f \in File
    <3>1. CASE Transfer
      BY <3>1, TransferFacts, FileFacts DEF Transfer, FatIInv
    <3>2. CASE Closing
      BY <3>2 DEF Closing
    <3> QED BY <3>1, <3>2 DEF FatIInv, CallOK
  <2> QED BY <2>1, <2>2, <2>3, <2>4 DEF FatTypeOK
<1>2. ChainsApart
  <2> DEFINE chain == [f \in exists |-> Follow(FAT, entry(f).start)]
  <2>1. SUFFICES ASSUME NEW f \in exists
                 PROVE  /\ \A i, j \in DOMAIN chain[f] : chain[f][i] = chain[f][j] => i = j
                        /\ chain[f] # <<>> => Entry(chain[f][Len(chain[f])]) > LastCluster
                        /\ Len(chain[f]) * CS >= entry(f).size
                        /\ 2 \notin Elements(chain[f])
                        /\ \A g \in exists \ {f} : Elements(chain[f]) \cap Elements(chain[g]) = {}
    BY DEF ChainsApart
  <2>2. PICK i \in DirSlot : /\ Root[i].name = f /\ ~Freeing(i) /\ entry(f) = Dir(i)
                             /\ Follow(FAT, entry(f).start) = Chain(i)
    BY ExistingFile
  <2>3. chain[f] = Chain(i)
    BY <2>2
  <2>4. /\ IsChain(FAT, Chain(i), First(i)) /\ 2 \notin Range(Chain(i))
        /\ Len(Chain(i)) * CS >= Dir(i).size
    BY <2>2 DEF FatIInv, ChainsOK
  <2>5. \A k, l \in DOMAIN Chain(i) : Chain(i)[k] = Chain(i)[l] => k = l
    BY <2>4 DEF IsChain, IsInjective
  <2>6. Chain(i) # <<>> => Entry(Chain(i)[Len(Chain(i))]) > LastCluster
    <3>1. SUFFICES ASSUME Chain(i) # <<>>  PROVE Entry(Chain(i)[Len(Chain(i))]) > LastCluster
      OBVIOUS
    <3>2. Chain(i)[Len(Chain(i))] \in Cluster /\ FAT[Chain(i)[Len(Chain(i))]] = EOC
      BY <2>4, <3>1, ChainNext
    <3> QED BY <3>2, EntryIs, SectorsApart DEF FatIInv
  <2>7. ASSUME NEW g \in exists \ {f}  PROVE Elements(chain[f]) \cap Elements(chain[g]) = {}
    <3>1. PICK j \in DirSlot : Root[j].name = g /\ Follow(FAT, entry(g).start) = Chain(j)
      BY <2>7, ExistingFile
    <3>2. chain[g] = Chain(j) /\ i # j
      BY <2>2, <2>7, <3>1
    <3>3. Range(Chain(i)) \cap Range(Chain(j)) = {}
      BY <3>2 DEF FatIInv, ChainsOK
    <3> QED BY <2>3, <3>2, <3>3, ElementsIsRange
  <2> HIDE DEF chain
  <2> QED BY <2>2, <2>3, <2>4, <2>5, <2>6, <2>7, ElementsIsRange
<1> QED BY <1>1, <1>2 DEF FatInv

\* The variables have their types, each sector is in one buffer, and the chains of the
\* files are whole and share no cluster.
THEOREM FatCorrect ==
    ASSUME ~CrashAnywhere
    PROVE  FatSpec /\ []ErasesInPlace => []FatInv
BY FatIInvariant, FatInvHolds, PTL

\* And what they check of the files not in use.
LEMMA BystandersHold ==
    ASSUME FatIInv
    PROVE  BystandersOnDisk
<1>1. SUFFICES ASSUME NEW f \in File, ~InUse(f)
               PROVE  /\ f \in exists <=> \E i \in DOMAIN disk[RootSector] : disk[RootSector][i].name = f
                      /\ f \in exists => ContentOnDisk(f) = content[f]
  BY DEF BystandersOnDisk
<1>2. DOMAIN RootOnDisk = DirSlot /\ DOMAIN Root = DirSlot
  BY DEF FatIInv, Tables, RootTable
<1>3. file.entry.name # f /\ call.f # f
  BY <1>1 DEF InUse
<1>4. \A i \in DirSlot : Root[i].name = f <=> RootOnDisk[i].name = f
  BY <1>1 DEF FatIInv, Synced
<1>5. \A i \in DirSlot : Root[i].name = f => Root[i] = RootOnDisk[i]
  BY <1>1 DEF FatIInv, Synced
<1>6. f \in exists <=> \E i \in DirSlot : Root[i].name = f
  BY <1>3, FindFacts DEF exists, FatIInv
<1>7. ASSUME f \in exists  PROVE ContentOnDisk(f) = content[f]
  <2>1. PICK i \in DirSlot : /\ Root[i].name = f /\ ~Freeing(i) /\ entry(f) = Dir(i)
                             /\ Follow(FAT, entry(f).start) = Chain(i) /\ Min(fs_find(f)) = i
    BY <1>7, ExistingFile
  <2>2. entry(f) = Root[i] /\ RootOnDisk[i] = Root[i]
    BY <1>3, <1>5, <2>1 DEF entry
  <2>3. (CHOOSE k \in DirSlot : RootOnDisk[k].name = f) = i
    <3>1. \A k \in DirSlot : RootOnDisk[k].name = f => k = i
      BY <1>4, <2>1 DEF Names, FatIInv
    <3> QED BY <2>1, <2>2, <3>1
  <2>4. ContentOnDisk(f) = Bytes(Follow(FATOnDisk, Root[i].start), Root[i].size, HeldOnDisk)
    BY <1>2, <2>2, <2>3 DEF ContentOnDisk, RootOnDisk
  <2>5. Follow(FATOnDisk, Root[i].start) = Follow(FAT, Root[i].start)
    <3>1. IsChain(FAT, Chain(i), Root[i].start)
      <4>1. First(i) = Root[i].start
        BY <2>1, <2>2 DEF First
      <4> QED BY <4>1 DEF FatIInv, ChainsOK
    <3>2. \A c \in Range(Chain(i)) : FATOnDisk[c] = FAT[c]
      BY <1>1, <2>1 DEF Synced, FatIInv
    <3>3. Follow(FATOnDisk, Root[i].start) = Chain(i)
      BY <3>1, <3>2, ChainFrame
    <3> QED BY <2>1, <2>2, <3>3
  <2>6. HeldOnDisk = HeldFor(f)
    BY <1>3 DEF HeldOnDisk, HeldFor
  <2>7. content[f] = Bytes(Follow(FAT, entry(f).start), entry(f).size, HeldFor(f))
    BY <1>7 DEF content
  <2> QED BY <2>2, <2>4, <2>5, <2>6, <2>7
<1> QED BY <1>2, <1>4, <1>6, <1>7 DEF RootOnDisk

\* The files that are not in use are on the disk as users see them, whatever is written
\* for the one in use.
THEOREM BystandersCorrect ==
    ASSUME ~CrashAnywhere
    PROVE  FatSpec /\ []ErasesInPlace => []BystandersOnDisk
BY FatIInvariant, BystandersHold, PTL
================================================================================

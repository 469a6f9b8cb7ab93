----------------------------- MODULE PageAllocator -----------------------------
(****************************************************************************)
(* What a page allocator promises: it lends aligned blocks of 2^order pages *)
(* that nobody else has, until they are given back whole.  Buddy implements *)
(* this specification.                                                      *)
(****************************************************************************)
EXTENDS Naturals

CONSTANTS MAX_BUDDY_ORDER, NPages, Caller

Block == { b \in (0 .. NPages - 1) \X (0 .. MAX_BUDDY_ORDER) :
             /\ b[1] % 2^b[2] = 0
             /\ b[1] + 2^b[2] <= NPages }
PagesOf(b) == b[1] .. b[1] + 2^b[2] - 1

VARIABLE owned   \* the blocks each caller has been lent and not given back

Lent == UNION { owned[c] : c \in Caller }
Unlent(b) == \A d \in Lent : PagesOf(b) \cap PagesOf(d) = {}

Init == owned = [c \in Caller |-> {}]

Alloc(c, b) ==
    /\ Unlent(b)
    /\ owned' = [owned EXCEPT ![c] = @ \cup {b}]

Free(c, b) ==
    /\ b \in owned[c]
    /\ owned' = [owned EXCEPT ![c] = @ \ {b}]

Next == \E c \in Caller, b \in Block : Alloc(c, b) \/ Free(c, b)

Spec == Init /\ [][Next]_owned
================================================================================

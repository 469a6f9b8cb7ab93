------------------------------- MODULE FileStore -------------------------------
(* What reading, writing and removing files promises to their users: a call   *)
(* moves its bytes in order, piece by piece; what it has moved when it ends   *)
(* is what it reports; a file that grows has its new length when the whole    *)
(* write is done.  There are no pages, blocks, caches or directories.         *)
EXTENDS Naturals, Sequences

CONSTANTS File, Byte, Data, MaxCount, None

VARIABLES
    exists,     \* the files there are
    content,    \* the bytes of each, <<>> once it is removed
    io          \* the call in progress, or None

vars == <<exists, content, io>>

Init ==
    /\ exists \in SUBSET File
    /\ content \in [File -> Seq(Byte)] /\ \A f \in File \ exists : content[f] = <<>>
    /\ io = None

BeginRead(f, pos, count) ==
    /\ io = None
    /\ io' = [op |-> "read", f |-> f, pos |-> pos, count |-> count, cur |-> 0, data |-> <<>>]
    /\ f \in exists /\ pos + count <= Len(content[f])
    /\ UNCHANGED <<exists, content>>

BeginWrite(f, pos, data) ==
    /\ io = None
    /\ io' = [op |-> "write", f |-> f, pos |-> pos, count |-> Len(data), cur |-> 0, data |-> data]
    /\ f \in exists
    /\ UNCHANGED <<exists, content>>

MoveRead(n) ==
    /\ io # None /\ io.op = "read"
    /\ LET from == io.pos + io.cur
       IN  io' = [io EXCEPT !.cur = @ + n,
                            !.data = @ \o SubSeq(content[io.f], from + 1, from + n)]
    /\ UNCHANGED <<exists, content>>

\* The bytes of c from pos + a to pos + b - 1 become those of data from a on.
Put(c, pos, data, a, b) ==
    [i \in DOMAIN c |-> IF i - 1 - pos \in a .. b - 1 THEN data[i - pos] ELSE c[i]]

MoveWrite(n) ==
    /\ io # None /\ io.op = "write"
    /\ io' = [io EXCEPT !.cur = @ + n]
    /\ content' = [content EXCEPT ![io.f] = Put(@, io.pos, io.data, io.cur, io.cur + n)]
    /\ UNCHANGED exists

\* Whatever has been moved, the call may end; a whole write may make f longer.
End ==
    /\ io # None
    /\ io' = None
    /\ \/ UNCHANGED content
       \/ /\ io.op = "write" /\ io.cur = io.count /\ io.pos + io.count > Len(content[io.f])
          /\ content' = [content EXCEPT ![io.f] = SubSeq(@, 1, io.pos) \o io.data]
    /\ UNCHANGED exists

Create(f) ==
    /\ io = None /\ f \notin exists
    /\ exists' = exists \cup {f}
    /\ UNCHANGED <<content, io>>

Remove(f) ==
    /\ io = None /\ f \in exists
    /\ exists' = exists \ {f}
    /\ content' = [content EXCEPT ![f] = <<>>]
    /\ UNCHANGED io

Next ==
    \/ \E f \in File : \/ \E pos, count \in 0 .. MaxCount : BeginRead(f, pos, count)
                       \/ \E pos \in 0 .. Len(content[f]), data \in Data : BeginWrite(f, pos, data)
                       \/ Create(f)
                       \/ Remove(f)
    \/ io # None /\ \E n \in 0 .. io.count - io.cur : MoveRead(n) \/ MoveWrite(n)
    \/ End

Spec == Init /\ [][Next]_vars
================================================================================

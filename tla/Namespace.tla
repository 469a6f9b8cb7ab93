------------------------------- MODULE Namespace -------------------------------
(* What looking up a path promises: a walk over one tree, name by name, from   *)
(* the root or the current directory, to the node that the path names or to    *)
(* the error.  There are no mounts, caches or reference counts.                *)
EXTENDS Sequences

CONSTANTS
    Dir,                \* the nodes that are directories
    Root,
    Child(_, _),        \* the node of a name in a directory, or None
    Parent(_),          \* the directory of a node; of the root, itself
    Calls,              \* the calls that are made: [op, absolute, names, dir]
    None

VARIABLES
    gone,       \* the files that were removed
    cwd,
    walk,       \* the call in progress: op and dir of the call, where it is, names left; or None
    answer      \* of the last call: a node, "ENOENT" or "ENOTDIR"

vars == <<gone, cwd, walk, answer>>

Init == gone = {} /\ cwd = Root /\ walk = None /\ answer = None

Node(d, n) == IF n = "." THEN d ELSE IF n = ".." THEN Parent(d)
              ELSE IF Child(d, n) \in gone THEN None ELSE Child(d, n)

\* The call ends at node n.
Found(op, n) ==
    /\ walk' = None /\ answer' = n
    /\ cwd' = IF op = "cd" THEN n ELSE cwd
    /\ gone' = IF op = "rm" THEN gone \cup {n} ELSE gone

Fail(error) == walk' = None /\ answer' = error /\ UNCHANGED <<gone, cwd>>

Start(c) ==
    LET from == IF c.absolute THEN Root ELSE cwd
    IN  /\ walk = None
        /\ IF c.names = <<>>
           THEN Found(c.op, from)
           ELSE /\ walk' = [op |-> c.op, dir |-> c.dir, at |-> from, rest |-> c.names]
                /\ UNCHANGED <<gone, cwd, answer>>

Go ==
    LET next == Node(walk.at, Head(walk.rest))
        last == Len(walk.rest) = 1
    IN  /\ walk # None
        /\ IF next = None THEN Fail("ENOENT")
           ELSE IF next \notin Dir /\ (~last \/ walk.dir) THEN Fail("ENOTDIR")
           ELSE IF last THEN Found(walk.op, next)
           ELSE /\ walk' = [walk EXCEPT !.at = next, !.rest = Tail(@)]
                /\ UNCHANGED <<gone, cwd, answer>>

Next == Go \/ \E c \in Calls : Start(c)

Spec == Init /\ [][Next]_vars
================================================================================

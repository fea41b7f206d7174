------------------------------- MODULE MCPipe -------------------------------
(* Instances of Pipe for TLC: three threads that share out the calls. *)
EXTENDS Pipe, TLC

CONSTANTS a, b, c

ThreeThreads == {a, b, c}

CallsOf ==
    (a :> {"enqueue", "wait_until_empty"}) @@
    (b :> {"enqueue", "dequeue"}) @@
    (c :> {"dequeue", "wait_for_num_blocked_dequeues"})
=============================================================================

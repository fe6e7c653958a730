------------------------------- MODULE MCRecording ----------------------------
(* A small instance of Recording.                                           *)
EXTENDS Recording

(* recv -s 2 -w 2 -b 2 -t 2 -o output                                       *)
MCArguments == <<[opt |-> "s", value |-> 2], [opt |-> "w", value |-> 2],
                 [opt |-> "b", value |-> 2], [opt |-> "t", value |-> 2],
                 [opt |-> "o", value |-> "output"]>>
MCHeaps == {0, 3}
BufferNumbers == 1 .. MaxBuffers
=============================================================================

------------------------------- MODULE MCReceiver -----------------------------
(* Small instances of Receiver.                                             *)
EXTENDS Receiver

FirstHeaps == 0 .. 2
BufferNumbers == 1 .. MaxBuffers
=============================================================================

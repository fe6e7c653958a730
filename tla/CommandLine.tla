------------------------------ MODULE CommandLine -----------------------------
(***************************************************************************)
(* The options of the visibility receiver (vis_receive/src/main.c).  Of    *)
(* several occurrences of an option the last one counts.  The options for  *)
(* the phase centre, the antennas and the timeout are left out: nothing of *)
(* what is modelled depends on them.                                       *)
(***************************************************************************)
EXTENDS Integers, Sequences

CONSTANTS
    Arguments,  \* the command line: a sequence of options with their values
    Cores       \* number of cores of the machine

Given(opt) == {n \in DOMAIN Arguments : Arguments[n].opt = opt}

Value(opt, default) ==
    IF Given(opt) = {} THEN default
    ELSE Arguments[CHOOSE n \in Given(opt) : \A m \in Given(opt) : m <= n].value

AtLeastOne(n) == IF n < 1 THEN 1 ELSE n

Count(opt, default) == AtLeastOne(Value(opt, default))

(* Two cores are left to others, whatever number was asked for.             *)
ReceiverThreads ==
    IF Count("r", 1) > Cores - 2 THEN Cores - 2 ELSE Count("r", 1)

(* As the code has it, "b" (--buffers) is the number of times in a buffer   *)
(* and "t" (--buffertimes) the number of buffers.                           *)
Settings == [
    num_streams           |-> Count("s", 1),
    num_threads_recv      |-> ReceiverThreads,
    num_threads_write     |-> Count("w", 1),
    num_times_in_buffer   |-> Count("b", 50),
    max_num_buffers       |-> Count("t", 4),
    num_channels_per_file |-> Count("c", 1)]

(* construct_output_root: without an output location nothing is written.    *)
Output == Value("o", "") # ""
=============================================================================

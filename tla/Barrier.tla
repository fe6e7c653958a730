-------------------------------- MODULE Barrier -------------------------------
(***************************************************************************)
(* What a barrier promises to a group of threads that meet in it again and *)
(* again: nobody is let go before everybody has come.                      *)
(***************************************************************************)
CONSTANT Threads

VARIABLE here  \* the threads that have come and have not been let go

Init == here = {}

Come(t) ==
    /\ t \notin here
    /\ here \union {t} # Threads
    /\ here' = here \union {t}

(* The last one to come lets all go, itself included.                       *)
LetGo(t) ==
    /\ t \notin here
    /\ here \union {t} = Threads
    /\ here' = {}

Next == \E t \in Threads : Come(t) \/ LetGo(t)

Spec == Init /\ [][Next]_here
=============================================================================

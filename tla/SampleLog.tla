------------------------------ MODULE SampleLog ------------------------------
(***************************************************************************)
(* What the measuring wrappers promise of one timed API: the bench and the *)
(* CSV file see exactly the samples of the last Capacity recorded calls,   *)
(* each once.  ReadMe.md:40-56 calls the capacity "the maximum number that *)
(* can be recorded in the whole test".                                     *)
(***************************************************************************)
EXTENDS Naturals, Sequences

CONSTANTS Capacity, \* capacity of the log, a MAX_xxx macro of inc/report.h
          Samples   \* the identities of recorded calls

VARIABLE window     \* the retained samples, the oldest first

Init == window = << >>

(* A call is recorded; a full log forgets its oldest sample. *)
Record(s) ==
    window' = IF Len(window) < Capacity THEN Append(window, s)
                                        ELSE Append(Tail(window), s)

Next == \E s \in Samples : Record(s)

Spec == Init /\ [][Next]_window
=============================================================================

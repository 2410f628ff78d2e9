---------------------------- MODULE SlidingWindow ----------------------------
(***************************************************************************)
(* What the ring buffer of a breaker stands for: the last Window outcomes, *)
(* in order, and a total of them that is off by at most one unit for each  *)
(* outcome rounded since the window was last emptied.  A call of the       *)
(* breaker records one outcome or none, a batch without errors two, and    *)
(* reset() forgets them.                                                   *)
(***************************************************************************)
EXTENDS Integers, Sequences

CONSTANTS Window, Scale

VARIABLES recent,
          off,      \* how far the total is from the sum of recent
          rounded   \* the outcomes that were rounded

window == <<recent, off, rounded>>

Newest(s) == IF Len(s) > Window THEN Tail(s) ELSE s

Near == off \in -rounded..rounded

WindowInit == recent = <<>> /\ rounded = 0 /\ Near

Observe ==
  /\ \E o \in 0..Scale : recent' = Newest(Append(recent, o))
  /\ rounded' \in {rounded, rounded + 1}

ObserveClean ==
  /\ recent' = Newest(Append(Newest(Append(recent, 0)), 0))
  /\ UNCHANGED rounded

Forget == recent' = <<>> /\ rounded' = 0

WindowSpec ==
  WindowInit /\ [][(Observe \/ ObserveClean \/ Forget) /\ Near']_window
=============================================================================

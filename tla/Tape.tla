-------------------------------- MODULE Tape --------------------------------
(***************************************************************************)
(* Research is done on a history that gets longer: one trading day after   *)
(* the other is appended to the tape, and whatever is computed from it is  *)
(* computed from all of it again.  A behaviour follows one subject, that   *)
(* is one kind of study with its parameters; when its history is over, it  *)
(* is given another one.                                                   *)
(***************************************************************************)
EXTENDS Integers, Sequences

CONSTANTS
  Subjects,       \* records with a kind, a number of days and the kind's parameters
  Days(_, _)      \* what a day may bring for a subject after a tape

VARIABLES subject, tape

vars == <<subject, tape>>

Kind(k) == subject.kind = k

Init == subject \in Subjects /\ tape = <<>>

NextDay ==
  /\ Len(tape) < subject.days
  /\ \E day \in Days(subject, tape) : tape' = Append(tape, day)
  /\ UNCHANGED subject

\* Adds no states: it gives every tape a next step, so that what an action
\* property says of the tape before a step is said of complete tapes, too.
StartOver ==
  /\ Len(tape) = subject.days
  /\ tape' = <<>>
  /\ UNCHANGED subject

Next == NextDay \/ StartOver

Spec == Init /\ [][Next]_vars

=============================================================================

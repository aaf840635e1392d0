--------------------------- MODULE SealedHoldout ---------------------------
(***************************************************************************)
(* What the research program promises about its holdout period: a look at  *)
(* its data is recorded before it happens, the first look is the honest    *)
(* one, and every later one is recorded as forced.                         *)
(***************************************************************************)
EXTENDS Naturals, Sequences

VARIABLES
  record,   \* the looks recorded, in order: TRUE for a forced one
  looks     \* how often the data has been handed out

vars == <<record, looks>>

Init == record = <<>> /\ looks = 0

RecordFirst ==
  /\ record = <<>>
  /\ record' = <<FALSE>>
  /\ UNCHANGED looks

RecordForced ==
  /\ record # <<>>
  /\ record' = Append(record, TRUE)
  /\ UNCHANGED looks

Look ==
  /\ looks < Len(record)
  /\ looks' = looks + 1
  /\ UNCHANGED record

Next == RecordFirst \/ RecordForced \/ Look

Spec == Init /\ [][Next]_vars
=============================================================================

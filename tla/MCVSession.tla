----------------------------- MODULE MCVSession -----------------------------
(***************************************************************************)
(* VSession for TLC: how often the user of each process acts in the runs.  *)
(***************************************************************************)
EXTENDS VSession, TLC

CONSTANTS t1, t2, s1

LiveInput == t1 :> 2
OneInput == t1 :> 1 @@ s1 :> 1
RetryInput == t1 :> 0
QuietInput == t1 :> 0 @@ t2 :> 0
=============================================================================

----------------------------- MODULE Partition -----------------------------
(***************************************************************************)
(* How the rows of one answer are split between threads.  Count metrics,   *)
(* value metrics and enrichers use the same formula: the n rows behind the *)
(* heading are numbered from 1 (row 0 is the heading), thread i of t,      *)
(* counted from 0, works on the rows from Start(i) up to Stop(i) - 1.      *)
(***************************************************************************)
EXTENDS Integers

(* Never more threads than rows; one thread if threads is not configured.  *)
ThreadsNumber(threads, n) ==
  IF threads > n THEN n ELSE IF threads <= 1 THEN 1 ELSE threads

Start(i, n, t) == 1 + (i * n) \div t

(* Mutant: the last row is left out.                                       *)
StopShort(i, n, t) == ((i + 1) * n) \div t

Stop(i, n, t) == 1 + ((i + 1) * n) \div t

ThreadRows(i, n, t) == Start(i, n, t)..(Stop(i, n, t) - 1)
=============================================================================

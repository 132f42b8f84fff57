------------------------- MODULE DropOldestChannel -------------------------
(***************************************************************************)
(* What the message queue promises its users, without deque, lock,         *)
(* condition or waiting callers.  Everything ever put stands in log, in    *)
(* the order of the puts; the channel holds log[head + 1] .. log[Len(log)],*)
(* at most Capacity entries.  An entry leaves at the old end only: it is   *)
(* handed to a caller, or lost to a put that finds the channel full, which *)
(* loses exactly one; or all that is left goes at once.                    *)
(***************************************************************************)
EXTENDS Integers, Sequences

CONSTANTS Entry, Capacity

VARIABLES
  log,    (* everything put so far, oldest first                             *)
  head,   (* how many entries of log have left: handed out, lost or cleared  *)
  lost,   (* how many of them left because a put found the channel full      *)
  taken   (* what has been handed out, in order                              *)

chVars == <<log, head, lost, taken>>

ChInit == log = <<>> /\ head = 0 /\ lost = 0 /\ taken = <<>>

Size == Len(log) - head

Put(x) ==
  /\ Size < Capacity
  /\ log' = Append(log, x)
  /\ UNCHANGED <<head, lost, taken>>

PutFull(x) ==
  /\ Size = Capacity
  /\ log' = Append(log, x)
  /\ head' = head + 1
  /\ lost' = lost + 1
  /\ UNCHANGED taken

Take ==
  /\ Size > 0
  /\ taken' = Append(taken, log[head + 1])
  /\ head' = head + 1
  /\ UNCHANGED <<log, lost>>

Clear ==
  /\ head' = Len(log)
  /\ UNCHANGED <<log, lost, taken>>

ChNext == (\E x \in Entry : Put(x) \/ PutFull(x)) \/ Take \/ Clear

ChSpec == ChInit /\ [][ChNext]_chVars
=============================================================================

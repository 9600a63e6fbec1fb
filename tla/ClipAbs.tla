------------------------------ MODULE ClipAbs ------------------------------
(***************************************************************************)
(* What clip() of purge.c promises about a conference: until it ends, the  *)
(* pair of files is as it was, or is torn between two renames, or is the   *)
(* purged one; it never ends on a torn pair.  A crash is an end that never *)
(* comes.                                                                  *)
(***************************************************************************)
EXTENDS ConfStore

CONSTANTS Torn,    \* the pair is neither the old one nor the purged one
          MaxMsgs  \* bound: messages of the conference

VARIABLES conf, before, cmd, trunc, ended

absVars == <<conf, before, cmd, trunc, ended>>

After == Clip(before, cmd, trunc)

AbsInit ==
  /\ before.there /\ before.n <= MaxMsgs /\ before.killed \subseteq Positions(before)
  /\ cmd \in {"C", "T"} /\ trunc \in 0 .. MaxMsgs
  /\ conf = before /\ ended = FALSE

AbsNext ==
  /\ ~ended
  /\ conf' \in {before, Torn, After}
  /\ ended' \in BOOLEAN
  /\ ended' => conf' # Torn
  /\ UNCHANGED <<before, cmd, trunc>>

AbsSpec == AbsInit /\ [][AbsNext]_absVars
=============================================================================

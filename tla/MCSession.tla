------------------------------ MODULE MCSession ------------------------------
(***************************************************************************)
(* Values for model checking Session.  Every board has the same            *)
(* conferences; the commands are cut down to those a run is about, so that *)
(* its bounds can be larger.                                               *)
(***************************************************************************)
EXTENDS Session

OneConf   == [b \in Board |-> <<0>>]
TwoConfs  == [b \in Board |-> <<0, 1>>]

Reading    == {"next", "previous", "kill", "goto", "scan", "qscan", "reset", "join",
               "autojoin", "conf", "load", "rev", "quit"}
Replying   == {"next", "previous", "kill", "private", "scan", "join", "load", "reply",
               "clean", "quit"}
Moving     == {"next", "join", "autojoin", "load", "rev", "reply", "quit"}
Failing    == {"next", "join", "clean", "load", "rev", "reply", "quit"}

NoFaults  == {}
AnyFault  == AllFaults

\* The commands of the runs that end in a violation.
KillRun    == {"load", "next", "reset", "kill"}
PurgeRun   == {"load", "next", "clean"}
=============================================================================

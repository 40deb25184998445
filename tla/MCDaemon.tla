------------------------------ MODULE MCDaemon ------------------------------
(***************************************************************************)
(* A small instance of Daemon for TLC.                                     *)
(***************************************************************************)
EXTENDS Daemon, TLC

MCDefault == [port |-> "default", foreground |-> FALSE, pidfile |-> "default",
              log |-> "full", rules |-> {"query_old_data"}]

(* A setting takes one of the values, or is not there.                     *)
Choices(setting, values) == {<<>>} \cup {setting :> v : v \in values}

MCCalls ==
  {port @@ file @@ rest :
     port \in Choices("port", {"cli"}), file \in Choices("configfile", {"file"}),
     rest \in [command : {"start", "stop", "restart", "status"},
               foreground : BOOLEAN, info : {FALSE}]}
  \cup {[command |-> "restart", foreground |-> FALSE, info |-> TRUE, configfile |-> "file"]}

(* Every combination of these, and a file that cannot be read.             *)
MCFiles ==
  [readable : {FALSE}, settings : {<<>>}] \cup
  [readable : {TRUE}, settings :
     {port @@ pidfile @@ log @@ rules @@ db :
        port    \in {<<>>, [port |-> "file", foreground |-> TRUE], [port |-> "unknown"]},
        pidfile \in Choices("pidfile", {"file"}),
        log     \in Choices("log", {"full", "plain", "unsized", "rotateless"}),
        rules   \in Choices("rules", {{"exceed_frequency"}, {"exceed_frequency", "typo"}}),
        db      \in Choices("db", {"full", "partial"})}]
=============================================================================

------------------------------- MODULE Daemon -------------------------------
(***************************************************************************)
(* From the command line to the serving daemon: load_config merges its     *)
(* three sources, main checks what it got and builds the Protector, and    *)
(* only then daemonocle acts on the command; the worker that it starts     *)
(* configures the log, binds the port and serves.                          *)
(*                                                                         *)
(* A configuration is a function from the names of its settings to their   *)
(* values; a setting that is not in its domain is not there.  The settings *)
(* are of these kinds:                                                     *)
(*    port        where to listen, host and port, in all three sources, as *)
(*                the backend's are                                        *)
(*    foreground  as port, but argparse always sets it                     *)
(*    pidfile     not on the command line                                  *)
(*    log         "full" or "plain" (rotate is False), or with a defect:   *)
(*                "unsized" (rotate is True, a size is missing) or         *)
(*                "rotateless" (no rotate, or not a dict)                  *)
(*    rules       the names of rules                                       *)
(*    db          "full", or "partial" when something of redis is missing  *)
(*    configfile, command, info (show_version or show_rules)               *)
(*                on the command line                                      *)
(* The file is read once for each call, so it is a part of the call; that  *)
(* it is edited between two calls is the choice of another.  Bound: one    *)
(* call at a time.                                                         *)
(*                                                                         *)
(* An operator named Bad... is a slip that this code could have made.      *)
(***************************************************************************)
EXTENDS Functions

CONSTANTS
  Calls,           \* command lines, as parse_args returns them
  Files,           \* configuration files: [readable, settings]
  Loadable,        \* the rules that can be imported
  Unbindable,      \* where the system lets no worker listen: the host does
                   \* not resolve or is another machine, the port is no
                   \* number, needs a permission, or another program has it
  DEFAULT_CONFIG   \* the default settings

Nested == {"log", "rules"}   \* those whose value is a dict

Pidfiles == {DEFAULT_CONFIG.pidfile}
  \cup {f.settings.pidfile : f \in {g \in Files : "pidfile" \in DOMAIN g.settings}}

ASSUME DaemonAssumption ==
  /\ Nested \cup {"port", "pidfile", "foreground"} = DOMAIN DEFAULT_CONFIG
  /\ DEFAULT_CONFIG.log = "full"
  /\ \A args \in Calls :
       /\ {"command", "foreground", "info"} \subseteq DOMAIN args
       /\ DOMAIN args \subseteq {"command", "foreground", "info", "configfile", "port"}

VARIABLES
  daemon,   \* daemon[pidfile]: what the process of that pidfile serves
  call      \* the call under way: where it is, its arguments, the settings
            \* of its file and its configuration

vars == <<daemon, call>>

Down   == [up |-> FALSE]
NoCall == [pc |-> "none"]

Init ==
  /\ daemon = [p \in Pidfiles |-> Down]
  /\ call = NoCall

-----------------------------------------------------------------------------
(* load_config                                                             *)

(* The keys that flatten makes of a nested setting are read by nobody.     *)
Flatten(config) == Restrict(config, DOMAIN config \ Nested)

(* Bad: the old values win.                                                *)
BadOverwrite(old, new) ==
  [s \in DOMAIN old \cup DOMAIN new |-> IF s \in DOMAIN old THEN old[s] ELSE new[s]]

Overwrite(old, new) ==
  [s \in DOMAIN old \cup DOMAIN new |-> IF s \in DOMAIN new THEN new[s] ELSE old[s]]

(* Bad: only a log section that is not there is made up for.               *)
BadWithLog(config) ==
  IF "log" \in DOMAIN config THEN config
  ELSE Overwrite(config, [log |-> DEFAULT_CONFIG.log])

(* A log section that is missing, or lacks the sizes it needs, is replaced *)
(* as a whole.                                                             *)
WithLog(config) ==
  IF "log" \in DOMAIN config /\ config.log # "unsized" THEN config
  ELSE Overwrite(config, [log |-> DEFAULT_CONFIG.log])

Settings(args, file) ==
  IF "configfile" \in DOMAIN args THEN file.settings ELSE <<>>

Merged(args, settings) ==
  Overwrite(Overwrite(Flatten(DEFAULT_CONFIG), settings), Flatten(args))

Call ==
  /\ call = NoCall
  /\ \E args \in Calls, file \in Files :
       call' = [pc |-> "load", args |-> args, file |-> file]
  /\ UNCHANGED daemon

(* A file that cannot be opened, is no YAML or is empty ends the program,  *)
(* and so does a log section that cannot be asked for rotate.              *)
LoadConfig ==
  /\ call.pc = "load"
  /\ LET settings == Settings(call.args, call.file)
         merged   == Merged(call.args, settings)
     IN  call' =
           IF \/ "configfile" \in DOMAIN call.args /\ ~call.file.readable
              \/ "log" \in DOMAIN merged /\ merged.log = "rotateless"
           THEN NoCall
           ELSE [pc |-> "main", args |-> call.args, settings |-> settings,
                 config |-> WithLog(merged)]
  /\ UNCHANGED daemon

-----------------------------------------------------------------------------
(* main and start_proxy                                                    *)

Goto(step) == call' = [call EXCEPT !.pc = step]
Exit       == call' = NoCall

(* --version and --show_rules, a missing configuration file whatever the   *)
(* command, and a log file that cannot be written (\/) end the program.    *)
Main ==
  /\ call.pc = "main"
  /\ \/ Exit
     \/ /\ ~call.config.info /\ "configfile" \in DOMAIN call.config
        /\ Goto("build")
  /\ UNCHANGED daemon

(* Bad: a rule that cannot be imported is skipped, as import_rules meant.  *)
BadImports(rules) == TRUE

(* import_rules comes back only when every rule can be imported and built: *)
(* the handler of the exception raises another.                            *)
Imports(rules) == rules \subseteq Loadable

(* Protector.__init__ with the settings that main passes to it.            *)
Built(config) ==
  /\ {"rules", "db"} \subseteq DOMAIN config
  /\ Imports(config.rules)
  /\ config.db = "full"

Build ==
  /\ call.pc = "build"
  /\ IF Built(call.config) THEN Goto("act") ELSE Exit
  /\ UNCHANGED daemon

-----------------------------------------------------------------------------
(* daemonocle and the worker                                               *)

Act ==
  /\ call.pc = "act"
  /\ LET p == call.config.pidfile
         starts == \/ call.config.command = "restart"
                   \/ call.config.command = "start" /\ ~daemon[p].up
     IN  /\ IF starts THEN Goto("run") ELSE Exit
         /\ daemon' = IF call.config.command \in {"stop", "restart"}
                      THEN [daemon EXCEPT ![p] = Down] ELSE daemon

(* configure_logging, which reads the sizes when the log rotates.          *)
ConfigureLogging ==
  /\ call.pc = "run"
  /\ IF call.config.log = "unsized" THEN Exit ELSE Goto("bind")
  /\ UNCHANGED daemon

PortTaken == \E p \in Pidfiles : daemon[p].up /\ daemon[p].port = call.config.port

(* The constructor of the server binds its address, or raises and the      *)
(* worker ends; load_config and the Protector have not looked at it.       *)
Serve ==
  /\ call.pc = "bind"
  /\ Exit
  /\ daemon' = IF PortTaken \/ call.config.port \in Unbindable THEN daemon
               ELSE [daemon EXCEPT ![call.config.pidfile] =
                 [up |-> TRUE, port |-> call.config.port,
                  foreground |-> call.config.foreground,
                  rules |-> call.config.rules \cap Loadable]]

(* A process is killed, or a ^C reaches it in the foreground.              *)
Die ==
  /\ \E p \in Pidfiles : daemon[p].up /\ daemon' = [daemon EXCEPT ![p] = Down]
  /\ UNCHANGED call

Next == Call \/ LoadConfig \/ Main \/ Build \/ Act \/ ConfigureLogging \/ Serve \/ Die

Spec == Init /\ [][Next]_vars

-----------------------------------------------------------------------------
(* Properties                                                              *)

(* What the setting should be: the first of command line, file and default *)
(* that has it.                                                            *)
First(setting) ==
  CASE setting \in DOMAIN call.args     -> call.args[setting]
    [] setting \notin DOMAIN call.args /\ setting \in DOMAIN call.settings
                                        -> call.settings[setting]
    [] OTHER                            -> DEFAULT_CONFIG[setting]

(* "Load settings from default config and optionally overwrite with config *)
(* file and commandline parameters (in that order)" (loader.py:23-27), for *)
(* what serves in the end: with foreground always from the command line,   *)
(* and no process that lacks one of the rules of its file although         *)
(* import_rules would skip those that it cannot load (rules/loader.py:25). *)
ServedAsConfigured ==
  [][\A p \in Pidfiles : ~daemon[p].up /\ daemon'[p].up =>
       /\ p = First("pidfile")
       /\ daemon'[p].port = First("port")
       /\ daemon'[p].foreground = call.args.foreground
       /\ daemon'[p].rules = call.settings.rules]_vars

(* An unusable configuration file does no harm to a daemon that runs: what *)
(* takes one down, other than a death of its own, is a stop or restart     *)
(* whose file names only rules that exist and a database, because          *)
(* start_proxy builds the Protector first (__main__.py:110-119).  Nobody   *)
(* looks at the address before it is bound: a restart with one that cannot *)
(* be bound takes the old daemon down, too.                                *)
KeepsServing ==
  [][\A p \in Pidfiles : daemon[p].up /\ call' # call => daemon'[p] = daemon[p]
       \/ /\ call.args.command \in {"stop", "restart"}
          /\ "configfile" \in DOMAIN call.args
          /\ {"rules", "db"} \subseteq DOMAIN call.settings
          /\ call.settings.rules \subseteq Loadable /\ call.settings.db = "full"]_vars

(* Once the old daemon is gone, only its address keeps the new one from    *)
(* coming up, the one of command line, file and default in this order: a   *)
(* log section that configure_logging cannot use is found, or made up for, *)
(* before (loader.py:42-50, daemon.py:47-48, 76).                          *)
ComesUp ==
  [][call.pc \in {"run", "bind"} /\ call'.pc = "none" =>
       \/ daemon'[call.config.pidfile].up
       \/ First("port") \in Unbindable
       \/ \E p \in Pidfiles : daemon[p].up /\ daemon[p].port = First("port")]_vars
=============================================================================

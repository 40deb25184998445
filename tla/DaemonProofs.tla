---------------------------- MODULE DaemonProofs ----------------------------
(***************************************************************************)
(* Theorems about Daemon, for every set of command lines, configuration    *)
(* files and rules.                                                        *)
(***************************************************************************)
EXTENDS Daemon, TLAPS

(* The places of a call that has its configuration, and those of them      *)
(* after the Protector was built and after the command was acted on.       *)
Configured == {"main", "build", "act", "run", "bind"}
AfterBuild == {"act", "run", "bind"}
Worker     == {"run", "bind"}

(* A call's configuration comes from its command line and the settings of  *)
(* one file, with a file it has what start_proxy needs once that is past,  *)
(* and no worker is started for a pidfile whose process lives.             *)
CallInv ==
  /\ DOMAIN daemon = Pidfiles
  /\ call.pc \in {"none", "load"} \cup Configured
  /\ call.pc = "none" => call = NoCall
  /\ call.pc = "load" => call.args \in Calls /\ call.file \in Files
  /\ call.pc \in Configured =>
       /\ call.args \in Calls
       /\ \E file \in Files : call.settings = Settings(call.args, file)
       /\ call.config = WithLog(Merged(call.args, call.settings))
  /\ call.pc \in AfterBuild \cup {"build"} => "configfile" \in DOMAIN call.config
  /\ call.pc \in AfterBuild => Built(call.config)
  /\ call.pc \in Worker => ~daemon[call.config.pidfile].up

(* What the merged configuration says of each kind of setting.             *)
LEMMA MergedSettings ==
  ASSUME NEW args \in Calls, NEW file \in Files
  PROVE  LET settings == Settings(args, file)
             config   == WithLog(Merged(args, settings))
         IN  /\ "pidfile" \in DOMAIN config
             /\ config.pidfile = IF "pidfile" \in DOMAIN settings THEN settings.pidfile
                                 ELSE DEFAULT_CONFIG.pidfile
             /\ config.pidfile \in Pidfiles
             /\ config.port = IF "port" \in DOMAIN args THEN args.port
                              ELSE IF "port" \in DOMAIN settings THEN settings.port
                              ELSE DEFAULT_CONFIG.port
             /\ config.foreground = args.foreground
             /\ config.command = args.command
             /\ config.log # "unsized"
             /\ \A s \in {"rules", "db"} : s \in DOMAIN config =>
                  s \in DOMAIN settings /\ config[s] = settings[s]
             /\ "configfile" \notin DOMAIN args => DOMAIN settings = {}
<1> DEFINE settings == Settings(args, file)
           flat     == Flatten(DEFAULT_CONFIG)
           merged   == Merged(args, settings)
           config   == WithLog(merged)
<1>1. /\ DOMAIN flat = {"port", "pidfile", "foreground"}
      /\ \A s \in DOMAIN flat : flat[s] = DEFAULT_CONFIG[s]
  BY DaemonAssumption DEF DaemonAssumption, Flatten, Restrict, Nested
<1>2. /\ DOMAIN Flatten(args) = DOMAIN args
      /\ \A s \in DOMAIN args : Flatten(args)[s] = args[s]
  BY DaemonAssumption DEF DaemonAssumption, Flatten, Restrict, Nested
<1>3. /\ DOMAIN merged = DOMAIN flat \cup DOMAIN settings \cup DOMAIN args
      /\ \A s \in DOMAIN merged :
           merged[s] = IF s \in DOMAIN args THEN args[s]
                       ELSE IF s \in DOMAIN settings THEN settings[s] ELSE flat[s]
  BY <1>2 DEF Merged, Overwrite
<1> HIDE DEF flat, merged
<1>4. /\ DOMAIN config = DOMAIN merged \cup {"log"}
      /\ \A s \in DOMAIN merged \ {"log"} : config[s] = merged[s]
      /\ config.log # "unsized"
  BY DaemonAssumption DEF DaemonAssumption, WithLog, Overwrite
<1>5. {"command", "foreground"} \subseteq DOMAIN args
      /\ {"pidfile", "log", "rules", "db"} \cap DOMAIN args = {}
  BY DaemonAssumption DEF DaemonAssumption
<1>6. "configfile" \notin DOMAIN args => DOMAIN settings = {}
  BY DEF Settings
<1>7. "pidfile" \in DOMAIN settings => settings.pidfile \in Pidfiles
  <2>1. CASE "configfile" \in DOMAIN args
    BY <2>1 DEF Settings, Pidfiles
  <2> QED
    BY <2>1, <1>6
<1>8. DEFAULT_CONFIG.pidfile \in Pidfiles
  BY DEF Pidfiles
<1> HIDE DEF settings, config
<1>9. /\ "pidfile" \in DOMAIN config
      /\ config.pidfile = IF "pidfile" \in DOMAIN settings THEN settings.pidfile
                          ELSE DEFAULT_CONFIG.pidfile
  BY <1>1, <1>3, <1>4, <1>5
<1>10. /\ config.port = IF "port" \in DOMAIN args THEN args.port
                        ELSE IF "port" \in DOMAIN settings THEN settings.port
                        ELSE DEFAULT_CONFIG.port
       /\ config.foreground = args.foreground /\ config.command = args.command
  BY <1>1, <1>3, <1>4, <1>5
<1>11. \A s \in {"rules", "db"} : s \in DOMAIN config =>
         s \in DOMAIN settings /\ config[s] = settings[s]
  BY <1>1, <1>3, <1>4, <1>5
<1> QED
  BY <1>4, <1>6, <1>7, <1>8, <1>9, <1>10, <1>11 DEF settings, merged, config

LEMMA CallInit == Init => CallInv
  BY DEF Init, CallInv, NoCall, Configured, AfterBuild, Worker

LEMMA CallStep == CallInv /\ [Next]_vars => CallInv'
<1> SUFFICES ASSUME CallInv, [Next]_vars PROVE CallInv'
  OBVIOUS
<1> USE DEF CallInv, Configured, AfterBuild, Worker
<1>1. ASSUME Call PROVE CallInv'
  BY <1>1 DEF Call, NoCall
<1>2. ASSUME LoadConfig PROVE CallInv'
  <2>1. CASE call' = NoCall
    BY <1>2, <2>1 DEF LoadConfig, NoCall
  <2>2. CASE call' = [pc |-> "main", args |-> call.args,
                      settings |-> Settings(call.args, call.file),
                      config |-> WithLog(Merged(call.args, Settings(call.args, call.file)))]
    BY <1>2, <2>2 DEF LoadConfig
  <2> QED
    BY <1>2, <2>1, <2>2 DEF LoadConfig
<1>3. ASSUME Main PROVE CallInv'
  <2>1. CASE Exit
    BY <1>3, <2>1 DEF Main, Exit, NoCall
  <2>2. CASE Goto("build") /\ "configfile" \in DOMAIN call.config
    BY <1>3, <2>2 DEF Main, Goto
  <2> QED
    BY <1>3, <2>1, <2>2 DEF Main
<1>4. ASSUME Build PROVE CallInv'
  <2>1. CASE Exit
    BY <1>4, <2>1 DEF Build, Exit, NoCall
  <2>2. CASE Goto("act") /\ Built(call.config)
    BY <1>4, <2>2 DEF Build, Goto
  <2> QED
    BY <1>4, <2>1, <2>2 DEF Build
<1>5. ASSUME Act PROVE CallInv'
  <2> DEFINE starts == \/ call.config.command = "restart"
                       \/ /\ call.config.command = "start"
                          /\ ~daemon[call.config.pidfile].up
  <2>1. DOMAIN daemon' = Pidfiles
    BY <1>5 DEF Act
  <2>2. CASE Exit
    BY <1>5, <2>1, <2>2 DEF Act, Exit, NoCall
  <2>3. CASE starts /\ Goto("run")
    <3>1. call.config.pidfile \in Pidfiles
      BY <1>5, MergedSettings DEF Act
    <3>2. ~daemon'[call.config.pidfile].up
      BY <1>5, <2>3, <3>1 DEF Act, Down
    <3> QED
      BY <1>5, <2>1, <2>3, <3>2 DEF Act, Goto
  <2>4. IF starts THEN Goto("run") ELSE Exit
    BY <1>5, Zenon DEF Act
  <2> HIDE DEF starts
  <2> QED
    BY <2>2, <2>3, <2>4, Zenon
<1>6. ASSUME ConfigureLogging PROVE CallInv'
  <2>1. CASE Exit
    BY <1>6, <2>1 DEF ConfigureLogging, Exit, NoCall
  <2>2. CASE Goto("bind")
    BY <1>6, <2>2 DEF ConfigureLogging, Goto
  <2> QED
    BY <1>6, <2>1, <2>2 DEF ConfigureLogging
<1>7. ASSUME Serve PROVE CallInv'
  BY <1>7 DEF Serve, Exit, NoCall
<1>8. ASSUME Die PROVE CallInv'
  BY <1>8 DEF Die, Down
<1>9. CASE UNCHANGED vars
  BY <1>9 DEF vars
<1> QED
  BY <1>1, <1>2, <1>3, <1>4, <1>5, <1>6, <1>7, <1>8, <1>9 DEF Next

LEMMA CallInvariant == Spec => []CallInv
  BY CallInit, CallStep, PTL DEF Spec

(* What CallInv says of a call whose Protector was built.                  *)
LEMMA BuiltCall ==
  ASSUME CallInv, call.pc \in AfterBuild
  PROVE  /\ call.args \in Calls /\ call.config.pidfile \in Pidfiles
         /\ "configfile" \in DOMAIN call.args
         /\ {"rules", "db"} \subseteq DOMAIN call.settings
         /\ call.settings.rules \subseteq Loadable /\ call.settings.db = "full"
         /\ call.config.rules = call.settings.rules
         /\ call.config.command = call.args.command
         /\ call.config.log # "unsized"
         /\ call.config.pidfile = First("pidfile") /\ call.config.port = First("port")
         /\ call.config.foreground = call.args.foreground
<1>1. PICK file \in Files : call.settings = Settings(call.args, file)
  BY DEF CallInv, Configured, AfterBuild
<1>2. /\ call.args \in Calls /\ Built(call.config)
      /\ call.config = WithLog(Merged(call.args, call.settings))
  BY DEF CallInv, Configured, AfterBuild
<1>3. /\ {"rules", "db"} \subseteq DOMAIN call.config
      /\ call.config.rules \subseteq Loadable /\ call.config.db = "full"
  BY <1>2 DEF Built, Imports
<1>4. /\ {"rules", "db"} \subseteq DOMAIN call.settings
      /\ call.config["rules"] = call.settings["rules"]
      /\ call.config["db"] = call.settings["db"]
  BY <1>1, <1>2, <1>3, MergedSettings
<1>5. "configfile" \in DOMAIN call.args
  BY <1>1, <1>2, <1>4, MergedSettings
<1>6. "pidfile" \notin DOMAIN call.args
  BY <1>2, DaemonAssumption DEF DaemonAssumption
<1>7. call.config.pidfile = First("pidfile") /\ call.config.port = First("port")
  BY <1>1, <1>2, <1>6, MergedSettings DEF First
<1> QED
  BY <1>1, <1>2, <1>3, <1>4, <1>5, <1>7, MergedSettings

(* A daemon that runs goes away, its own death aside, only by a stop or    *)
(* restart with a configuration from which the Protector was built, for    *)
(* any configuration files: main builds it before it acts on the command   *)
(* (__main__.py:110-119).                                                  *)
THEOREM ServingIsKept == Spec => KeepsServing
<1>1. CallInv /\ [Next]_vars =>
        [\A p \in Pidfiles : daemon[p].up /\ call' # call => daemon'[p] = daemon[p]
           \/ /\ call.args.command \in {"stop", "restart"}
              /\ "configfile" \in DOMAIN call.args
              /\ {"rules", "db"} \subseteq DOMAIN call.settings
              /\ call.settings.rules \subseteq Loadable /\ call.settings.db = "full"]_vars
  <2> SUFFICES ASSUME CallInv, Next, NEW p \in Pidfiles, daemon[p].up, call' # call,
                      daemon'[p] # daemon[p]
               PROVE  /\ call.args.command \in {"stop", "restart"}
                      /\ "configfile" \in DOMAIN call.args
                      /\ {"rules", "db"} \subseteq DOMAIN call.settings
                      /\ call.settings.rules \subseteq Loadable
                      /\ call.settings.db = "full"
    OBVIOUS
  <2>1. CASE Act
    <3>1. call.config.command \in {"stop", "restart"} /\ call.pc \in AfterBuild
      BY <2>1 DEF Act, AfterBuild
    <3> QED
      BY <3>1, BuiltCall
  <2>2. CASE Serve
    <3>1. ~daemon[call.config.pidfile].up
      BY <2>2 DEF Serve, CallInv, Worker
    <3>2. daemon'[p] = daemon[p]
      BY <2>2, <3>1 DEF Serve, CallInv
    <3> QED
      BY <3>2
  <2> QED
    BY <2>1, <2>2 DEF Next, Call, LoadConfig, Main, Build, ConfigureLogging, Die
<1> QED
  BY <1>1, CallInvariant, PTL DEF Spec, KeepsServing

(* A worker that was started serves in the end unless it cannot have the   *)
(* address that command line, file and defaults give it, whatever the log  *)
(* section of its file (loader.py:42-50, daemon.py:47-48, 76).             *)
THEOREM WorkersComeUp == Spec => ComesUp
<1>1. CallInv /\ [Next]_vars =>
        [call.pc \in {"run", "bind"} /\ call'.pc = "none" =>
           \/ daemon'[call.config.pidfile].up
           \/ First("port") \in Unbindable
           \/ \E p \in Pidfiles : daemon[p].up /\ daemon[p].port = First("port")]_vars
  <2> SUFFICES ASSUME CallInv, Next, call.pc \in {"run", "bind"}, call'.pc = "none"
               PROVE  \/ daemon'[call.config.pidfile].up
                      \/ First("port") \in Unbindable
                      \/ \E p \in Pidfiles : daemon[p].up /\ daemon[p].port = First("port")
    OBVIOUS
  <2>1. /\ call.config.log # "unsized" /\ call.config.pidfile \in Pidfiles
        /\ call.config.port = First("port")
    BY BuiltCall DEF AfterBuild
  <2>2. ~ConfigureLogging
    <3>1. SUFFICES ASSUME ConfigureLogging PROVE FALSE
      OBVIOUS
    <3>2. call.pc = "run" /\ call' = [call EXCEPT !.pc = "bind"]
      BY <2>1, <3>1 DEF ConfigureLogging, Goto
    <3>3. call'.pc \in {"bind", "run"}
      BY <3>2
    <3> QED
      BY <3>3
  <2>3. CASE Serve
    BY <2>1, <2>3 DEF Serve, PortTaken, CallInv
  <2> QED
    BY <2>2, <2>3 DEF Next, Call, LoadConfig, Main, Build, Act, Die, NoCall
<1> QED
  BY <1>1, CallInvariant, PTL DEF Spec, ComesUp

(* What serves has the settings of the command line before those of the    *)
(* file before the defaults, and every rule of its file (loader.py:22-59,  *)
(* rules/loader.py:15-26).                                                 *)
THEOREM ConfigurationServed == Spec => ServedAsConfigured
<1>1. CallInv /\ [Next]_vars =>
        [\A p \in Pidfiles : ~daemon[p].up /\ daemon'[p].up =>
           /\ p = First("pidfile")
           /\ daemon'[p].port = First("port")
           /\ daemon'[p].foreground = call.args.foreground
           /\ daemon'[p].rules = call.settings.rules]_vars
  <2> SUFFICES ASSUME CallInv, Next, NEW p \in Pidfiles, ~daemon[p].up, daemon'[p].up
               PROVE  /\ p = First("pidfile")
                      /\ daemon'[p].port = First("port")
                      /\ daemon'[p].foreground = call.args.foreground
                      /\ daemon'[p].rules = call.settings.rules
    OBVIOUS
  <2>1. CASE Serve
    <3>1. call.pc \in AfterBuild
      BY <2>1 DEF Serve, AfterBuild
    <3>2. p = call.config.pidfile
      BY <2>1 DEF Serve, CallInv
    <3>3. daemon'[p] = [up |-> TRUE, port |-> call.config.port,
                        foreground |-> call.config.foreground,
                        rules |-> call.config.rules \cap Loadable]
      BY <2>1, <3>2 DEF Serve, CallInv
    <3>4. call.config.rules \cap Loadable = call.settings.rules
      BY <3>1, BuiltCall
    <3> QED
      BY <3>1, <3>2, <3>3, <3>4, BuiltCall
  <2>2. CASE Act
    BY <2>2 DEF Act, CallInv, Down
  <2>3. CASE Die
    BY <2>3 DEF Die, CallInv, Down
  <2> QED
    BY <2>1, <2>2, <2>3 DEF Next, Call, LoadConfig, Main, Build, ConfigureLogging
<1> QED
  BY <1>1, CallInvariant, PTL DEF Spec, ServedAsConfigured
=============================================================================

------------------------------ MODULE Startup ------------------------------
(***************************************************************************)
(* main from its first line to the collectors: the configuration, the log, *)
(* the checks of the device list, InitServer with the certificate files,   *)
(* and the two deferred functions a panic reaches.  A process may be       *)
(* killed between any two steps; the files stay.  While no process runs,   *)
(* the operator edits plugin.conf and removes certificate files.           *)
(*                                                                         *)
(* main names the place where the main goroutine stands:                   *)
(*   config    about to read plugin.conf   logfile  about to open the log  *)
(*   devices   about to check the list     packs    about to LoadTagPacks  *)
(*   options   about to look for files     generate inside GenerateCert    *)
(*   create    about to open file number `at'       fill     to write it   *)
(*   load      about to LoadX509KeyPair    serve    about to start server  *)
(*   collect   waiting for the collectors  unwind   panicking              *)
(*   exited    no process                                                  *)
(* What the collectors do after that is the subject of Plugin; os.Executable*)
(* is taken to succeed.                                                    *)
(*                                                                         *)
(* OpenLogFileKeepsBuffer and the like, which no action uses, are faulty   *)
(* variants of the definition below them that properties are tried against.*)
(***************************************************************************)
EXTENDS ServerConfig

CONSTANTS Configs,   \* the contents plugin.conf may have
          Absent,    \* there is no such file
          Torn,      \* the file was created but not filled, or only in part
          MaxStarts  \* bound: how often the plugin is started

ASSUME StartupAssumption ==
    /\ Absent # Torn
    /\ Absent \notin Nat /\ Torn \notin Nat
    /\ MaxStarts \in Nat

\* In the order in which they are written.
Files == <<"cert.pem", "key.pem", "cert.der">>
Places == {"config", "logfile", "devices", "packs", "options", "generate", "create", "fill",
           "load", "serve", "collect", "unwind", "exited"}

VARIABLES plugin_conf, \* what the operator has written
          config,      \* what the process has read of it
          main,
          at,          \* number of the file being written
          log_buf,     \* the lines in the buffer
          log_file,    \* the lines this process has written to plugin.log
          crash_log,   \* the lines this process has written to crash.log
          logger,      \* whether the logger writes to "log_buf" or to "log_file"
          deferred,    \* the deferred functions, last one first
          panicking,   \* a panic of the main goroutine that nobody has recovered
          code,        \* exit code of the last process
          files,       \* Files -> Absent, Torn or the generation of the key pair in it
          generation,  \* how many key pairs were generated
          options,     \* what the server was created with
          starts,
          logged,      \* history: the lines this process has logged
          panicked,    \* history: the main goroutine has panicked
          found        \* history: the files as this process found them

logVars == <<log_buf, log_file, crash_log, logger, logged>>
panicVars == <<deferred, panicking, panicked, code>>
fileVars == <<at, files, generation>>
lifeVars == <<starts, found>>
vars == <<plugin_conf, config, main, logVars, panicVars, fileVars, lifeVars, options>>

NoOptions == [policies |-> {}, auth |-> {}, endpoints |-> {}, cert |-> Absent, key |-> Absent]

Init ==
    /\ plugin_conf \in Configs
    /\ config = plugin_conf
    /\ main = "exited"
    /\ at = 1
    /\ log_buf = {} /\ log_file = {} /\ crash_log = {}
    /\ logger = "log_buf"
    /\ deferred = <<>>
    /\ panicking = FALSE
    /\ code = 0
    /\ files = [f \in ToSet(Files) |-> Absent]
    /\ generation = 0
    /\ options = NoOptions
    /\ starts = 0
    /\ logged = {}
    /\ panicked = FALSE
    /\ found = files

-----------------------------------------------------------------------------
(* Logging and panics.                                                     *)

Println(lines) ==
    /\ logged' = logged \union lines
    /\ IF logger = "log_buf"
       THEN log_buf' = log_buf \union lines /\ UNCHANGED log_file
       ELSE log_file' = log_file \union lines /\ UNCHANGED log_buf
    /\ UNCHANGED logger

Unwind ==
    /\ main' = "unwind"
    /\ panicking' = TRUE
    /\ panicked' = TRUE
    /\ UNCHANGED <<deferred, code>>

\* logger.Panicf
Panicf == Println({"panic"}) /\ Unwind /\ UNCHANGED crash_log

Goto(place) == main' = place /\ UNCHANGED panicVars

Exit(c) ==
    /\ main' = "exited"
    /\ code' = c
    /\ panicking' = FALSE
    /\ deferred' = <<>>
    /\ UNCHANGED panicked

\* The deferred function that is next; recover ends the panic, whatever the
\* condition behind it says.
Deferred(f) == main = "unwind" /\ deferred # <<>> /\ Head(deferred) = f

InitLogFile ==
    /\ Deferred("InitLogFile")
    /\ \/ /\ panicking /\ log_buf = {}
          /\ Println({"trace"}) /\ Exit(1)
       \/ /\ ~panicking \/ log_buf # {}
          /\ panicking' = FALSE
          /\ deferred' = Tail(deferred)
          /\ UNCHANGED <<main, code, panicked, log_buf, log_file, logger, logged>>
    /\ UNCHANGED <<plugin_conf, config, crash_log, fileVars, lifeVars, options>>

\* crash.log gets what is in the buffer, or the failure is logged.
InitCrashLog ==
    /\ Deferred("InitCrashLog")
    /\ \/ /\ panicking /\ log_buf # {}
          /\ Exit(1)
          /\ \/ Println({"trace"}) /\ crash_log' = log_buf'
             \/ Println({"trace", "not written"}) /\ crash_log' = {}
       \/ /\ ~panicking \/ log_buf = {}
          /\ Exit(0)
          /\ UNCHANGED logVars
    /\ UNCHANGED <<plugin_conf, config, fileVars, lifeVars, options>>

-----------------------------------------------------------------------------
(* main.                                                                   *)

Start ==
    /\ main = "exited"
    /\ starts < MaxStarts
    /\ starts' = starts + 1
    /\ main' = "config"
    /\ log_buf' = {"start"} /\ logged' = {"start"}
    /\ log_file' = {} /\ crash_log' = {}
    /\ logger' = "log_buf"
    /\ deferred' = <<"InitCrashLog">>
    /\ panicking' = FALSE /\ panicked' = FALSE
    /\ options' = NoOptions
    /\ found' = files
    /\ UNCHANGED <<plugin_conf, config, code, fileVars>>

ReadConfig ==
    /\ main = "config"
    /\ \/ plugin_conf.readable /\ Goto("logfile") /\ config' = plugin_conf /\ UNCHANGED logVars
       \/ ~plugin_conf.readable /\ Panicf /\ UNCHANGED config
    /\ UNCHANGED <<plugin_conf, fileVars, lifeVars, options>>

\* plugin.log is opened, which may fail, and gets what was logged so far.
OpenLogFileKeepsBuffer ==
    /\ main = "logfile"
    /\ \/ ~config.logfile /\ Goto("devices") /\ UNCHANGED logVars
       \/ config.logfile /\ Panicf
       \/ /\ config.logfile
          /\ main' = "devices"
          /\ logger' = "log_file"
          /\ log_file' = log_buf
          /\ deferred' = <<"InitLogFile">> \o deferred
          /\ UNCHANGED <<log_buf, crash_log, logged, panicking, panicked, code>>
    /\ UNCHANGED <<plugin_conf, config, fileVars, lifeVars, options>>

OpenLogFileResets ==
    /\ main = "logfile"
    /\ \/ ~config.logfile /\ Goto("devices") /\ UNCHANGED logVars
       \/ config.logfile /\ Panicf
       \/ /\ config.logfile
          /\ main' = "devices"
          /\ logger' = "log_file"
          /\ log_buf' = {}
          /\ log_file' = log_buf'
          /\ deferred' = <<"InitLogFile">> \o deferred
          /\ UNCHANGED <<crash_log, logged, panicking, panicked, code>>
    /\ UNCHANGED <<plugin_conf, config, fileVars, lifeVars, options>>

OpenLogFile ==
    /\ main = "logfile"
    /\ \/ ~config.logfile /\ Goto("devices") /\ UNCHANGED logVars
       \/ config.logfile /\ Panicf
       \/ /\ config.logfile
          /\ main' = "devices"
          /\ logger' = "log_file"
          /\ log_file' = log_buf
          /\ log_buf' = {}
          /\ deferred' = <<"InitLogFile">> \o deferred
          /\ UNCHANGED <<crash_log, logged, panicking, panicked, code>>
    /\ UNCHANGED <<plugin_conf, config, fileVars, lifeVars, options>>

\* No two devices have a name or an address in common.
CheckDevices ==
    /\ main = "devices"
    /\ IF /\ config.devices # <<>>
          /\ \A i, j \in DOMAIN config.devices : i # j =>
                /\ config.devices[i].name # config.devices[j].name
                /\ config.devices[i].address # config.devices[j].address
       THEN Goto(IF config.server.status THEN "packs" ELSE "collect") /\ UNCHANGED logVars
       ELSE Panicf
    /\ UNCHANGED <<plugin_conf, config, fileVars, lifeVars, options>>

\* An empty tag name is an index out of range, which nobody has logged.
LoadTagPacks ==
    /\ main = "packs"
    /\ IF config.server.empty_tag THEN Unwind ELSE Goto("options")
    /\ UNCHANGED <<plugin_conf, config, logVars, fileVars, lifeVars, options>>

-----------------------------------------------------------------------------
(* InitServer.                                                             *)

IfAnyMissing == \E f \in DOMAIN files : files[f] = Absent

\* Only if none of the three files exists a certificate is made.
NoneCreated == \A f \in DOMAIN files : files[f] = Absent

InitServer ==
    /\ main = "options"
    /\ options' = [policies  |-> ServerOptions(config.server).policies,
                   auth      |-> ServerOptions(config.server).auth,
                   endpoints |-> ServerOptions(config.server).endpoints,
                   cert      |-> Absent,
                   key       |-> Absent]
    /\ Goto(IF config.server.make_cert /\ NoneCreated THEN "generate" ELSE "load")
    /\ UNCHANGED <<plugin_conf, config, logVars, fileVars, lifeVars>>

GenerateCert ==
    /\ main = "generate"
    /\ \/ /\ Goto("create")
          /\ generation' = generation + 1
          /\ at' = 1
          /\ UNCHANGED logVars
       \/ Panicf /\ UNCHANGED <<at, generation>>
    /\ UNCHANGED <<plugin_conf, config, files, lifeVars, options>>

\* os.WriteFile opens the file and fills it; each may fail.
CreateFile ==
    /\ main = "create"
    /\ \/ Goto("fill") /\ files' = [files EXCEPT ![Files[at]] = Torn] /\ UNCHANGED logVars
       \/ Panicf /\ UNCHANGED files
    /\ UNCHANGED <<plugin_conf, config, at, generation, lifeVars, options>>

FillSeparately ==
    /\ main = "fill"
    /\ \/ /\ files' = [files EXCEPT ![Files[at]] = generation]
          /\ at' = IF at < Len(Files) THEN at + 1 ELSE 1
          /\ generation' = generation + 1
          /\ Goto(IF at < Len(Files) THEN "create" ELSE "load")
          /\ UNCHANGED logVars
       \/ Panicf /\ UNCHANGED fileVars
    /\ UNCHANGED <<plugin_conf, config, lifeVars, options>>

FillOneMore ==
    /\ main = "fill"
    /\ \/ /\ files' = [files EXCEPT ![Files[at]] = generation]
          /\ at' = at + 1
          /\ Goto(IF at < Len(Files) THEN "create" ELSE "load")
          /\ UNCHANGED logVars
       \/ Panicf /\ UNCHANGED <<at, files>>
    /\ UNCHANGED <<plugin_conf, config, generation, lifeVars, options>>

FillFile ==
    /\ main = "fill"
    /\ \/ /\ files' = [files EXCEPT ![Files[at]] = generation]
          /\ at' = IF at < Len(Files) THEN at + 1 ELSE 1
          /\ Goto(IF at < Len(Files) THEN "create" ELSE "load")
          /\ UNCHANGED logVars
       \/ Panicf /\ UNCHANGED <<at, files>>
    /\ UNCHANGED <<plugin_conf, config, generation, lifeVars, options>>

\* AddCert and AddPK make an option of each file of the list that they can read and
\* parse; a path stands for what is there, Torn for anything else.  Of several options
\* of a kind server.New keeps the last.
Added(own, trusted) ==
    LET good == {i \in DOMAIN trusted : trusted[i] # Torn}
    IN IF good = {} THEN own ELSE trusted[Max(good)]

\* tls.LoadX509KeyPair, for a server that lets clients log in with certificates, and the
\* files of trusted_certs and trusted_keys after it.
LoadX509KeyPair ==
    /\ main = "load"
    /\ \/ /\ "Certificate" \notin ToSet(config.server.auth_modes)
          /\ Goto("serve")
          /\ UNCHANGED <<logVars, options>>
       \/ /\ "Certificate" \in ToSet(config.server.auth_modes)
          /\ \/ /\ files["cert.pem"] \notin {Absent, Torn}
                /\ files["key.pem"] = files["cert.pem"]
                /\ options' = [options EXCEPT
                                  !.cert = Added(files["cert.pem"], config.server.trusted_certs),
                                  !.key  = Added(files["key.pem"], config.server.trusted_keys)]
                /\ Goto("serve")
                /\ UNCHANGED logVars
             \/ /\ files["cert.pem"] \in {Absent, Torn} \/ files["key.pem"] # files["cert.pem"]
                /\ Panicf
                /\ UNCHANGED options
    /\ UNCHANGED <<plugin_conf, config, fileVars, lifeVars>>

\* server.New, the nodes (AddressSpace), and go StartServer.
Serve ==
    /\ main = "serve"
    /\ Goto("collect")
    /\ UNCHANGED <<plugin_conf, config, logVars, fileVars, lifeVars, options>>

\* The server cannot listen: the panic of a goroutine ends the process past the
\* deferred functions of main.
StartServerFails ==
    /\ main = "collect" /\ config.server.status
    /\ Println({"panic"})
    /\ Exit(2)
    /\ UNCHANGED <<plugin_conf, config, crash_log, fileVars, lifeVars, options>>

\* The collectors have ended; recover returns nil in the deferred functions.
Return ==
    /\ main = "collect"
    /\ Exit(0)
    /\ UNCHANGED <<plugin_conf, config, logVars, fileVars, lifeVars, options>>

Kill ==
    /\ main # "exited"
    /\ Exit(9)
    /\ UNCHANGED <<plugin_conf, config, logVars, fileVars, lifeVars, options>>

-----------------------------------------------------------------------------
(* The operator.                                                           *)

EditConfig ==
    /\ main = "exited"
    /\ plugin_conf' \in Configs
    /\ UNCHANGED <<config, main, logVars, panicVars, fileVars, lifeVars, options>>

RemoveFile ==
    /\ main = "exited"
    /\ \E f \in DOMAIN files : files' = [files EXCEPT ![f] = Absent]
    /\ UNCHANGED <<plugin_conf, config, main, logVars, panicVars, at, generation, lifeVars, options>>

Main ==
    \/ ReadConfig \/ OpenLogFile \/ CheckDevices \/ LoadTagPacks
    \/ InitServer \/ GenerateCert \/ CreateFile \/ FillFile \/ LoadX509KeyPair \/ Serve
    \/ InitLogFile \/ InitCrashLog \/ Return

Next == Main \/ Start \/ StartServerFails \/ Kill \/ EditConfig \/ RemoveFile

Spec == Init /\ [][Next]_vars

-----------------------------------------------------------------------------
(* Correctness.                                                            *)

Complete(f) == files[f] \notin {Absent, Torn}
Lines == {"start", "panic", "trace", "not written"}

TypeOK ==
    /\ plugin_conf \in Configs /\ config \in Configs
    /\ main \in Places
    /\ at \in DOMAIN Files
    /\ log_buf \subseteq Lines /\ log_file \subseteq Lines
    /\ crash_log \subseteq Lines /\ logged \subseteq Lines
    /\ logger \in {"log_buf", "log_file"}
    /\ deferred \in {<<>>, <<"InitCrashLog">>, <<"InitLogFile", "InitCrashLog">>}
    /\ panicking \in BOOLEAN /\ panicked \in BOOLEAN
    /\ code \in {0, 1, 2, 9}
    /\ files \in [ToSet(Files) -> {Absent, Torn} \union Nat]
    /\ found \in [ToSet(Files) -> {Absent, Torn} \union Nat]
    /\ generation \in Nat
    /\ starts \in 0 .. MaxStarts

\* Two certificate files that are complete belong to the same key pair, whenever the
\* process was killed or a write failed, and whichever files the operator has removed
\* since: the program never mixes a new pair with the rest of an old one.
KeyFitsCert ==
    \A f, g \in DOMAIN files : Complete(f) /\ Complete(g) => files[f] = files[g]

\* A panic of the main goroutine ends the process with exit code 1, and its trace is in
\* one of the two logs, unless crash.log could not be written, which is logged then.
PanicIsReported ==
    main = "exited" /\ panicked /\ code # 9
        => /\ code = 1
           /\ "trace" \in log_file \union crash_log \/ "not written" \in log_buf

\* No line is lost when the log moves from the buffer to the file.
LinesAreKept == logged \subseteq log_buf \union log_file

\* A server that is started can be reached and logged into, whatever the lists of the
\* configuration have of unknown, repeated or no entries.  It goes without encryption
\* only where the configuration says so or has no policy the plugin knows, and
\* Aes256_Sha256_RsaPss, which plugin.conf:97 offers, is none of those.
ServerIsReachable ==
    main = "collect" /\ config.server.status
        => /\ options.policies # {} /\ options.auth # {} /\ options.endpoints # {}
           /\ \A mode \in available_sec_modes : <<"None", mode>> \in options.policies
                => "None" \in DOMAIN config.server.security
                   \/ \A p \in DOMAIN config.server.security \cap available_policies :
                         config.server.security[p] \notin available_sec_modes

\* A server that clients log into with certificates, and that gets none from the trusted
\* lists, has a certificate of its own with the key that belongs to it, and cert.der, the
\* file for its clients, is no other certificate: also after starts that were cut short
\* while they wrote the files, and whichever of them the operator has removed.
ServerHasItsOwnPair ==
    /\ main = "collect" /\ config.server.status /\ "Certificate" \in options.auth
    /\ ToSet(config.server.trusted_certs) \union ToSet(config.server.trusted_keys) \subseteq {Torn}
    => /\ Complete("cert.pem") /\ options.cert = files["cert.pem"]
       /\ options.key = options.cert
       /\ Complete("cert.der") => files["cert.der"] = options.cert

\* A start that may make its certificate, or finds one, does not fail on it: loading
\* fails only over what an earlier life, or the operator, has left incomplete.
OwnCertLoads ==
    [][main = "load" /\ main' = "unwind"
         => \/ Torn \in {found["cert.pem"], found["key.pem"]}
            \/ /\ Absent \in {found["cert.pem"], found["key.pem"]}
               /\ config.server.make_cert => \E f \in DOMAIN found : found[f] # Absent]_vars
=============================================================================

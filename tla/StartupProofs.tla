--------------------------- MODULE StartupProofs ---------------------------
(***************************************************************************)
(* Proofs about the start of the plugin, for any configurations and any    *)
(* number of starts.                                                       *)
(***************************************************************************)
EXTENDS Startup, TLAPS

Both == <<"InitLogFile", "InitCrashLog">>
CrashOnly == <<"InitCrashLog">>

(* Where the lines are tells which deferred function is there to report a   *)
(* panic: the buffer holds at least the first line as long as the log file  *)
(* is not open, and nothing afterwards.                                     *)

LogInv ==
    /\ logger = "log_file" => log_buf = {}
    /\ logger = "log_buf" => log_file = {}
    /\ main # "exited" =>
          /\ logger = "log_buf" => deferred = CrashOnly /\ "start" \in log_buf
          /\ logger = "log_file" => deferred = Both
    /\ main \in {"config", "logfile"} => logger = "log_buf"

PanicInv ==
    /\ main = "unwind" => panicking /\ panicked
    /\ main \notin {"unwind", "exited"} => ~panicking /\ ~panicked

LEMMA FilesAre ==
    /\ ToSet(Files) = {"cert.pem", "key.pem", "cert.der"}
    /\ DOMAIN Files = 1 .. 3 /\ Len(Files) = 3
    /\ \A i \in 1 .. 3 : Files[i] \in ToSet(Files)
<1>1. DOMAIN Files = 1 .. 3 /\ Len(Files) = 3
  BY DEF Files
<1>2. Files[1] = "cert.pem" /\ Files[2] = "key.pem" /\ Files[3] = "cert.der"
  BY DEF Files
<1>3. ToSet(Files) = {Files[i] : i \in 1 .. 3}
  BY <1>1 DEF ToSet
<1> QED
  BY <1>1, <1>2, <1>3

LEMMA EachOnce == \A i, j \in 1 .. 3 : Files[i] = Files[j] => i = j
BY DEF Files

LEMMA Stacks ==
    /\ CrashOnly # Both
    /\ CrashOnly # <<>> /\ Both # <<>>
    /\ Head(CrashOnly) = "InitCrashLog" /\ Head(Both) = "InitLogFile"
    /\ <<"InitLogFile">> \o CrashOnly = Both
<1> DEFINE S == {"InitLogFile", "InitCrashLog"}
           joined == <<"InitLogFile">> \o <<"InitCrashLog">>
<1>1. Both \in Seq(S) /\ Len(Both) = 2 /\ Both[1] = "InitLogFile" /\ Both[2] = "InitCrashLog"
  BY DEF Both
<1>2. <<"InitLogFile">> \in Seq(S) /\ <<"InitCrashLog">> \in Seq(S)
  OBVIOUS
<1>3. /\ joined \in Seq(S) /\ Len(joined) = 2
      /\ joined[1] = "InitLogFile" /\ joined[2] = "InitCrashLog"
  BY <1>2
<1>4. joined = Both
  <2>1. \A i \in 1 .. 2 : joined[i] = Both[i]
    BY <1>1, <1>3
  <2> HIDE DEF joined
  <2> QED
    BY <1>1, <1>3, <2>1
<1> QED
  BY <1>4 DEF CrashOnly, Both

-----------------------------------------------------------------------------
(* Typing, together with where the lines are.                              *)

LEMMA InitHolds == Init => TypeOK /\ LogInv /\ PanicInv
<1> SUFFICES ASSUME Init PROVE TypeOK /\ LogInv /\ PanicInv
  OBVIOUS
<1>1. at \in DOMAIN Files
  BY FilesAre DEF Init
<1>2. files \in [ToSet(Files) -> {Absent, Torn} \union Nat] /\ found = files
  BY DEF Init
<1>3. starts \in 0 .. MaxStarts
  BY StartupAssumption DEF Init
<1>4. deferred \in {<<>>, <<"InitCrashLog">>, <<"InitLogFile", "InitCrashLog">>}
  BY DEF Init
<1>5. TypeOK
  BY <1>1, <1>2, <1>3, <1>4 DEF Init, TypeOK, Places, Lines
<1> QED
  BY <1>5 DEF Init, LogInv, PanicInv

DataTyped ==
    /\ plugin_conf \in Configs /\ config \in Configs
    /\ at \in DOMAIN Files
    /\ files \in [ToSet(Files) -> {Absent, Torn} \union Nat]
    /\ found \in [ToSet(Files) -> {Absent, Torn} \union Nat]
    /\ generation \in Nat
    /\ starts \in 0 .. MaxStarts

LEMMA DataIsTyped == TypeOK => DataTyped
BY DEF TypeOK, DataTyped

\* Before it unwinds, main can log and panic,
LEMMA PanicfKeeps ==
    ASSUME TypeOK, LogInv, PanicInv, DataTyped', main \notin {"unwind", "exited"}, Panicf
    PROVE  (TypeOK /\ LogInv /\ PanicInv)'
<1>1. (LogInv /\ PanicInv)'
  BY DEF LogInv, PanicInv, Panicf, Println, Unwind
<1>2. TypeOK'
  BY DEF TypeOK, DataTyped, Panicf, Println, Unwind, Lines, Places
<1> QED
  BY <1>1, <1>2

\* or go on to another place and leave the log and the deferred functions alone.
LEMMA GotoKeeps ==
    ASSUME TypeOK, LogInv, PanicInv, DataTyped',
           main \notin {"unwind", "exited"},
           NEW place \in Places \ {"unwind", "exited", "config", "logfile"},
           Goto(place), UNCHANGED logVars
    PROVE  (TypeOK /\ LogInv /\ PanicInv)'
<1>1. (LogInv /\ PanicInv)'
  BY DEF LogInv, PanicInv, Goto, logVars, panicVars
<1>2. TypeOK'
  BY DEF TypeOK, DataTyped, Goto, logVars, panicVars
<1> QED
  BY <1>1, <1>2

\* The steps of main before InitServer.
LEMMA EarlyStepKeeps ==
    ASSUME TypeOK, LogInv, PanicInv,
           ReadConfig \/ OpenLogFile \/ CheckDevices \/ LoadTagPacks
    PROVE  (TypeOK /\ LogInv /\ PanicInv)'
<1>1. DataTyped'
  BY DataIsTyped DEF DataTyped, ReadConfig, OpenLogFile, CheckDevices, LoadTagPacks, fileVars, lifeVars
<1>2. CASE ReadConfig
  <2>1. CASE Panicf
    BY <1>1, <1>2, <2>1, PanicfKeeps DEF ReadConfig
  <2>2. CASE Goto("logfile") /\ UNCHANGED logVars
    <3>1. (LogInv /\ PanicInv)'
      BY <1>2, <2>2 DEF ReadConfig, LogInv, PanicInv, Goto, logVars, panicVars
    <3>2. TypeOK'
      BY <1>1, <2>2 DEF TypeOK, DataTyped, Places, Goto, logVars, panicVars
    <3> QED
      BY <3>1, <3>2
  <2> QED
    BY <1>2, <2>1, <2>2 DEF ReadConfig
<1>3. CASE OpenLogFile
  <2>1. CASE Panicf
    BY <1>1, <1>3, <2>1, PanicfKeeps DEF OpenLogFile
  <2>2. CASE Goto("devices") /\ UNCHANGED logVars
    BY <1>1, <1>3, <2>2, GotoKeeps DEF OpenLogFile, Places
  <2>3. CASE /\ main' = "devices" /\ logger' = "log_file"
             /\ log_file' = log_buf /\ log_buf' = {}
             /\ deferred' = <<"InitLogFile">> \o deferred
             /\ UNCHANGED <<crash_log, logged, panicking, panicked, code>>
    <3>1. deferred' = Both
      BY <1>3, <2>3, Stacks DEF OpenLogFile, LogInv
    <3>2. (LogInv /\ PanicInv)'
      BY <1>3, <2>3, <3>1 DEF OpenLogFile, LogInv, PanicInv
    <3>3. TypeOK'
      BY <1>1, <2>3, <3>1 DEF TypeOK, DataTyped, Places, Both
    <3> QED
      BY <3>2, <3>3
  <2> QED
    BY <1>3, <2>1, <2>2, <2>3 DEF OpenLogFile
<1>4. CASE CheckDevices
  <2>1. CASE Panicf
    BY <1>1, <1>4, <2>1, PanicfKeeps DEF CheckDevices
  <2>2. ASSUME ~Panicf
        PROVE  \E place \in {"packs", "collect"} : Goto(place) /\ UNCHANGED logVars
    BY <1>4, <2>2 DEF CheckDevices
  <2> QED
    BY <1>1, <1>4, <2>1, <2>2, GotoKeeps DEF CheckDevices, Places
<1>5. CASE LoadTagPacks
  <2>1. CASE Unwind
    <3>1. (LogInv /\ PanicInv)'
      BY <1>5, <2>1 DEF LoadTagPacks, LogInv, PanicInv, Unwind, logVars
    <3>2. TypeOK'
      BY <1>1, <1>5, <2>1 DEF LoadTagPacks, TypeOK, DataTyped, Places, Unwind, logVars
    <3> QED
      BY <3>1, <3>2
  <2>2. CASE Goto("options")
    BY <1>1, <1>5, <2>2, GotoKeeps DEF LoadTagPacks, Places
  <2> QED
    BY <1>5, <2>1, <2>2 DEF LoadTagPacks
<1> QED
  BY <1>2, <1>3, <1>4, <1>5

\* InitServer with the certificate files, and the start of the server.
LEMMA ServerStepKeeps ==
    ASSUME TypeOK, LogInv, PanicInv,
           InitServer \/ GenerateCert \/ CreateFile \/ FillFile \/ LoadX509KeyPair \/ Serve
    PROVE  (TypeOK /\ LogInv /\ PanicInv)'
<1>1. DataTyped'
  <2> USE DataIsTyped DEF DataTyped, fileVars, lifeVars
  <2>1. CASE InitServer \/ LoadX509KeyPair \/ Serve
    BY <2>1 DEF InitServer, LoadX509KeyPair, Serve
  <2>2. CASE GenerateCert
    BY <2>2, FilesAre DEF GenerateCert
  <2>3. CASE CreateFile
    BY <2>3, FilesAre DEF CreateFile
  <2>4. CASE FillFile
    BY <2>4, FilesAre DEF FillFile
  <2> QED
    BY <2>1, <2>2, <2>3, <2>4
<1>2. main \notin {"unwind", "exited"}
  BY DEF InitServer, GenerateCert, CreateFile, FillFile, LoadX509KeyPair, Serve
<1>3. CASE Panicf
  BY <1>1, <1>2, <1>3, PanicfKeeps
<1>4. ASSUME ~Panicf
      PROVE  \E place \in {"generate", "create", "fill", "load", "serve", "collect"} :
                Goto(place) /\ UNCHANGED logVars
  BY <1>4 DEF InitServer, GenerateCert, CreateFile, FillFile, LoadX509KeyPair, Serve
<1> QED
  BY <1>1, <1>2, <1>3, <1>4, GotoKeeps DEF Places

\* The start and the loss of a process, and what happens without one.
LEMMA LifeStepKeeps ==
    ASSUME TypeOK, LogInv, PanicInv,
           Start \/ StartServerFails \/ Return \/ Kill \/ EditConfig \/ RemoveFile
    PROVE  (TypeOK /\ LogInv /\ PanicInv)'
<1>1. DataTyped'
  <2> USE DataIsTyped DEF DataTyped, fileVars, lifeVars
  <2>1. CASE Start
    BY <2>1, StartupAssumption DEF Start
  <2>2. CASE RemoveFile
    BY <2>2 DEF RemoveFile
  <2>3. CASE StartServerFails \/ Return \/ Kill \/ EditConfig
    BY <2>3 DEF StartServerFails, Return, Kill, EditConfig
  <2> QED
    BY <2>1, <2>2, <2>3
<1> USE <1>1 DEF TypeOK, DataTyped, LogInv, PanicInv, Places, Lines, logVars, panicVars
<1>2. CASE Start
  <2>1. /\ main' = "config" /\ log_buf' = {"start"} /\ logged' = {"start"} /\ log_file' = {}
        /\ crash_log' = {} /\ logger' = "log_buf" /\ deferred' = CrashOnly
        /\ panicking' = FALSE /\ panicked' = FALSE /\ code' = code
    BY <1>2 DEF Start, CrashOnly
  <2>2. (LogInv /\ PanicInv)'
    BY <2>1
  <2>3. TypeOK'
    BY <2>1 DEF CrashOnly
  <2> QED
    BY <2>2, <2>3
<1>3. CASE StartServerFails
  BY <1>3 DEF StartServerFails, Println, Exit
<1>4. CASE Return
  BY <1>4 DEF Return, Exit
<1>5. CASE Kill
  BY <1>5 DEF Kill, Exit
<1>6. CASE EditConfig \/ RemoveFile
  BY <1>6 DEF EditConfig, RemoveFile
<1> QED
  BY <1>2, <1>3, <1>4, <1>5, <1>6

\* The deferred functions.  The one that finds nothing to report is never reached
\* before the one that reports.
LEMMA UnwindKeeps ==
    ASSUME TypeOK, LogInv, PanicInv, InitLogFile \/ InitCrashLog
    PROVE  (TypeOK /\ LogInv /\ PanicInv)'
<1> USE Stacks DEF TypeOK, LogInv, PanicInv, Places, Lines,
        logVars, panicVars, fileVars, lifeVars
<1>1. CASE InitLogFile
  <2>1. logger = "log_file" /\ panicking /\ log_buf = {}
    BY <1>1 DEF InitLogFile, Deferred
  <2> QED
    BY <1>1, <2>1 DEF InitLogFile, Println, Exit
<1>2. CASE InitCrashLog
  <2>1. logger = "log_buf" /\ panicking /\ log_buf # {}
    BY <1>2 DEF InitCrashLog, Deferred
  <2> QED
    BY <1>2, <2>1 DEF InitCrashLog, Println, Exit
<1> QED
  BY <1>1, <1>2

LEMMA LogNext == TypeOK /\ LogInv /\ PanicInv /\ [Next]_vars => (TypeOK /\ LogInv /\ PanicInv)'
<1> SUFFICES ASSUME TypeOK, LogInv, PanicInv, [Next]_vars PROVE (TypeOK /\ LogInv /\ PanicInv)'
  OBVIOUS
<1>1. CASE UNCHANGED vars
  BY <1>1 DEF TypeOK, LogInv, PanicInv, vars, logVars, panicVars, fileVars, lifeVars
<1> QED
  BY <1>1, EarlyStepKeeps, ServerStepKeeps, LifeStepKeeps, UnwindKeeps DEF Next, Main

LEMMA LogAlways == Spec => [](TypeOK /\ LogInv /\ PanicInv)
BY InitHolds, LogNext, PTL DEF Spec

\* Every variable keeps its type.
THEOREM StartTypeCorrect == Spec => []TypeOK
BY LogAlways, PTL

-----------------------------------------------------------------------------
(* The log.                                                                *)

\* Only the steps that write to the log, or move it, can lose a line.
LEMMA LinesNext == TypeOK /\ LogInv /\ LinesAreKept /\ [Next]_vars => LinesAreKept'
<1> SUFFICES ASSUME TypeOK, LogInv, LinesAreKept, [Next]_vars PROVE LinesAreKept'
  OBVIOUS
<1> USE DEF LogInv, LinesAreKept
<1>1. CASE UNCHANGED logVars
  BY <1>1 DEF logVars
<1>2. ASSUME NEW lines, Println(lines) PROVE LinesAreKept'
  BY <1>2 DEF Println, TypeOK
<1>3. CASE Panicf
  BY <1>2, <1>3 DEF Panicf
<1>4. CASE Start
  BY <1>4 DEF Start
<1>5. CASE main = "logfile" /\ log_file' = log_buf /\ log_buf' = {} /\ logged' = logged
  BY <1>5
<1>6. CASE ReadConfig \/ OpenLogFile \/ CheckDevices \/ LoadTagPacks
  BY <1>1, <1>3, <1>5, <1>6 DEF ReadConfig, OpenLogFile, CheckDevices, LoadTagPacks
<1>7. CASE InitServer \/ GenerateCert \/ CreateFile \/ FillFile \/ LoadX509KeyPair \/ Serve
  BY <1>1, <1>3, <1>7 DEF InitServer, GenerateCert, CreateFile, FillFile, LoadX509KeyPair, Serve
<1>8. CASE InitLogFile \/ InitCrashLog
  BY <1>1, <1>2, <1>8 DEF InitLogFile, InitCrashLog, logVars
<1>9. CASE StartServerFails \/ Return \/ Kill \/ EditConfig \/ RemoveFile \/ UNCHANGED vars
  BY <1>1, <1>2, <1>9 DEF StartServerFails, Return, Kill, EditConfig, RemoveFile, vars
<1> QED
  BY <1>4, <1>6, <1>7, <1>8, <1>9 DEF Next, Main

\* What was logged is in the buffer or in the file, wherever the process stands.
THEOREM NoLineIsLost == Spec => []LinesAreKept
<1>1. Init => LinesAreKept
  BY DEF Init, LinesAreKept
<1> QED
  BY <1>1, LinesNext, LogAlways, PTL DEF Spec

\* A step that ends a process whose main goroutine has panicked is one of the two
\* deferred functions, or it is a kill.
LEMMA ReportNext == TypeOK /\ LogInv /\ PanicInv /\ PanicIsReported /\ [Next]_vars => PanicIsReported'
<1> SUFFICES ASSUME TypeOK, LogInv, PanicInv, PanicIsReported, [Next]_vars PROVE PanicIsReported'
  OBVIOUS
<1> USE DEF PanicIsReported
<1>1. CASE main' # "exited"
  BY <1>1
<1>2. CASE main' = "exited"
  <2>1. CASE InitLogFile
    <3>1. logger = "log_file" /\ log_buf = {} /\ panicking
      BY <2>1, Stacks DEF InitLogFile, Deferred, TypeOK, LogInv, PanicInv
    <3>2. Println({"trace"}) /\ Exit(1)
      BY <2>1, <3>1 DEF InitLogFile
    <3>3. "trace" \in log_file' /\ code' = 1
      BY <3>1, <3>2 DEF Println, Exit
    <3> QED
      BY <3>3
  <2>2. CASE InitCrashLog
    <3>1. logger = "log_buf" /\ log_buf # {} /\ panicking
      BY <2>2, Stacks DEF InitCrashLog, Deferred, TypeOK, LogInv, PanicInv
    <3>2. /\ Exit(1)
          /\ \/ Println({"trace"}) /\ crash_log' = log_buf'
             \/ Println({"trace", "not written"})
      BY <2>2, <3>1 DEF InitCrashLog
    <3>3. code' = 1 /\ ("trace" \in crash_log' \/ "not written" \in log_buf')
      BY <3>1, <3>2 DEF Println, Exit
    <3> QED
      BY <3>3
  <2>3. CASE StartServerFails \/ Return \/ Kill
    BY <2>3 DEF StartServerFails, Return, Kill, Exit, PanicInv
  <2>4. CASE EditConfig \/ RemoveFile \/ UNCHANGED vars
    BY <2>4 DEF EditConfig, RemoveFile, vars, logVars, panicVars
  <2>5. CASE Start \/ ReadConfig \/ OpenLogFile \/ CheckDevices \/ LoadTagPacks
    BY <1>2, <2>5 DEF Start, ReadConfig, OpenLogFile, CheckDevices, LoadTagPacks, Goto, Panicf, Unwind
  <2>6. CASE InitServer \/ GenerateCert \/ CreateFile \/ FillFile \/ LoadX509KeyPair \/ Serve
    BY <1>2, <2>6
       DEF InitServer, GenerateCert, CreateFile, FillFile, LoadX509KeyPair, Serve, Goto, Panicf, Unwind
  <2> QED
    BY <2>1, <2>2, <2>3, <2>4, <2>5, <2>6 DEF Next, Main
<1> QED
  BY <1>1, <1>2

\* No panic of the main goroutine is swallowed: the process ends with exit code 1 and
\* with the trace in plugin.log or crash.log.
THEOREM EveryPanicIsReported == Spec => []PanicIsReported
<1>1. Init => PanicIsReported
  BY DEF Init, PanicIsReported
<1> QED
  BY <1>1, ReportNext, LogAlways, PTL DEF Spec

-----------------------------------------------------------------------------
(* The certificate files.  A new pair is made only when none of the three   *)
(* exists; from then on until they are loaded every complete one is of that *)
(* pair, and those before the file being written are complete.              *)

CertInv ==
    /\ KeyFitsCert
    /\ main = "generate" => NoneCreated
    /\ main \in {"create", "fill"} =>
          /\ \A f \in DOMAIN files : Complete(f) => files[f] = generation
          /\ \A i \in 1 .. at - 1 : files[Files[i]] = generation

\* Until a pair is made the files are those the process has found; where they are
\* loaded, there is either a whole new pair or none was to be made.
LoadInv ==
    /\ main \in {"config", "logfile", "devices", "packs", "options"} => files = found
    /\ main = "load" =>
          \/ files = found /\ (config.server.make_cert => ~NoneCreated)
          \/ \A i \in 1 .. 3 : files[Files[i]] = generation

LEMMA CertNext == TypeOK /\ CertInv /\ LoadInv /\ [Next]_vars => (CertInv /\ LoadInv)'
<1> SUFFICES ASSUME TypeOK, CertInv, LoadInv, [Next]_vars PROVE (CertInv /\ LoadInv)'
  OBVIOUS
<1> USE FilesAre, StartupAssumption DEF CertInv, LoadInv, KeyFitsCert, Complete, NoneCreated
<1>1. CASE Start
  BY <1>1 DEF Start, fileVars
<1>2. CASE ReadConfig \/ OpenLogFile \/ CheckDevices \/ LoadTagPacks
  BY <1>2 DEF ReadConfig, OpenLogFile, CheckDevices, LoadTagPacks, Goto, Panicf, Unwind,
              fileVars, lifeVars
<1>3. CASE InitServer
  BY <1>3 DEF InitServer, Goto, fileVars, lifeVars
<1>4. CASE GenerateCert
  BY <1>4 DEF GenerateCert, Goto, Panicf, Unwind, lifeVars
<1>5. CASE CreateFile
  <2>1. CASE Panicf
    BY <1>5, <2>1 DEF CreateFile, Panicf, Unwind
  <2>2. CASE Goto("fill") /\ files' = [files EXCEPT ![Files[at]] = Torn]
    <3>1. /\ main' = "fill" /\ at' = at /\ generation' = generation
          /\ \A i \in 1 .. at - 1 : files[Files[i]] = generation
          /\ \A f \in DOMAIN files : Complete(f) => files[f] = generation
      BY <1>5, <2>2 DEF CreateFile, Goto
    <3>2. DOMAIN files' = DOMAIN files
          /\ \A f \in DOMAIN files : files'[f] = IF f = Files[at] THEN Torn ELSE files[f]
      BY <2>2
    <3>3. \A i \in 1 .. at - 1 : Files[i] # Files[at] /\ Files[i] \in DOMAIN files
      BY EachOnce DEF TypeOK
    <3> QED
      BY <3>1, <3>2, <3>3
  <2> QED
    BY <1>5, <2>1, <2>2 DEF CreateFile
<1>6. CASE FillFile
  <2>1. CASE Panicf
    BY <1>6, <2>1 DEF FillFile, Panicf, Unwind
  <2>2. CASE /\ files' = [files EXCEPT ![Files[at]] = generation]
             /\ at' = IF at < Len(Files) THEN at + 1 ELSE 1
             /\ main' = IF at < Len(Files) THEN "create" ELSE "load"
    <3>1. /\ generation' = generation
          /\ \A i \in 1 .. at - 1 : files[Files[i]] = generation
          /\ \A f \in DOMAIN files : Complete(f) => files[f] = generation
      BY <1>6 DEF FillFile
    <3>2. DOMAIN files' = DOMAIN files
          /\ \A f \in DOMAIN files : files'[f] = IF f = Files[at] THEN generation ELSE files[f]
      BY <2>2
    <3>3. at \in 1 .. 3 /\ \A i \in 1 .. 3 : Files[i] \in DOMAIN files
      BY DEF TypeOK
    <3>4. \A i \in 1 .. at : files'[Files[i]] = generation
      BY <3>1, <3>2, <3>3
    <3>5. \A f \in DOMAIN files' : Complete(f)' => files'[f] = generation
      BY <3>1, <3>2
    <3>6. CASE at < 3
      BY <2>2, <3>1, <3>3, <3>4, <3>5, <3>6
    <3>7. CASE at = 3
      BY <2>2, <3>1, <3>4, <3>5, <3>7
    <3> QED
      BY <3>3, <3>6, <3>7
  <2> QED
    BY <1>6, <2>1, <2>2 DEF FillFile, Goto
<1>7. CASE LoadX509KeyPair \/ Serve
  BY <1>7 DEF LoadX509KeyPair, Serve, Goto, Panicf, Unwind, fileVars, lifeVars
<1>8. CASE InitLogFile \/ InitCrashLog
  <2>1. main' \in {"unwind", "exited"} /\ UNCHANGED <<files, at, generation, found, config>>
    BY <1>8 DEF InitLogFile, InitCrashLog, Deferred, Exit, fileVars, lifeVars
  <2> QED
    BY <2>1
<1>9. CASE StartServerFails \/ Return \/ Kill
  BY <1>9 DEF StartServerFails, Return, Kill, Exit, fileVars, lifeVars
<1>10. CASE RemoveFile
  BY <1>10 DEF TypeOK, RemoveFile, lifeVars
<1>11. CASE EditConfig \/ UNCHANGED vars
  BY <1>11 DEF EditConfig, vars, fileVars, lifeVars
<1> QED
  BY <1>1, <1>2, <1>3, <1>4, <1>5, <1>6, <1>7, <1>8, <1>9, <1>10, <1>11 DEF Next, Main

LEMMA CertAlways == Spec => [](TypeOK /\ CertInv /\ LoadInv)
<1>1. Init => CertInv /\ LoadInv
  BY FilesAre DEF Init, CertInv, LoadInv, KeyFitsCert, Complete
<1> QED
  BY <1>1, CertNext, LogAlways, PTL DEF Spec

\* The program never mixes the files of two key pairs.
THEOREM KeyAlwaysFits == Spec => []KeyFitsCert
<1>1. CertInv => KeyFitsCert
  BY DEF CertInv
<1> QED
  BY <1>1, CertAlways, PTL

\* Loading fails only over what was incomplete when the process began.
THEOREM OwnCertIsLoaded == Spec => OwnCertLoads
<1> DEFINE Fails == main = "load" /\ main' = "unwind"
           Cause == \/ Torn \in {found["cert.pem"], found["key.pem"]}
                    \/ /\ Absent \in {found["cert.pem"], found["key.pem"]}
                       /\ config.server.make_cert => \E f \in DOMAIN found : found[f] # Absent
<1>1. ASSUME TypeOK, CertInv, LoadInv, [Next]_vars PROVE [Fails => Cause]_vars
  <2> SUFFICES ASSUME Fails PROVE Cause
    OBVIOUS
  <2>1. LoadX509KeyPair
    BY <1>1 DEF Next, Main, Start, ReadConfig, OpenLogFile, CheckDevices, LoadTagPacks,
        InitServer, GenerateCert, CreateFile, FillFile, Serve, InitLogFile, InitCrashLog, Deferred,
        Return, StartServerFails, Kill, Exit, EditConfig, RemoveFile, vars
  <2>2. files["cert.pem"] \in {Absent, Torn} \/ files["key.pem"] # files["cert.pem"]
    BY <2>1 DEF LoadX509KeyPair, Goto
  <2>3. Files[1] = "cert.pem" /\ Files[2] = "key.pem"
    BY DEF Files
  <2>4. ~\A i \in 1 .. 3 : files[Files[i]] = generation
    BY <1>1, <2>2, <2>3, StartupAssumption DEF TypeOK
  <2>5. files = found /\ (config.server.make_cert => ~NoneCreated)
    BY <1>1, <2>4 DEF LoadInv
  <2>6. CASE Complete("cert.pem") /\ Complete("key.pem")
    BY <1>1, <2>2, <2>6, FilesAre DEF TypeOK, CertInv, KeyFitsCert, Complete
  <2>7. CASE ~Complete("cert.pem") \/ ~Complete("key.pem")
    BY <2>5, <2>7 DEF Complete, NoneCreated
  <2> QED
    BY <2>6, <2>7
<1> QED
  BY <1>1, CertAlways, PTL DEF Spec, OwnCertLoads

-----------------------------------------------------------------------------
(* What the server offers.                                                 *)

\* The first endpoint is written like none before it.
LEMMA FirstIsOpened ==
    ASSUME NEW endpoints, 1 \in DOMAIN endpoints
    PROVE  GetEndpointOptions(endpoints) # {}
BY DEF GetEndpointOptions

LEMMA DefaultIsOpened == GetEndpointOptions(DefaultEndpoints) # {}
<1> DEFINE here == [host |-> Localhost, port |-> DefaultPort]
           there == [host |-> Hostname, port |-> DefaultPort]
<1>1. <<here>> \in Seq({here, there}) /\ 1 \in DOMAIN <<here>>
  OBVIOUS
<1>2. 1 \in DOMAIN Append(<<here>>, there)
  <2> HIDE DEF here, there
  <2>1. Append(<<here>>, there) \in Seq({here, there}) /\ Len(Append(<<here>>, there)) = 2
    BY <1>1
  <2> QED
    BY <2>1
<1> QED
  BY <1>1, <1>2, FirstIsOpened DEF DefaultEndpoints

\* The server goes without encryption only if it was told to, or knows no policy of the
\* configuration.
NoneIsWanted(server) ==
    \/ "None" \in DOMAIN server.security
    \/ \A p \in DOMAIN server.security \cap available_policies :
          server.security[p] \notin available_sec_modes

LEMMA SomethingIsOffered ==
    ASSUME NEW server
    PROVE  /\ ServerOptions(server).policies # {}
           /\ ServerOptions(server).auth # {}
           /\ ServerOptions(server).endpoints # {}
           /\ "Certificate" \in ServerOptions(server).auth
                => "Certificate" \in ToSet(server.auth_modes)
           /\ \A mode : <<"None", mode>> \in ServerOptions(server).policies => NoneIsWanted(server)
<1> DEFINE known == {p \in DOMAIN server.security \cap available_policies :
                        server.security[p] \in available_sec_modes}
<1>1. /\ ServerOptions(server).policies # {}
      /\ ServerOptions(server).auth # {}
      /\ ServerOptions(server).endpoints # {}
      /\ "Certificate" \in ServerOptions(server).auth => "Certificate" \in ToSet(server.auth_modes)
  BY DefaultIsOpened DEF ServerOptions, OrElse, GetAuthModeOptions
<1>2. ASSUME NEW mode, <<"None", mode>> \in ServerOptions(server).policies
      PROVE  NoneIsWanted(server)
  <2>1. CASE known = {}
    BY <2>1 DEF NoneIsWanted
  <2>2. CASE known # {}
    <3>1. GetPoliciesOptions(server.security)
             = {<<p, GetSecurityMode(p, server.security[p])>> : p \in known}
      BY DEF GetPoliciesOptions
    <3>2. ServerOptions(server).policies = GetPoliciesOptions(server.security)
      BY <2>2, <3>1 DEF ServerOptions, OrElse
    <3>3. PICK p \in known : <<"None", mode>> = <<p, GetSecurityMode(p, server.security[p])>>
      BY <1>2, <3>1, <3>2
    <3>4. p = "None"
      BY <3>3
    <3> QED
      BY <3>4 DEF NoneIsWanted
  <2> QED
    BY <2>1, <2>2
<1> QED
  BY <1>1, <1>2

\* Where the trusted lists give nothing the server keeps what is its own.
LEMMA NothingIsAdded ==
    ASSUME NEW own, NEW trusted, ToSet(trusted) \subseteq {Torn}
    PROVE  Added(own, trusted) = own
<1>1. \A i \in DOMAIN trusted : trusted[i] = Torn
  BY DEF ToSet
<1> QED
  BY <1>1 DEF Added

Offered ==
    /\ options = [policies |-> options.policies, auth |-> options.auth,
                  endpoints |-> options.endpoints, cert |-> options.cert, key |-> options.key]
    /\ options.policies # {} /\ options.auth # {} /\ options.endpoints # {}
    /\ \A mode : <<"None", mode>> \in options.policies => NoneIsWanted(config.server)
    /\ "Certificate" \in options.auth => "Certificate" \in ToSet(config.server.auth_modes)

OwnOnly ==
    ToSet(config.server.trusted_certs) \union ToSet(config.server.trusted_keys) \subseteq {Torn}

OwnCert ==
    "Certificate" \in options.auth /\ OwnOnly
        => /\ Complete("cert.pem")
           /\ options.cert = files["cert.pem"]
           /\ options.key = options.cert

\* Every list has a default, and past the loading certificate logins have a certificate.
OfferInv ==
    /\ main \in {"generate", "create", "fill", "load"} => Offered
    /\ main = "serve" => Offered /\ OwnCert
    /\ main = "collect" /\ config.server.status => Offered /\ OwnCert

LEMMA OfferNext == OfferInv /\ [Next]_vars => OfferInv'
<1> SUFFICES ASSUME OfferInv, [Next]_vars PROVE OfferInv'
  OBVIOUS
<1> USE DEF OfferInv
<1>1. CASE main' \in {"exited", "unwind", "config", "logfile", "devices", "packs", "options"}
  BY <1>1
<1>2. CASE InitServer
  <2>1. config' = config /\ options' = [policies  |-> ServerOptions(config.server).policies,
                                        auth      |-> ServerOptions(config.server).auth,
                                        endpoints |-> ServerOptions(config.server).endpoints,
                                        cert      |-> Absent,
                                        key       |-> Absent]
    BY <1>2 DEF InitServer
  <2>2. Offered'
    BY <2>1, SomethingIsOffered DEF Offered
  <2> QED
    BY <1>2, <2>2 DEF InitServer, Goto
<1>3. CASE GenerateCert \/ CreateFile \/ FillFile
  <2>1. /\ main \in {"generate", "create", "fill"}
        /\ main' \in {"create", "fill", "load", "unwind"}
        /\ UNCHANGED <<options, config>>
    BY <1>3 DEF GenerateCert, CreateFile, FillFile, Goto, Panicf, Unwind
  <2> QED
    BY <2>1 DEF Offered
<1>4. CASE LoadX509KeyPair
  <2> DEFINE cert == Added(files["cert.pem"], config.server.trusted_certs)
             key == Added(files["key.pem"], config.server.trusted_keys)
  <2>1. CASE main' = "unwind"
    BY <2>1
  <2>2. CASE /\ main' = "serve" /\ UNCHANGED options
             /\ "Certificate" \notin ToSet(config.server.auth_modes)
    BY <1>4, <2>2 DEF LoadX509KeyPair, Offered, OwnCert
  <2>3. CASE /\ main' = "serve"
             /\ files["cert.pem"] \notin {Absent, Torn}
             /\ files["key.pem"] = files["cert.pem"]
             /\ options' = [options EXCEPT !.cert = cert, !.key = key]
    <3>1. Offered /\ UNCHANGED <<config, files>>
      BY <1>4 DEF LoadX509KeyPair, fileVars
    <3>2. options' = [policies |-> options.policies, auth |-> options.auth,
                      endpoints |-> options.endpoints, cert |-> cert, key |-> key]
      <4> HIDE DEF cert, key
      <4> QED
        BY <2>3, <3>1 DEF Offered
    <3>3. Offered'
      <4> HIDE DEF cert, key
      <4> QED
        BY <3>1, <3>2 DEF Offered
    <3>4. OwnOnly => cert = files["cert.pem"] /\ key = files["key.pem"]
      <4>1. OwnOnly => /\ ToSet(config.server.trusted_certs) \subseteq {Torn}
                       /\ ToSet(config.server.trusted_keys) \subseteq {Torn}
        BY DEF OwnOnly
      <4> QED
        BY <4>1, NothingIsAdded
    <3>5. OwnCert'
      <4> HIDE DEF cert, key
      <4>1. OwnOnly' = OwnOnly
        BY <3>1 DEF OwnOnly
      <4> QED
        BY <2>3, <3>1, <3>2, <3>4, <4>1 DEF OwnCert, Complete
    <3> QED
      BY <2>3, <3>3, <3>5
  <2> QED
    BY <1>4, <2>1, <2>2, <2>3 DEF LoadX509KeyPair, Goto, Panicf, Unwind
<1>5. CASE Serve
  <2>1. main = "serve" /\ main' = "collect" /\ UNCHANGED <<options, config, files>>
    BY <1>5 DEF Serve, Goto, fileVars
  <2> QED
    BY <2>1 DEF Offered, OwnCert, OwnOnly, Complete
<1>6. CASE CheckDevices
  BY <1>6 DEF CheckDevices, Goto, Panicf, Unwind
<1>7. CASE UNCHANGED vars
  BY <1>7 DEF vars, fileVars, Offered, OwnCert, OwnOnly, Complete
<1>8. CASE Start \/ ReadConfig \/ OpenLogFile \/ LoadTagPacks
  BY <1>1, <1>8 DEF Start, ReadConfig, OpenLogFile, LoadTagPacks, Goto, Panicf, Unwind
<1>9. CASE InitLogFile \/ InitCrashLog \/ Return \/ StartServerFails \/ Kill \/ EditConfig \/ RemoveFile
  <2>1. main' \in {"exited", "unwind"}
    BY <1>9 DEF InitLogFile, InitCrashLog, Deferred, Return, StartServerFails, Kill, Exit,
                EditConfig, RemoveFile
  <2> QED
    BY <1>1, <2>1
<1> QED
  BY <1>2, <1>3, <1>4, <1>5, <1>6, <1>7, <1>8, <1>9 DEF Next, Main

LEMMA OfferAlways == Spec => []OfferInv
<1>1. Init => OfferInv
  BY DEF Init, OfferInv
<1> QED
  BY <1>1, OfferNext, PTL DEF Spec

\* A server that is started can be reached and logged into, and does not go without
\* encryption unasked where it knows a policy of the configuration.
THEOREM ServerIsAlwaysReachable == Spec => []ServerIsReachable
<1>1. ASSUME OfferInv, main = "collect", config.server.status
      PROVE  /\ options.policies # {} /\ options.auth # {} /\ options.endpoints # {}
             /\ \A mode : <<"None", mode>> \in options.policies => NoneIsWanted(config.server)
  BY <1>1 DEF OfferInv, Offered
<1>2. ASSUME OfferInv, main = "collect", config.server.status,
             NEW mode, <<"None", mode>> \in options.policies
      PROVE  NoneIsWanted(config.server)
  BY <1>1, <1>2
<1>3. ASSUME OfferInv PROVE ServerIsReachable
  BY <1>1, <1>2, <1>3 DEF NoneIsWanted, ServerIsReachable
<1> QED
  BY <1>3, OfferAlways, PTL

\* Without trusted lists certificate logins meet the pair the plugin has made, all of it.
THEOREM ServerAlwaysHasItsOwnPair == Spec => []ServerHasItsOwnPair
<1>1. OfferInv /\ TypeOK /\ CertInv => ServerHasItsOwnPair
  <2>1. ASSUME TypeOK, CertInv, Complete("cert.pem"), Complete("cert.der")
        PROVE  files["cert.der"] = files["cert.pem"]
    <3>1. {"cert.pem", "cert.der"} \subseteq DOMAIN files
      BY <2>1, FilesAre DEF TypeOK
    <3> QED
      BY <2>1, <3>1 DEF CertInv, KeyFitsCert
  <2> QED
    BY <2>1 DEF OfferInv, OwnCert, OwnOnly, ServerHasItsOwnPair
<1> QED
  BY <1>1, OfferAlways, CertAlways, PTL
=============================================================================

------------------------------- MODULE Plugin -------------------------------
(***************************************************************************)
(* The plugin as a process: main starts the collectors, the recovery of    *)
(* the handles an earlier process could not free, and the two listeners    *)
(* for the stop; it waits for the collectors only and then returns, which  *)
(* ends every other goroutine wherever it stands.  A process may also die  *)
(* (a panic in a goroutine, a kill), and it may be started again.          *)
(*                                                                         *)
(* The library of a new process may still know numbers of an old one: that *)
(* is what non_free_handles.json is for.                                   *)
(***************************************************************************)
EXTENDS Focas, Sequences, FiniteSets

CONSTANTS Pending, MaxConnect, MaxGetHandle, MaxReconnect,
          WorkDir, PluginDir, Absent, Torn,
          NumDevices,  \* len(config.Devices)
          MaxRestarts  \* bound: how often the process is started again

ASSUME PluginAssumption ==
    /\ NumDevices \in Nat
    /\ Devices = 1 .. NumDevices
    /\ MaxRestarts \in Nat
    /\ Pending \notin Handles \union {NoHandle}
    /\ MaxConnect \in Nat \ {0}
    /\ MaxGetHandle \in Nat \ {0}
    /\ MaxReconnect \in Nat \ {0}

VARIABLES running, pc, handle, handles, count, answer, late, machines, power_on,
          stage, index, unfreed, files, recovery, extra, tried,
          main,      \* "up", "success" (main has returned) or "dead"
          restarts,
          quiet,     \* history: FreeAllHandles of the listener began with nobody else at work
          outdated   \* history: numbers on the record found at the start that are not,
                     \*   or not once each, connections of the earlier process

Collectors == INSTANCE Collector
Release == INSTANCE HandleRelease

collectorVars == <<pc, handle, count, answer, late, machines, power_on>>
releaseVars == <<stage, index, unfreed, recovery, extra, tried>>
historyVars == <<quiet, outdated>>
processVars == <<main, restarts, historyVars>>
vars == <<conn, running, handles, files, processVars, collectorVars, releaseVars>>

Init ==
    /\ Collectors!Init
    /\ Release!ReleaseInit
    /\ files = [dir \in Release!Dirs |-> Absent]
    /\ main = "up"
    /\ restarts = 0
    /\ quiet = [e \in Release!Enders |-> FALSE]
    /\ outdated = {}

\* The collectors and the goroutines in the library for them.
Collecting(d) ==
    /\ main = "up"
    /\ Collectors!Step(d) \/ Collectors!Library(d)
    /\ UNCHANGED <<files, processVars, releaseVars>>

\* The listeners: end of file or a byte on the standard input, a signal.
Listening ==
    /\ main = "up"
    /\ Release!StdinByte \/ \E e \in Release!Enders : Release!EndPlugin(e)
    /\ UNCHANGED <<processVars, collectorVars>>

\* The sleep of EndPlugin is meant to end when the collectors have.
Ending(e) ==
    /\ main = "up"
    /\ Release!Ending(e)
    /\ quiet' = IF stage[e] = "sleep"
                THEN [quiet EXCEPT ![e] = \A d \in Devices : pc[d] = "done" /\ ~late[d]]
                ELSE quiet
    /\ UNCHANGED <<main, restarts, outdated, collectorVars>>

Recovering ==
    /\ main = "up"
    /\ Release!Recovering
    /\ UNCHANGED <<processVars, collectorVars>>

\* wait_group.Wait returns, and main after it.
Exit ==
    /\ main = "up"
    /\ \A d \in Devices : pc[d] = "done"
    /\ main' = "success"
    /\ UNCHANGED <<conn, running, handles, files, restarts, historyVars, collectorVars, releaseVars>>

Crash ==
    /\ main = "up"
    /\ main' = "dead"
    /\ UNCHANGED <<conn, running, handles, files, restarts, historyVars, collectorVars, releaseVars>>

\* How often number h stands on the record that a start of the plugin finds.
Entries(h) ==
    LET record == files[PluginDir]
    IN IF record \in {Absent, Torn} THEN {} ELSE {i \in DOMAIN record : record[i] = h}

\* A new process: everything is new except the files and those connections of
\* the old process that the library has not given up.
Restart ==
    /\ main # "up"
    /\ restarts < MaxRestarts
    /\ restarts' = restarts + 1
    /\ main' = "up"
    /\ \E kept \in SUBSET Open :
          /\ conn' = [h \in Handles |-> IF h \in kept THEN conn[h] ELSE NoDevice]
          /\ outdated' = {h \in Handles :
                             /\ Entries(h) # {}
                             /\ h \notin kept \/ Cardinality(Entries(h)) > 1}
    /\ running' = TRUE
    /\ pc' = [d \in Devices |-> "start"]
    /\ handle' = [d \in Devices |-> NoHandle]
    /\ handles' = [d \in Devices |-> NoHandle]
    /\ count' = [d \in Devices |-> 0]
    /\ answer' = [d \in Devices |-> NoHandle]
    /\ late' = [d \in Devices |-> FALSE]
    /\ machines' = [d \in Devices |-> {}]
    /\ power_on' = [d \in Devices |-> "none"]
    /\ stage' = [e \in Release!Enders |-> "listen"]
    /\ index' = [e \in Release!Enders |-> 1]
    /\ unfreed' = [e \in Release!Enders |-> <<>>]
    /\ recovery' = "stat"
    /\ extra' = <<>>
    /\ tried' = 0
    /\ quiet' = [e \in Release!Enders |-> FALSE]
    /\ UNCHANGED files

Over == main # "up" /\ restarts = MaxRestarts /\ UNCHANGED vars

Next ==
    \/ \E d \in Devices : Collecting(d)
    \/ Listening
    \/ \E e \in Release!Enders : Ending(e)
    \/ Recovering
    \/ Exit
    \/ Crash
    \/ Restart
    \/ Over

\* As in Collector, and main returns when it can.  Nothing is assumed of
\* EndPlugin, which main does not wait for.
Fairness ==
    /\ \A d \in Devices :
          WF_vars(/\ main = "up"
                  /\ Collectors!Step(d)
                  /\ UNCHANGED <<files, processVars, releaseVars>>)
    /\ WF_vars(Exit)

Spec == Init /\ [][Next]_vars
FairSpec == Spec /\ Fairness

-----------------------------------------------------------------------------
(* Correctness.                                                            *)

Records == Seq(Handles \union {NoHandle}) \union {Absent, Torn}

TypeOK ==
    /\ Collectors!TypeOK
    /\ stage \in [Release!Enders -> {"listen", "deaf", "sleep", "free", "record",
                                     "open", "fill", "ended"}]
    /\ index \in [Release!Enders -> 1 .. NumDevices + 1]
    /\ unfreed \in [Release!Enders -> Seq(Handles \union {NoHandle})]
    /\ files \in [Release!Dirs -> Records]
    /\ recovery \in {"stat", "read", "free", "remove", "ended"}
    /\ extra \in Seq(Handles \union {NoHandle})
    /\ tried \in 0 .. Len(extra)
    /\ main \in {"up", "success", "dead"}
    /\ restarts \in 0 .. MaxRestarts
    /\ quiet \in [Release!Enders -> BOOLEAN]
    /\ outdated \subseteq Handles

\* Until the plugin is stopped, every collector uses and remembers only handles
\* of its own CNC.  EndPlugin does not interfere, and neither does the recovery,
\* as long as what it found on record is what an earlier process left open.
OwnUnlessStopped ==
    running /\ outdated = {} => Collectors!HoldsOwnHandle /\ Collectors!RemembersOwnHandle

\* An EndPlugin whose sleep outlasted the collectors, and the calls they had given
\* up, leaves nothing behind: a number in the slice that is still open is among
\* those it puts on record, whatever the other EndPlugin and the recovery free.
NothingForgotten ==
    \A e \in Release!Enders :
        quiet[e] /\ stage[e] \in {"open", "fill", "ended"}
            => \A d \in Devices :
                  handles[d] \in Open => \E i \in DOMAIN unfreed[e] : unfreed[e][i] = handles[d]

\* Until the plugin is stopped, the record of an earlier process changes only by
\* being removed, after each number in it was freed or turned out to be free: a
\* crash or an unreadable file loses no record.
RecordIsKept ==
    [][running /\ main = "up" /\ files' # files
          => /\ files' = [files EXCEPT ![PluginDir] = Absent]
             /\ extra = files[PluginDir]
             /\ tried = Len(extra)]_vars

Feed == INSTANCE DeviceFeed WITH online <- {d \in Devices : pc[d] \in Collectors!Online},
                                 shown <- power_on

\* Every process is a feed of its own: it begins with nothing shown, and each of its
\* steps, until it ends, is one of DeviceFeed or shows the reader nothing new, also
\* while EndPlugin and the recovery free handles beside the collectors.  What a dead
\* process has shown stays until the next one begins.
EveryProcessIsAFeed ==
    /\ Feed!Init
    /\ [][IF main = "up" THEN [Feed!Next]_(Feed!feed)
                         ELSE Feed!Init' \/ UNCHANGED Feed!feed]_vars

\* The stop is final: while the process goes on nothing sets the flag again, and no step
\* of anybody, EndPlugin with its frees included, takes a collector away from its end.
StopIsFinal ==
    [][main = "up" /\ ~running
          => /\ ~running'
             /\ \A d \in Devices : \/ UNCHANGED <<pc[d], count[d]>>
                                   \/ Collectors!Nearer(d)]_vars

\* A stopped plugin ends, also while EndPlugin pulls the handles from under its
\* collectors.
PluginEnds == ~running ~> main # "up"

\* The last line of the log, "Окончание работы плагина: успешно" (plugin.go:194,
\* "end of the plugin: success"): what the collectors could not free is free or
\* on record by then.
SuccessLeavesNothing ==
    main = "success" =>
        \A d \in Devices :
            handles[d] \in Open => /\ files[WorkDir] \notin {Absent, Torn}
                                  /\ \E i \in DOMAIN files[WorkDir] :
                                        files[WorkDir][i] = handles[d]
=============================================================================

----------------------------- MODULE Collector -----------------------------
(***************************************************************************)
(* The data collectors: per device one StartDataCollector goroutine, which *)
(* runs DataCollector over and over until the plugin stops, and the        *)
(* goroutines GetHandleWithTimeout leaves behind in the library.           *)
(*                                                                         *)
(* pc[d] names the place where the collector of d stands:                  *)
(*   start    head of the loop in StartDataCollector                       *)
(*   connect  loop that waits for the device to accept a TCP connection    *)
(*   take     about to read the handle left by the last activation         *)
(*   free     about to free that handle      clear   it is freed           *)
(*   wait     inside GetHandleWithTimeout                                  *)
(*   collect  head of the collection loop    probe   inside IsConnectAlive *)
(*   read     inside GetFanucJsonData                                      *)
(*   release  deferred FreeHandle on return  unset   it is freed           *)
(*   rest     the ten seconds between two activations                      *)
(*   done     wait_group.Done                                              *)
(*                                                                         *)
(* SilentRetry, UncountedRetry and the like, which no action uses, are       *)
(* faulty variants of the definition below them that the properties are    *)
(* tried against.                                                          *)
(***************************************************************************)
EXTENDS Focas

CONSTANTS Pending,      \* GetHandle has not returned yet
          MaxConnect,   \* max_connect    (5 in the code)
          MaxGetHandle, \* max_get_handle (5 in the code)
          MaxReconnect  \* max_reconnect  (5 in the code)

ASSUME CollectorAssumption ==
    /\ Pending \notin Handles \union {NoHandle}
    /\ MaxConnect \in Nat \ {0}
    /\ MaxGetHandle \in Nat \ {0}
    /\ MaxReconnect \in Nat \ {0}

VARIABLES running,  \* the global flag every loop polls
          pc,
          handle,   \* the local variable of DataCollector
          handles,  \* the global slice; handles[d] is *global_handle of d
          count,    \* connect_count, get_handle_count or reconnect_counter
          answer,   \* what GetHandle put into the result channel of this call
          late,     \* some call given up by the timeout is still in the library
          machines, \* the CNCs that have answered in the scan under way
          power_on  \* the power_on tag last printed for the device

localVars == <<handle, count, answer, late, machines>>
vars == <<conn, running, pc, handles, power_on, localVars>>

PC == {"start", "connect", "take", "free", "clear", "wait", "collect",
       "probe", "read", "release", "unset", "rest", "done"}

Init ==
    /\ conn = [h \in Handles |-> NoDevice]
    /\ running = TRUE
    /\ pc = [d \in Devices |-> "start"]
    /\ handle = [d \in Devices |-> NoHandle]
    /\ handles = [d \in Devices |-> NoHandle]
    /\ count = [d \in Devices |-> 0]
    /\ answer = [d \in Devices |-> NoHandle]
    /\ late = [d \in Devices |-> FALSE]
    /\ machines = [d \in Devices |-> {}]
    /\ power_on = [d \in Devices |-> "none"]

Goto(d, place) == pc' = [pc EXCEPT ![d] = place]
Show(d, value) == power_on' = [power_on EXCEPT ![d] = value]
Set(f, d, value) == [f EXCEPT ![d] = value]

-----------------------------------------------------------------------------
(* Counted retries.  Each of the three loops gives up at its own maximum,  *)
(* prints the power-off record and returns.                                *)

GivesUp(d, max) == count[d] + 1 >= max

SilentRetry(d, max, again, away, value) ==
    IF GivesUp(d, max)
    THEN Goto(d, away) /\ count' = Set(count, d, 0) /\ Show(d, value)
    ELSE Goto(d, again) /\ count' = Set(count, d, count[d] + 1) /\ Show(d, value)

UncountedRetry(d, max, again, away, value) ==
    IF GivesUp(d, max)
    THEN Goto(d, away) /\ count' = Set(count, d, 0) /\ Show(d, "off")
    ELSE Goto(d, again) /\ UNCHANGED count /\ Show(d, value)

\* One attempt failed: once more from `again', with `value' still shown, or
\* the power-off record and on to `away'.
Retry(d, max, again, away, value) ==
    IF GivesUp(d, max)
    THEN Goto(d, away) /\ count' = Set(count, d, 0) /\ Show(d, "off")
    ELSE Goto(d, again) /\ count' = Set(count, d, count[d] + 1) /\ Show(d, value)

-----------------------------------------------------------------------------
(* From the start of an activation to a handle.                            *)

StartUnannounced(d) ==
    /\ pc[d] = "start"
    /\ Goto(d, IF running THEN "connect" ELSE "done")
    /\ UNCHANGED <<conn, running, handles, power_on, localVars>>

\* The loop of StartDataCollector enters DataCollector, which prints the
\* power-off record first, or the goroutine ends.
Start(d) ==
    /\ pc[d] = "start"
    /\ \/ running /\ Goto(d, "connect") /\ Show(d, "off")
       \/ ~running /\ Goto(d, "done") /\ UNCHANGED power_on
    /\ UNCHANGED <<conn, running, handles, localVars>>

\* IsConnectAlive: the dial succeeds, or it fails or is cut short by the stop.
Connect(d) ==
    /\ pc[d] = "connect"
    /\ \/ /\ Goto(d, "take")
          /\ count' = Set(count, d, 0)
          /\ UNCHANGED power_on
       \/ Retry(d, MaxConnect, "connect", "rest", power_on[d])
    /\ UNCHANGED <<conn, running, handles, handle, answer, late, machines>>

\* GetHandleWithTimeout starts its goroutine.
AskForHandle(d) == Goto(d, "wait") /\ answer' = Set(answer, d, Pending)

TakeGlobal(d) ==
    /\ pc[d] = "take"
    /\ handle' = Set(handle, d, handles[d])
    /\ \/ /\ handles[d] = NoHandle
          /\ AskForHandle(d)
       \/ /\ handles[d] # NoHandle
          /\ Goto(d, "free")
          /\ UNCHANGED answer
    /\ UNCHANGED <<conn, running, handles, power_on, count, late, machines>>

FreeOld(d) ==
    /\ pc[d] = "free"
    /\ \E ret \in FreeCodes :
          /\ cnc_freelibhndl(handle[d], ret)
          /\ \/ Freed(ret) /\ Goto(d, "clear") /\ UNCHANGED answer
             \/ ~Freed(ret) /\ AskForHandle(d)
    /\ UNCHANGED <<running, handles, power_on, handle, count, late, machines>>

ClearOld(d) ==
    /\ pc[d] = "clear"
    /\ handles' = Set(handles, d, NoHandle)
    /\ handle' = Set(handle, d, NoHandle)
    /\ AskForHandle(d)
    /\ UNCHANGED <<conn, running, power_on, count, late, machines>>

\* GetHandle returns in its own goroutine: a handle, or 0 and an error.
GetHandle(d) ==
    /\ answer[d] = Pending
    /\ \/ \E h \in Handles : /\ cnc_allclibhndl3(d, h)
                             /\ answer' = Set(answer, d, h)
       \/ /\ answer' = Set(answer, d, NoHandle)
          /\ UNCHANGED conn
    /\ UNCHANGED <<running, pc, handles, power_on, handle, count, late, machines>>

RefusedKeepsAnswer(d) ==
    /\ handle' = Set(handle, d, answer[d])
    /\ Retry(d, MaxGetHandle, "wait", "rest", power_on[d])
    /\ answer' = Set(answer, d, IF GivesUp(d, MaxGetHandle) THEN NoHandle ELSE Pending)
    /\ UNCHANGED handles

\* No handle came back: GetHandleWithTimeout returned 0, which overwrites the
\* local variable and nothing else.
HandleRefused(d) ==
    /\ handle' = Set(handle, d, NoHandle)
    /\ Retry(d, MaxGetHandle, "wait", "rest", power_on[d])
    /\ answer' = Set(answer, d, IF GivesUp(d, MaxGetHandle) THEN NoHandle ELSE Pending)
    /\ UNCHANGED handles

TakeAnswer(d) ==
    /\ pc[d] = "wait"
    /\ answer[d] # Pending
    /\ \/ /\ answer[d] # NoHandle
          /\ handle' = Set(handle, d, answer[d])
          /\ handles' = Set(handles, d, answer[d])
          /\ count' = Set(count, d, 0)
          /\ answer' = Set(answer, d, NoHandle)
          /\ Goto(d, "collect")
          /\ UNCHANGED power_on
       \/ answer[d] = NoHandle /\ HandleRefused(d)
    /\ UNCHANGED <<conn, running, late, machines>>

\* The timer fires.  An answer that is in the channel already may lose against
\* it (select picks either); one that comes later is read by nobody.
Timeout(d) ==
    /\ pc[d] = "wait"
    /\ HandleRefused(d)
    /\ late' = Set(late, d, late[d] \/ answer[d] = Pending)
    /\ UNCHANGED <<conn, running, machines>>

\* A call that was given up returns.  Others may still be in the library.
LateAnswer(d) ==
    /\ late[d]
    /\ (\E h \in Handles : cnc_allclibhndl3(d, h)) \/ UNCHANGED conn
    /\ \E more \in BOOLEAN : late' = Set(late, d, more)
    /\ UNCHANGED <<running, pc, handles, power_on, handle, count, answer, machines>>

-----------------------------------------------------------------------------
(* The collection loop.                                                    *)

CollectUnpolled(d) ==
    /\ pc[d] = "collect"
    /\ Goto(d, "probe")
    /\ UNCHANGED <<conn, running, handles, power_on, localVars>>

\* The head of the loop polls the flag.
Collect(d) ==
    /\ pc[d] = "collect"
    /\ Goto(d, IF running THEN "probe" ELSE "release")
    /\ UNCHANGED <<conn, running, handles, power_on, localVars>>

Probe(d) ==
    /\ pc[d] = "probe"
    /\ \/ /\ Goto(d, "read")
          /\ machines' = Set(machines, d, {})
          /\ UNCHANGED <<count, power_on>>
       \/ /\ Retry(d, MaxReconnect, "collect", "release", power_on[d])
          /\ UNCHANGED machines
    /\ UNCHANGED <<conn, running, handles, handle, answer, late>>

\* One library call of GetFanucJsonData is answered by the CNC that the number
\* leads to at that moment.
ReadTag(d) ==
    /\ pc[d] = "read"
    /\ handle[d] \in Open
    /\ machines' = Set(machines, d, machines[d] \union {conn[handle[d]]})
    /\ UNCHANGED <<conn, running, pc, handles, power_on, handle, count, answer, late>>

\* GetFanucJsonData returns and its record is printed.  A protocol error
\* (EW_HANDLE, EW_SOCKET) counts as a failed attempt; a success does not reset
\* the counter.
Publish(d) ==
    /\ pc[d] = "read"
    /\ \/ /\ Goto(d, "collect")
          /\ Show(d, "on")
          /\ UNCHANGED count
       \/ Retry(d, MaxReconnect, "collect", "release", "on")
    /\ machines' = Set(machines, d, {})
    /\ UNCHANGED <<conn, running, handles, handle, answer, late>>

-----------------------------------------------------------------------------
(* The deferred function of DataCollector and the pause that follows it.   *)

ReleaseAlwaysClears(d) ==
    /\ pc[d] = "release"
    /\ \E ret \in FreeCodes : cnc_freelibhndl(handle[d], ret)
    /\ Goto(d, "unset")
    /\ UNCHANGED <<running, handles, power_on, localVars>>

Release(d) ==
    /\ pc[d] = "release"
    /\ \E ret \in FreeCodes :
          /\ cnc_freelibhndl(handle[d], ret)
          /\ \/ Freed(ret) /\ Goto(d, "unset") /\ UNCHANGED handle
             \/ ~Freed(ret) /\ Goto(d, "rest") /\ handle' = Set(handle, d, NoHandle)
    /\ count' = Set(count, d, 0)
    /\ UNCHANGED <<running, handles, power_on, answer, late, machines>>

UnsetLocalOnly(d) ==
    /\ pc[d] = "unset"
    /\ handle' = Set(handle, d, NoHandle)
    /\ Goto(d, "rest")
    /\ UNCHANGED <<conn, running, power_on, handles, count, answer, late, machines>>

Unset(d) ==
    /\ pc[d] = "unset"
    /\ handles' = Set(handles, d, NoHandle)
    /\ handle' = Set(handle, d, NoHandle)
    /\ Goto(d, "rest")
    /\ UNCHANGED <<conn, running, power_on, count, answer, late, machines>>

RestOnce(d) ==
    /\ pc[d] = "rest"
    /\ Goto(d, "done")
    /\ UNCHANGED <<conn, running, handles, power_on, localVars>>

\* The pause polls the flag; a plugin that still runs starts the next activation.
Rest(d) ==
    /\ pc[d] = "rest"
    /\ Goto(d, IF running THEN "start" ELSE "done")
    /\ UNCHANGED <<conn, running, handles, power_on, localVars>>

-----------------------------------------------------------------------------
\* The steps of the collector goroutine of d.
Step(d) ==
    \/ Start(d) \/ Connect(d) \/ TakeGlobal(d) \/ FreeOld(d) \/ ClearOld(d)
    \/ TakeAnswer(d) \/ Timeout(d)
    \/ Collect(d) \/ Probe(d) \/ ReadTag(d) \/ Publish(d)
    \/ Release(d) \/ Unset(d) \/ Rest(d)

\* The steps of the goroutines inside the library.
Library(d) == GetHandle(d) \/ LateAnswer(d)

\* EndPlugin clears the flag; HandleRelease models the rest of it.
Stop ==
    /\ running
    /\ running' = FALSE
    /\ UNCHANGED <<conn, pc, handles, power_on, localVars>>

AllDone == \A d \in Devices : pc[d] = "done"

Ended == AllDone /\ UNCHANGED vars

Next ==
    \/ \E d \in Devices : Step(d) \/ Library(d)
    \/ Stop
    \/ Ended

\* Every call of the goroutine returns and every timer fires, so a collector
\* that can take a step takes one.  Nothing is assumed of the library's answers
\* or of the operator who stops the plugin.
Fairness == \A d \in Devices : WF_vars(Step(d))

Spec == Init /\ [][Next]_vars
FairSpec == Spec /\ Fairness
-----------------------------------------------------------------------------
(* Correctness.                                                            *)

TypeOK ==
    /\ conn \in [Handles -> Devices \union {NoDevice}]
    /\ running \in BOOLEAN
    /\ pc \in [Devices -> PC]
    /\ handle \in [Devices -> Handles \union {NoHandle}]
    /\ handles \in [Devices -> Handles \union {NoHandle}]
    /\ count \in [Devices -> Nat]
    /\ answer \in [Devices -> Handles \union {NoHandle, Pending}]
    /\ late \in [Devices -> BOOLEAN]
    /\ machines \in [Devices -> SUBSET (Devices \union {NoDevice})]
    /\ power_on \in [Devices -> {"none", "off", "on"}]

\* The places where DataCollector works with its local handle.
Using == {"free", "collect", "probe", "read", "release"}
Online == {"collect", "probe", "read"}

\* The handle a collector reads with or frees is open and leads to its own CNC,
\* although numbers are reused as soon as they are free; so everything a scan
\* has read comes from that CNC.
HoldsOwnHandle ==
    \A d \in Devices :
        /\ pc[d] \in Using => /\ handle[d] \in Handles
                              /\ conn[handle[d]] = d
        /\ machines[d] \subseteq {d}

\* A number that an activation left in the global slice still names a
\* connection of the same device when the next activation, or the end of the
\* plugin, frees it.
RemembersOwnHandle ==
    \A d \in Devices :
        pc[d] \in {"start", "connect", "take", "rest", "done"}
            => \/ handles[d] = NoHandle
               \/ handles[d] \in Handles /\ conn[handles[d]] = d

\* While the plugin runs, a device whose collector is not in its collection
\* loop is shown as switched off: every way out of the loop, and every way of
\* not getting into it, prints the power-off record.
OffWhileAway ==
    \A d \in Devices : power_on[d] = "on" => pc[d] \in Online \/ ~running

\* What the plugin can still free: some variable holds the number.  A number
\* that was just freed and is about to be set to 0 does not count.
Referenced(h) ==
    \E d \in Devices :
        \/ answer[d] = h
        \/ pc[d] \notin {"clear", "unset"} /\ h \in {handle[d], handles[d]}

\* An open connection is lost from sight only inside GetHandleWithTimeout (a
\* timeout that beats an answer, an answer that overwrites a number that could
\* not be freed); a failed free, a failed probe or a restart loses none.
KeepsTrack ==
    [][\A h \in Handles :
          conn[h] # NoDevice /\ conn'[h] = conn[h] /\ Referenced(h) /\ ~Referenced(h)'
              => pc[conn[h]] = "wait"]_vars

\* A stopped plugin ends: no collector goes on for ever, wherever it stood when
\* the flag was cleared and however the CNC and the library behave.
StopEnds == ~running ~> AllDone

\* How far each place is from the end once the flag is cleared.
ToGo == [done |-> 0, start |-> 1, rest |-> 1, unset |-> 2, release |-> 3, collect |-> 4,
         read |-> 5, probe |-> 6, wait |-> 7, clear |-> 8, free |-> 9, take |-> 10,
         connect |-> 11]

\* A step of d that brings it nearer to its end, is one more of the attempts its loop
\* allows, or reads another tag of the scan under way.
Nearer(d) ==
    \/ ToGo[pc'[d]] < ToGo[pc[d]]
    \/ /\ pc'[d] = pc[d]
       /\ \/ pc[d] = "connect" /\ count'[d] < MaxConnect
          \/ pc[d] = "wait" /\ count'[d] < MaxGetHandle
       /\ count'[d] > count[d]
    \/ /\ pc'[d] = "read" /\ pc[d] = "read"
       /\ machines[d] \subseteq machines'[d]

\* Once the flag is cleared a collector goes one way only: each of its steps brings it
\* nearer to its end.  It opens no second session and starts no loop again, so StopEnds
\* does not depend on how often the device or the library fails.
WindsDown == [][\A d \in Devices : ~running /\ Step(d) => Nearer(d)]_vars

\* A step on which an attempt of d fails.
Fails(d) ==
    \/ count'[d] > count[d]
    \/ pc'[d] \in {"rest", "release"} /\ pc'[d] # pc[d]

\* The collector of a device that stops failing gets through to the device
\* again and scans it for ever, unless the plugin is stopped.
Recovers ==
    \A d \in Devices :
        <>[][~Fails(d)]_vars => <>(~running) \/ []<>(pc[d] = "read")

\* The collectors implement the feed: a session is the collection loop.
Feed == INSTANCE DeviceFeed WITH online <- {d \in Devices : pc[d] \in Online},
                                 shown <- power_on

\* What the reader of the output relies on (DeviceFeed) holds of what the
\* collectors print, whatever fails and whenever the plugin is stopped.
ImplementsFeed == Feed!Spec

\* "// free handle" (fanuc_data.go:141) and the comments that follow it: what an
\* activation opened is freed, or kept for the next one, when it returns.
NoLostHandle ==
    \A d \in Devices :
        pc[d] \in {"rest", "done"} /\ ~late[d]
            => \A h \in Handles : conn[h] = d => handles[d] = h
=============================================================================

---------------------------- MODULE PluginProofs ----------------------------
(***************************************************************************)
(* Proofs about the plugin as a process, for any number of devices, handle *)
(* numbers, attempts and restarts.                                         *)
(*                                                                         *)
(* What CollectorProofs says of a step of the collectors is proved here    *)
(* again where it is needed with EndPlugin and the recovery beside it.     *)
(***************************************************************************)
EXTENDS Plugin, FiniteSetTheorems, TLAPS

-----------------------------------------------------------------------------
(* Typing, and the places of EndPlugin and the recovery.                   *)

\* Until the stop no EndPlugin is at work, and the record is what was read of it.
PlaceInv ==
    /\ \A e \in Release!Enders :
          /\ running => stage[e] \in {"listen", "deaf"}
          /\ stage[e] = "record" => index[e] \in Devices
          /\ stage[e] \in {"open", "fill", "ended"} => index[e] \notin Devices
    /\ recovery \in {"stat", "read"} => tried = 0
    /\ recovery = "remove" => tried = Len(extra)
    /\ running /\ recovery \in {"free", "remove"}
          => extra = files[PluginDir] /\ extra \notin {Absent, Torn}

\* A step of a collector or of the library for it keeps its variables typed.
LEMMA CollectorTypes ==
    ASSUME Collectors!TypeOK, NEW d \in Devices, Collectors!Step(d) \/ Collectors!Library(d)
    PROVE  Collectors!TypeOK'
<1> USE DEF Collectors!TypeOK, Collectors!PC, Collectors!localVars
<1>1. CASE Collectors!Start(d)
  BY <1>1 DEF Collectors!Start, Collectors!Goto, Collectors!Show, Collectors!localVars
<1>2. CASE Collectors!Connect(d)
  BY <1>2 DEF Collectors!Connect, Collectors!Goto, Collectors!Show, Collectors!Set,
     Collectors!Retry, Collectors!GivesUp
<1>3. CASE Collectors!TakeGlobal(d)
  BY <1>3 DEF Collectors!TakeGlobal, Collectors!Goto, Collectors!Set, Collectors!AskForHandle
<1>4. CASE Collectors!FreeOld(d)
  BY <1>4 DEF Collectors!FreeOld, Collectors!Goto, Collectors!Set, Collectors!AskForHandle,
     Collectors!cnc_freelibhndl, Collectors!Open
<1>5. CASE Collectors!ClearOld(d)
  BY <1>5 DEF Collectors!ClearOld, Collectors!Goto, Collectors!Set, Collectors!AskForHandle
<1>6. CASE Collectors!TakeAnswer(d)
  BY <1>6 DEF Collectors!TakeAnswer, Collectors!Goto, Collectors!Show, Collectors!Set,
     Collectors!HandleRefused, Collectors!Retry, Collectors!GivesUp
<1>7. CASE Collectors!Timeout(d)
  BY <1>7 DEF Collectors!Timeout, Collectors!Goto, Collectors!Show, Collectors!Set,
     Collectors!HandleRefused, Collectors!Retry, Collectors!GivesUp
<1>8. CASE Collectors!Collect(d)
  BY <1>8 DEF Collectors!Collect, Collectors!Goto, Collectors!localVars
<1>9. CASE Collectors!Probe(d)
  BY <1>9 DEF Collectors!Probe, Collectors!Goto, Collectors!Show, Collectors!Set,
     Collectors!Retry, Collectors!GivesUp
<1>10. CASE Collectors!ReadTag(d)
  BY <1>10 DEF Collectors!ReadTag, Collectors!Set, Collectors!Open
<1>11. CASE Collectors!Publish(d)
  BY <1>11 DEF Collectors!Publish, Collectors!Goto, Collectors!Show, Collectors!Set,
     Collectors!Retry, Collectors!GivesUp
<1>12. CASE Collectors!Release(d)
  BY <1>12 DEF Collectors!Release, Collectors!Goto, Collectors!Set, Collectors!cnc_freelibhndl,
     Collectors!Open
<1>13. CASE Collectors!Unset(d)
  BY <1>13 DEF Collectors!Unset, Collectors!Goto, Collectors!Set
<1>14. CASE Collectors!Rest(d)
  BY <1>14 DEF Collectors!Rest, Collectors!Goto, Collectors!localVars
<1>15. CASE Collectors!GetHandle(d)
  BY <1>15 DEF Collectors!GetHandle, Collectors!Set, Collectors!cnc_allclibhndl3, Collectors!Open
<1>16. CASE Collectors!LateAnswer(d)
  BY <1>16 DEF Collectors!LateAnswer, Collectors!Set, Collectors!cnc_allclibhndl3, Collectors!Open
<1> QED
  BY <1>1, <1>2, <1>3, <1>4, <1>5, <1>6, <1>7, <1>8, <1>9, <1>10, <1>11, <1>12, <1>13, <1>14,
     <1>15, <1>16 DEF Collectors!Step, Collectors!Library

LEMMA CollectingKeeps ==
    ASSUME TypeOK, PlaceInv, NEW d \in Devices, Collecting(d)
    PROVE  (TypeOK /\ PlaceInv)'
<1>1. Collectors!TypeOK'
  BY CollectorTypes DEF TypeOK, Collecting
<1>2. running' = running
  BY DEF Collecting, Collectors!Step, Collectors!Library,
     Collectors!Start, Collectors!Connect, Collectors!TakeGlobal, Collectors!FreeOld,
     Collectors!ClearOld, Collectors!TakeAnswer, Collectors!Timeout, Collectors!Collect,
     Collectors!Probe, Collectors!ReadTag, Collectors!Publish, Collectors!Release,
     Collectors!Unset, Collectors!Rest, Collectors!GetHandle, Collectors!LateAnswer
<1> QED
  BY <1>1, <1>2 DEF Collecting, TypeOK, PlaceInv, releaseVars, processVars, historyVars

\* EndPlugin and the recovery leave the collectors' own variables alone.
LEMMA CollectorsUntouched ==
    ASSUME TypeOK, UNCHANGED collectorVars, UNCHANGED handles, running' \in BOOLEAN,
           \/ UNCHANGED conn
           \/ \E h \in Handles : conn' = [conn EXCEPT ![h] = NoDevice]
    PROVE  Collectors!TypeOK'
<1>1. conn' \in [Handles -> Devices \union {NoDevice}]
  BY DEF TypeOK, Collectors!TypeOK
<1> QED
  BY <1>1 DEF TypeOK, Collectors!TypeOK, collectorVars

\* The listeners change the flag and their places.
LEMMA ListeningKeeps ==
    ASSUME TypeOK, PlaceInv, Listening
    PROVE  (TypeOK /\ PlaceInv)'
<1>1. UNCHANGED <<conn, handles, index, unfreed, files, recovery, extra, tried>>
  BY DEF Listening, Release!StdinByte, Release!EndPlugin
<1>2. PICK e \in Release!Enders :
          /\ stage[e] = "listen"
          /\ \/ stage' = [stage EXCEPT ![e] = "deaf"] /\ running' = running
             \/ stage' = [stage EXCEPT ![e] = "sleep"] /\ running' = FALSE
  BY DEF Listening, Release!StdinByte, Release!EndPlugin, Release!At, Release!Enders
<1>3. UNCHANGED <<processVars, collectorVars>> /\ running' \in BOOLEAN
  BY <1>2 DEF Listening, TypeOK, Collectors!TypeOK
<1>4. Collectors!TypeOK'
  BY <1>1, <1>3, CollectorsUntouched
<1>5. TypeOK'
  BY <1>1, <1>2, <1>3, <1>4 DEF TypeOK, processVars, historyVars
<1>6. PlaceInv'
  <2>1. ASSUME NEW f \in Release!Enders
        PROVE  /\ running' => stage'[f] \in {"listen", "deaf"}
               /\ stage'[f] = "record" => index'[f] \in Devices
               /\ stage'[f] \in {"open", "fill", "ended"} => index'[f] \notin Devices
    BY <1>1, <1>2 DEF TypeOK, PlaceInv
  <2>2. running' => running
    BY <1>2
  <2> QED
    BY <1>1, <2>1, <2>2 DEF PlaceInv
<1> QED
  BY <1>5, <1>6

\* A step of EndPlugin, which comes after the stop.
LEMMA EndingKeeps ==
    ASSUME TypeOK, PlaceInv, NEW e \in Release!Enders, Ending(e)
    PROVE  (TypeOK /\ PlaceInv)'
<1> USE DEF Release!FreeAllHandles, Release!FreeNext, Release!Record, Release!AllTried,
            Release!OpenRecord, Release!FillRecord, Release!At
<1>1. /\ UNCHANGED <<running, handles, recovery, extra, tried, main, restarts, outdated>>
      /\ UNCHANGED collectorVars
      /\ ~running
  BY DEF Ending, Release!Ending, PlaceInv, TypeOK, Collectors!TypeOK
<1>2. UNCHANGED conn \/ \E h \in Handles : conn' = [conn EXCEPT ![h] = NoDevice]
  BY DEF Ending, Release!Ending, Release!cnc_freelibhndl, Release!Open
<1>3. Collectors!TypeOK'
  BY <1>1, <1>2, CollectorsUntouched DEF TypeOK, Collectors!TypeOK
<1>4. quiet' \in [Release!Enders -> BOOLEAN]
  BY DEF Ending, TypeOK
<1>5. files' \in [Release!Dirs -> Records]
  BY DEF Ending, Release!Ending, TypeOK, Records, Release!Dirs
<1>6. unfreed' \in [Release!Enders -> Seq(Handles \union {NoHandle})]
  <2>1. CASE Release!Record(e)
    <3>1. handles[index[e]] \in Handles \union {NoHandle}
      BY <2>1 DEF TypeOK, PlaceInv, Collectors!TypeOK
    <3> QED
      BY <2>1, <3>1 DEF TypeOK
  <2>2. CASE ~Release!Record(e)
    BY <2>2 DEF Ending, Release!Ending, TypeOK
  <2> QED
    BY <2>1, <2>2
<1>7. index' \in [Release!Enders -> 1 .. NumDevices + 1]
  <2>1. CASE index' = index
    BY <2>1 DEF TypeOK
  <2>2. CASE index' # index
    <3>1. index[e] \in Devices /\ index' = [index EXCEPT ![e] = index[e] + 1]
      BY <2>2 DEF Ending, Release!Ending, PlaceInv
    <3>2. index[e] + 1 \in 1 .. NumDevices + 1
      BY <3>1, PluginAssumption
    <3> QED
      BY <3>1, <3>2 DEF TypeOK
  <2> QED
    BY <2>1, <2>2
<1>8. stage' \in [Release!Enders -> {"listen", "deaf", "sleep", "free", "record",
                                     "open", "fill", "ended"}]
  BY DEF Ending, Release!Ending, TypeOK
<1>9. TypeOK'
  BY <1>1, <1>3, <1>4, <1>5, <1>6, <1>7, <1>8 DEF TypeOK
<1>10. PlaceInv'
  <2> SUFFICES ASSUME NEW f \in Release!Enders
               PROVE  /\ stage'[f] = "record" => index'[f] \in Devices
                      /\ stage'[f] \in {"open", "fill", "ended"} => index'[f] \notin Devices
    BY <1>1 DEF PlaceInv
  <2>1. CASE f # e
    BY <2>1 DEF Ending, Release!Ending, TypeOK, PlaceInv
  <2>2. CASE f = e
    BY <2>2 DEF Ending, Release!Ending, TypeOK, PlaceInv
  <2> QED
    BY <2>1, <2>2
<1> QED
  BY <1>9, <1>10

LEMMA RecoveringKeeps ==
    ASSUME TypeOK, PlaceInv, Recovering
    PROVE  (TypeOK /\ PlaceInv)'
<1> USE DEF Recovering, Release!Recovering, Release!StatRecord, Release!ReadRecord,
            Release!FreeExtra, Release!AllExtraFreed, Release!RemoveRecord
<1>1. UNCHANGED <<running, handles, stage, index, unfreed, processVars, collectorVars>>
  OBVIOUS
<1>2. UNCHANGED conn \/ \E h \in Handles : conn' = [conn EXCEPT ![h] = NoDevice]
  BY DEF Release!cnc_freelibhndl, Release!Open
<1>3. Collectors!TypeOK'
  BY <1>1, <1>2, CollectorsUntouched DEF TypeOK, Collectors!TypeOK
<1>4. /\ files' \in [Release!Dirs -> Records]
      /\ recovery' \in {"stat", "read", "free", "remove", "ended"}
  BY DEF TypeOK, Records
<1>5. extra' \in Seq(Handles \union {NoHandle})
  BY DEF TypeOK, Records, Release!Dirs
<1>6. tried' \in 0 .. Len(extra')
  BY <1>5 DEF TypeOK, PlaceInv
<1>7. TypeOK'
  BY <1>1, <1>3, <1>4, <1>5, <1>6 DEF TypeOK, processVars, historyVars
<1>8. /\ recovery' \in {"stat", "read"} => tried' = 0
      /\ recovery' = "remove" => tried' = Len(extra')
      /\ running /\ recovery' \in {"free", "remove"}
            => extra' = files'[PluginDir] /\ extra' \notin {Absent, Torn}
  BY DEF PlaceInv
<1>9. PlaceInv'
  BY <1>1, <1>8 DEF PlaceInv
<1> QED
  BY <1>7, <1>9

LEMMA RestartKeeps ==
    ASSUME TypeOK, PlaceInv, Restart
    PROVE  (TypeOK /\ PlaceInv)'
<1>1. Collectors!TypeOK'
  BY DEF TypeOK, Collectors!TypeOK, Collectors!PC, Restart, Open
<1>2. /\ outdated' \subseteq Handles
      /\ restarts' \in 0 .. MaxRestarts
      /\ extra' = <<>> /\ tried' = 0
  BY PluginAssumption DEF TypeOK, Restart
<1>3. 1 \in 1 .. NumDevices + 1
  BY PluginAssumption
<1> QED
  BY <1>1, <1>2, <1>3, PluginAssumption DEF Restart, TypeOK, PlaceInv

LEMMA TypedInit == Init => TypeOK /\ PlaceInv
<1> SUFFICES ASSUME Init PROVE TypeOK /\ PlaceInv
  OBVIOUS
<1>1. Collectors!TypeOK
  BY DEF Init, Collectors!Init, Collectors!TypeOK, Collectors!PC
<1>2. 1 \in 1 .. NumDevices + 1 /\ 0 \in 0 .. MaxRestarts
  BY PluginAssumption
<1> QED
  BY <1>1, <1>2 DEF Init, Release!ReleaseInit, TypeOK, PlaceInv, Records

LEMMA TypedNext == TypeOK /\ PlaceInv /\ [Next]_vars => (TypeOK /\ PlaceInv)'
<1> SUFFICES ASSUME TypeOK, PlaceInv, [Next]_vars PROVE (TypeOK /\ PlaceInv)'
  OBVIOUS
<1>1. CASE Exit \/ Crash
  BY <1>1 DEF Exit, Crash, TypeOK, PlaceInv, Collectors!TypeOK, historyVars, collectorVars, releaseVars
<1>2. CASE UNCHANGED vars
  BY <1>2 DEF vars, TypeOK, PlaceInv, Collectors!TypeOK, processVars, historyVars, collectorVars,
              releaseVars
<1> QED
  BY <1>1, <1>2, CollectingKeeps, ListeningKeeps, EndingKeeps, RecoveringKeeps, RestartKeeps DEF Next, Over

LEMMA TypedAlways == Spec => [](TypeOK /\ PlaceInv)
BY TypedInit, TypedNext, PTL DEF Spec

\* Every variable of the plugin keeps its type, over every number of restarts.
THEOREM PluginTypeCorrect == Spec => []TypeOK
BY TypedAlways, PTL

-----------------------------------------------------------------------------
(* The record of an earlier process.                                       *)

\* Until the stop only the recovery touches the file, and only after it has worked off
\* what it read there.
THEOREM RecordIsAlwaysKept == Spec => RecordIsKept
<1> DEFINE Kept == running /\ main = "up" /\ files' # files
                      => /\ files' = [files EXCEPT ![PluginDir] = Absent]
                         /\ extra = files[PluginDir]
                         /\ tried = Len(extra)
<1>1. ASSUME TypeOK, PlaceInv, [Next]_vars PROVE [Kept]_vars
  <2> SUFFICES ASSUME running, main = "up", files' # files
               PROVE  /\ files' = [files EXCEPT ![PluginDir] = Absent]
                      /\ extra = files[PluginDir] /\ tried = Len(extra)
    OBVIOUS
  <2>1. ASSUME NEW e \in Release!Enders, Ending(e) PROVE FALSE
    BY <1>1, <2>1 DEF PlaceInv, Ending, Release!Ending, Release!FreeAllHandles, Release!FreeNext,
       Release!Record, Release!AllTried, Release!OpenRecord, Release!FillRecord
  <2>2. CASE Recovering
    <3>1. Release!RemoveRecord
      BY <2>2 DEF Recovering, Release!Recovering, Release!StatRecord, Release!ReadRecord,
                  Release!FreeExtra, Release!AllExtraFreed
    <3> QED
      BY <1>1, <3>1 DEF Release!RemoveRecord, PlaceInv
  <2> QED
    BY <1>1, <2>1, <2>2 DEF Next, Collecting, Listening, Release!StdinByte, Release!EndPlugin,
       Exit, Crash, Restart, Over, vars
<1> QED
  BY <1>1, TypedAlways, PTL DEF Spec, RecordIsKept

-----------------------------------------------------------------------------
(* Until the stop the collectors are disturbed by nobody: what is known of *)
(* a collector alone (CollectorProofs) is known of it here, and the         *)
(* recovery frees only connections that no collector has a number of.  For  *)
(* that the numbers it has still to free must be open, so that the library  *)
(* hands none of them out, and different, so that none is freed twice.      *)

OwnInUse(d) ==
    pc[d] \in Collectors!Using => /\ handle[d] \in Handles
                                  /\ handles[d] = handle[d]
                                  /\ conn[handle[d]] = d

Resting(d) == pc[d] \notin Collectors!Using \union {"clear", "unset"}

OwnAtRest(d) ==
    Resting(d) => \/ handles[d] = NoHandle
                  \/ handles[d] \in Handles /\ conn[handles[d]] = d

NoneLeftOver(d) ==
    Resting(d) => \/ handle[d] = NoHandle
                  \/ pc[d] = "wait" /\ handle[d] = handles[d]

OwnAnswer(d) ==
    /\ answer[d] # NoHandle => pc[d] = "wait"
    /\ answer[d] \in Handles => conn[answer[d]] = d

Own(d) ==
    /\ OwnInUse(d) /\ OwnAtRest(d) /\ NoneLeftOver(d) /\ OwnAnswer(d)
    /\ machines[d] \subseteq {d}

Numbers(d) == {handle[d], handles[d], answer[d]}

\* The recovery has still to free number i of the record found at the start.
ToFree(i) ==
    /\ recovery \in {"stat", "read", "free"}
    /\ files[PluginDir] \notin {Absent, Torn}
    /\ i \in DOMAIN files[PluginDir]
    /\ i > tried

Entry(i) == files[PluginDir][i]

LeftBehind(i) ==
    Entry(i) \in Handles =>
        /\ Entry(i) \in Open
        /\ \A d \in Devices : Entry(i) \notin Numbers(d)
        /\ \A j \in Nat : ToFree(j) /\ j # i => Entry(j) # Entry(i)

RunInv ==
    running /\ outdated = {} => /\ \A d \in Devices : Own(d)
                                /\ \A i \in Nat : ToFree(i) => LeftBehind(i)

\* What a step for e does to the connections and to the numbers of the devices.
LEMMA CollectorEffect ==
    ASSUME Collectors!TypeOK, NEW e \in Devices, Collectors!Step(e) \/ Collectors!Library(e)
    PROVE  /\ running' = running
           /\ \A d \in Devices \ {e} :
                 /\ pc'[d] = pc[d] /\ Numbers(d)' = Numbers(d) /\ machines'[d] = machines[d]
                 /\ handle'[d] = handle[d] /\ handles'[d] = handles[d] /\ answer'[d] = answer[d]
           /\ Numbers(e)' \subseteq Numbers(e) \union {NoHandle, Pending} \union (Handles \ Open)
           /\ \/ conn' = conn
              \/ pc[e] \in Collectors!Using /\ conn' = [conn EXCEPT ![handle[e]] = NoDevice]
              \/ \E h \in Handles \ Open : conn' = [conn EXCEPT ![h] = e]
<1> USE DEF Collectors!TypeOK, Numbers, Open, Collectors!Using
<1>1. CASE Collectors!Start(e)
  BY <1>1 DEF Collectors!Start, Collectors!Goto, Collectors!Show, Collectors!localVars
<1>2. CASE Collectors!Connect(e)
  BY <1>2 DEF Collectors!Connect, Collectors!Goto, Collectors!Show, Collectors!Set,
     Collectors!Retry, Collectors!GivesUp
<1>3. CASE Collectors!TakeGlobal(e)
  BY <1>3 DEF Collectors!TakeGlobal, Collectors!Goto, Collectors!Set,
     Collectors!AskForHandle
<1>4. CASE Collectors!FreeOld(e)
  BY <1>4 DEF Collectors!FreeOld, Collectors!Goto, Collectors!Set,
     Collectors!AskForHandle, Collectors!cnc_freelibhndl, Collectors!Open,
     Collectors!Freed, Collectors!FreeCodes, Collectors!EW_OK, Collectors!EW_BUSY,
     Collectors!EW_HANDLE
<1>5. CASE Collectors!ClearOld(e)
  BY <1>5 DEF Collectors!ClearOld, Collectors!Goto, Collectors!Set,
     Collectors!AskForHandle
<1>6. CASE Collectors!TakeAnswer(e)
  BY <1>6 DEF Collectors!TakeAnswer, Collectors!Goto, Collectors!Show, Collectors!Set,
     Collectors!HandleRefused, Collectors!Retry, Collectors!GivesUp
<1>7. CASE Collectors!Timeout(e)
  BY <1>7 DEF Collectors!Timeout, Collectors!Goto, Collectors!Show, Collectors!Set,
     Collectors!HandleRefused, Collectors!Retry, Collectors!GivesUp
<1>8. CASE Collectors!Collect(e)
  BY <1>8 DEF Collectors!Collect, Collectors!Goto, Collectors!localVars
<1>9. CASE Collectors!Probe(e)
  BY <1>9 DEF Collectors!Probe, Collectors!Goto, Collectors!Show, Collectors!Set,
     Collectors!Retry, Collectors!GivesUp
<1>10. CASE Collectors!ReadTag(e)
  BY <1>10 DEF Collectors!ReadTag, Collectors!Set, Collectors!Open
<1>11. CASE Collectors!Publish(e)
  BY <1>11 DEF Collectors!Publish, Collectors!Goto, Collectors!Show, Collectors!Set,
     Collectors!Retry, Collectors!GivesUp
<1>12. CASE Collectors!Release(e)
  BY <1>12 DEF Collectors!Release, Collectors!Goto, Collectors!Set,
     Collectors!cnc_freelibhndl, Collectors!Open, Collectors!Freed, Collectors!FreeCodes,
     Collectors!EW_OK, Collectors!EW_BUSY, Collectors!EW_HANDLE
<1>13. CASE Collectors!Unset(e)
  BY <1>13 DEF Collectors!Unset, Collectors!Goto, Collectors!Set
<1>14. CASE Collectors!Rest(e)
  BY <1>14 DEF Collectors!Rest, Collectors!Goto, Collectors!localVars
<1>15. CASE Collectors!GetHandle(e)
  BY <1>15 DEF Collectors!GetHandle, Collectors!Set, Collectors!cnc_allclibhndl3,
     Collectors!Open
<1>16. CASE Collectors!LateAnswer(e)
  BY <1>16 DEF Collectors!LateAnswer, Collectors!Set, Collectors!cnc_allclibhndl3,
     Collectors!Open
<1> QED
  BY <1>1, <1>2, <1>3, <1>4, <1>5, <1>6, <1>7, <1>8, <1>9, <1>10, <1>11, <1>12, <1>13,
     <1>14, <1>15, <1>16 DEF Collectors!Step, Collectors!Library

\* A step for a device keeps its own part.
LEMMA OwnStep ==
    ASSUME Collectors!TypeOK, NEW d \in Devices, Own(d), Collectors!Step(d) \/ Collectors!Library(d)
    PROVE  Own(d)'
<1> USE FocasAssumption, PluginAssumption
    DEF Collectors!TypeOK, Own, OwnInUse, OwnAtRest, NoneLeftOver, OwnAnswer, Resting, Collectors!Using
<1>1. CASE Collectors!Start(d)
  BY <1>1 DEF Collectors!Start, Collectors!Goto, Collectors!Show, Collectors!localVars
<1>2. CASE Collectors!Connect(d)
  BY <1>2 DEF Collectors!Connect, Collectors!Goto, Collectors!Show, Collectors!Set,
     Collectors!Retry, Collectors!GivesUp
<1>3. CASE Collectors!TakeGlobal(d)
  BY <1>3 DEF Collectors!TakeGlobal, Collectors!Goto, Collectors!Set,
     Collectors!AskForHandle
<1>4. CASE Collectors!FreeOld(d)
  BY <1>4 DEF Collectors!FreeOld, Collectors!Goto, Collectors!Set,
     Collectors!AskForHandle, Collectors!cnc_freelibhndl, Collectors!Open,
     Collectors!Freed, Collectors!FreeCodes, Collectors!EW_OK, Collectors!EW_BUSY,
     Collectors!EW_HANDLE
<1>5. CASE Collectors!ClearOld(d)
  BY <1>5 DEF Collectors!ClearOld, Collectors!Goto, Collectors!Set,
     Collectors!AskForHandle
<1>6. CASE Collectors!TakeAnswer(d)
  BY <1>6 DEF Collectors!TakeAnswer, Collectors!Goto, Collectors!Show, Collectors!Set,
     Collectors!HandleRefused, Collectors!Retry, Collectors!GivesUp
<1>7. CASE Collectors!Timeout(d)
  BY <1>7 DEF Collectors!Timeout, Collectors!Goto, Collectors!Show, Collectors!Set,
     Collectors!HandleRefused, Collectors!Retry, Collectors!GivesUp
<1>8. CASE Collectors!Collect(d)
  BY <1>8 DEF Collectors!Collect, Collectors!Goto, Collectors!localVars
<1>9. CASE Collectors!Probe(d)
  BY <1>9 DEF Collectors!Probe, Collectors!Goto, Collectors!Show, Collectors!Set,
     Collectors!Retry, Collectors!GivesUp
<1>10. CASE Collectors!ReadTag(d)
  BY <1>10 DEF Collectors!ReadTag, Collectors!Set, Collectors!Open
<1>11. CASE Collectors!Publish(d)
  BY <1>11 DEF Collectors!Publish, Collectors!Goto, Collectors!Show, Collectors!Set,
     Collectors!Retry, Collectors!GivesUp
<1>12. CASE Collectors!Release(d)
  BY <1>12 DEF Collectors!Release, Collectors!Goto, Collectors!Set,
     Collectors!cnc_freelibhndl, Collectors!Open, Collectors!Freed, Collectors!FreeCodes,
     Collectors!EW_OK, Collectors!EW_BUSY, Collectors!EW_HANDLE
<1>13. CASE Collectors!Unset(d)
  BY <1>13 DEF Collectors!Unset, Collectors!Goto, Collectors!Set
<1>14. CASE Collectors!Rest(d)
  BY <1>14 DEF Collectors!Rest, Collectors!Goto, Collectors!localVars
<1>15. CASE Collectors!GetHandle(d)
  BY <1>15 DEF Collectors!GetHandle, Collectors!Set, Collectors!cnc_allclibhndl3,
     Collectors!Open
<1>16. CASE Collectors!LateAnswer(d)
  BY <1>16 DEF Collectors!LateAnswer, Collectors!Set, Collectors!cnc_allclibhndl3,
     Collectors!Open
<1> QED
  BY <1>1, <1>2, <1>3, <1>4, <1>5, <1>6, <1>7, <1>8, <1>9, <1>10, <1>11, <1>12, <1>13,
     <1>14, <1>15, <1>16 DEF Collectors!Step, Collectors!Library

\* A device keeps its part when its variables and its connections stay.
LEMMA Frame ==
    ASSUME TypeOK, NEW d \in Devices, Own(d),
           pc'[d] = pc[d], handle'[d] = handle[d], handles'[d] = handles[d],
           answer'[d] = answer[d], machines'[d] = machines[d],
           \A h \in Numbers(d) \intersect Handles : conn[h] = d => conn'[h] = d
    PROVE  Own(d)'
BY PluginAssumption
   DEF TypeOK, Collectors!TypeOK, Own, OwnInUse, OwnAtRest, NoneLeftOver, OwnAnswer, Resting,
       Numbers, Collectors!Using

LEMMA CollectingRuns ==
    ASSUME TypeOK, PlaceInv, RunInv, NEW e \in Devices, Collecting(e), running', outdated' = {}
    PROVE  RunInv'
<1>1. /\ Collectors!Step(e) \/ Collectors!Library(e)
      /\ UNCHANGED <<files, recovery, tried, outdated>>
  BY DEF Collecting, releaseVars, processVars, historyVars
<1>2. Collectors!TypeOK
  BY DEF TypeOK
<1> DEFINE Effect ==
             \/ conn' = conn
             \/ pc[e] \in Collectors!Using /\ conn' = [conn EXCEPT ![handle[e]] = NoDevice]
             \/ \E h \in Handles \ Open : conn' = [conn EXCEPT ![h] = e]
           Others ==
             \A d \in Devices \ {e} :
                 /\ pc'[d] = pc[d] /\ Numbers(d)' = Numbers(d) /\ machines'[d] = machines[d]
                 /\ handle'[d] = handle[d] /\ handles'[d] = handles[d] /\ answer'[d] = answer[d]
           Numbered == Numbers(e)' \subseteq Numbers(e) \union {NoHandle, Pending} \union (Handles \ Open)
<1>3. running' = running /\ Others /\ Numbered /\ Effect
  BY <1>1, <1>2, CollectorEffect
<1>4. /\ \A d \in Devices : Own(d)
      /\ \A i \in Nat : ToFree(i) => LeftBehind(i)
  BY <1>1, <1>3 DEF RunInv
<1>5. ASSUME NEW d \in Devices PROVE Own(d)'
  <2>1. CASE d = e
    BY <1>1, <1>2, <1>4, <2>1, OwnStep
  <2>2. CASE d # e
    <3>1. ASSUME NEW h \in Handles, conn[h] = d PROVE conn'[h] = d
      BY <1>2, <1>3, <1>4, <2>2, <3>1, FocasAssumption DEF Collectors!TypeOK, Own, OwnInUse, Open
    <3> HIDE DEF Effect, Numbered
    <3> QED
      BY <1>3, <1>4, <2>2, <3>1, Frame
  <2> QED
    BY <2>1, <2>2
<1>6. ASSUME NEW i \in Nat, ToFree(i)', Entry(i)' \in Handles PROVE LeftBehind(i)'
  <2>1. /\ \A j \in Nat : ToFree(j)' <=> ToFree(j)
        /\ \A j \in Nat : Entry(j)' = Entry(j)
    BY <1>1 DEF ToFree, Entry
  <2>2. Entry(i) \in Open /\ \A d \in Devices : Entry(i) \notin Numbers(d)
    BY <1>4, <1>6, <2>1 DEF LeftBehind
  <2>3. Entry(i) \in Open'
    <3>1. Entry(i) # handle[e]
      BY <2>2 DEF Numbers
    <3> QED
      BY <1>2, <1>3, <2>2, <3>1, FocasAssumption DEF Collectors!TypeOK, Open
  <2>4. ASSUME NEW d \in Devices PROVE Entry(i) \notin Numbers(d)'
    <3>1. CASE d = e
      <4>1. Entry(i) # NoHandle /\ Entry(i) # Pending
        BY <1>6, <2>1, FocasAssumption, PluginAssumption
      <4> QED
        BY <1>3, <2>2, <3>1, <4>1
    <3>2. CASE d # e
      BY <1>3, <2>2, <3>2
    <3> QED
      BY <3>1, <3>2
  <2> QED
    BY <1>4, <1>6, <2>1, <2>3, <2>4 DEF LeftBehind
<1> QED
  BY <1>5, <1>6 DEF RunInv, LeftBehind

\* The recovery frees the next number of the record and nothing else.
LEMMA RecoveringRuns ==
    ASSUME TypeOK, PlaceInv, RunInv, Recovering, running', outdated' = {}
    PROVE  RunInv'
<1>1. /\ UNCHANGED <<running, handles, collectorVars, outdated>>
  BY DEF Recovering, Release!Recovering, Release!StatRecord, Release!ReadRecord, Release!FreeExtra,
         Release!AllExtraFreed, Release!RemoveRecord, processVars, historyVars
<1>2. /\ \A d \in Devices : Own(d)
      /\ \A i \in Nat : ToFree(i) => LeftBehind(i)
  BY <1>1 DEF RunInv
<1>3. \A d \in Devices : Numbers(d)' = Numbers(d)
  BY <1>1 DEF Numbers, collectorVars
<1>4. CASE Release!FreeExtra
  <2> DEFINE n == tried + 1
  <2>1. /\ n \in Nat /\ tried \in Nat /\ n > tried
        /\ recovery = "free" /\ UNCHANGED <<files, recovery, extra>>
        /\ Entry(n) = extra[n]
        /\ n \in DOMAIN files[PluginDir]
    BY <1>1, <1>4 DEF Release!FreeExtra, TypeOK, PlaceInv, Entry
  <2>2. \/ tried' = n /\ Entry(n) \in Handles /\ conn' = [conn EXCEPT ![Entry(n)] = NoDevice]
        \/ tried' \in {tried, n} /\ conn' = conn
    BY <1>4, <2>1 DEF Release!FreeExtra, Release!cnc_freelibhndl, Release!Open, Release!Freed,
       Release!FreeCodes, Release!EW_OK, Release!EW_BUSY, Release!EW_HANDLE
  <2>3. /\ \A i \in Nat : ToFree(i)' => ToFree(i) /\ (tried' = n => i # n)
        /\ \A i \in Nat : Entry(i)' = Entry(i)
    BY <2>1, <2>2 DEF ToFree, Entry
  <2>4. ASSUME conn' # conn
        PROVE  /\ ToFree(n) /\ LeftBehind(n) /\ Entry(n) \in Handles
               /\ conn' = [conn EXCEPT ![Entry(n)] = NoDevice]
    <3>1. files[PluginDir] \notin {Absent, Torn}
      BY <1>1, <2>1 DEF PlaceInv
    <3>2. ToFree(n)
      BY <2>1, <3>1 DEF ToFree
    <3> QED
      BY <1>2, <2>1, <2>2, <2>4, <3>2
  <2>5. ASSUME NEW d \in Devices PROVE Own(d)'
    <3>1. \A h \in Numbers(d) \intersect Handles : conn[h] = d => conn'[h] = d
      BY <2>4 DEF LeftBehind, TypeOK, Collectors!TypeOK
    <3>2. /\ pc'[d] = pc[d] /\ handle'[d] = handle[d] /\ handles'[d] = handles[d]
          /\ answer'[d] = answer[d] /\ machines'[d] = machines[d]
      BY <1>1 DEF collectorVars
    <3> QED
      BY <1>2, <3>1, <3>2, Frame
  <2>6. ASSUME NEW i \in Nat, ToFree(i)', Entry(i)' \in Handles PROVE LeftBehind(i)'
    <3>1. ToFree(i) /\ LeftBehind(i) /\ Entry(i)' = Entry(i)
      BY <1>2, <2>3, <2>6
    <3>2. Entry(i) \in Open'
      <4>1. CASE conn' = conn
        BY <2>6, <3>1, <4>1 DEF LeftBehind, Open
      <4>2. CASE conn' # conn
        <5>1. i # n
          BY <2>2, <2>3, <2>6, <4>2
        <5>2. Entry(n) # Entry(i)
          BY <2>1, <2>4, <3>1, <4>2, <5>1 DEF LeftBehind
        <5> QED
          BY <2>4, <2>6, <3>1, <4>2, <5>2 DEF LeftBehind, Open, TypeOK, Collectors!TypeOK
      <4> QED
        BY <4>1, <4>2
    <3> QED
      BY <1>3, <2>3, <2>6, <3>1, <3>2 DEF LeftBehind
  <2> QED
    BY <2>5, <2>6 DEF RunInv, LeftBehind
<1>5. CASE ~Release!FreeExtra
  <2>1. /\ UNCHANGED <<conn, tried>>
        /\ \A i \in Nat : ToFree(i)' => ToFree(i) /\ files' = files
    BY <1>5 DEF Recovering, Release!Recovering, Release!StatRecord, Release!ReadRecord,
       Release!AllExtraFreed, Release!RemoveRecord, ToFree
  <2>2. \A d \in Devices : Own(d)'
    BY <1>1, <1>2, <2>1, Frame DEF collectorVars
  <2>3. ASSUME NEW i \in Nat, ToFree(i)' PROVE LeftBehind(i)'
    BY <1>2, <1>3, <2>1, <2>3 DEF LeftBehind, Entry, Open
  <2> QED
    BY <2>2, <2>3 DEF RunInv
<1> QED
  BY <1>4, <1>5

\* A new process: nothing is held yet, and what stands on record was open and
\* stands there once.
LEMMA RestartRuns ==
    ASSUME TypeOK, Restart, outdated' = {}
    PROVE  RunInv'
<1>1. \A d \in Devices : Own(d)' /\ Numbers(d)' = {NoHandle}
  BY FocasAssumption DEF Restart, Own, OwnInUse, OwnAtRest, NoneLeftOver, OwnAnswer, Resting, Numbers,
         Collectors!Using
<1>2. ASSUME NEW i \in Nat, ToFree(i)', Entry(i)' \in Handles PROVE LeftBehind(i)'
  <2> DEFINE h == Entry(i)
             record == files[PluginDir]
  <2>1. files' = files /\ h \in Handles /\ record \notin {Absent, Torn} /\ i \in DOMAIN record
    BY <1>2 DEF Restart, ToFree, Entry
  <2>2. i \in Entries(h)
    BY <2>1 DEF Entries, Entry
  <2>3. h \in Open' /\ ~(Cardinality(Entries(h)) > 1)
    BY <2>1, <2>2, FocasAssumption DEF Restart, Open, TypeOK, Collectors!TypeOK
  <2>4. ASSUME NEW j \in Nat, ToFree(j)', j # i PROVE Entry(j)' # h
    <3> SUFFICES ASSUME Entry(j) = h PROVE FALSE
      BY <2>1 DEF Entry
    <3>1. record \in Seq(Handles \union {NoHandle})
      BY <2>1 DEF TypeOK, Records, Release!Dirs
    <3>2. IsFiniteSet(Entries(h))
      <4>1. IsFiniteSet(1 .. Len(record))
        BY <3>1, FS_Interval
      <4> QED
        BY <2>1, <3>1, <4>1, FS_Subset DEF Entries
    <3>3. {i, j} \subseteq Entries(h) /\ Cardinality({i, j}) = 2
      <4>1. j \in Entries(h)
        BY <2>1, <2>4 DEF Entries, Entry, ToFree
      <4>2. IsFiniteSet({i}) /\ Cardinality({i}) = 1
        BY FS_Singleton
      <4>3. Cardinality({i} \union {j}) = 2
        BY <2>4, <4>2, FS_AddElement
      <4>4. {i} \union {j} = {i, j}
        OBVIOUS
      <4> QED
        BY <2>2, <4>1, <4>3, <4>4
    <3> QED
      BY <2>3, <3>2, <3>3, FS_Subset, FS_CardinalityType
  <2> QED
    BY <1>1, <2>1, <2>3, <2>4, FocasAssumption DEF LeftBehind, Entry
<1> QED
  BY <1>1, <1>2 DEF RunInv, LeftBehind

LEMMA RunInit == Init => RunInv
BY FocasAssumption DEF Init, Collectors!Init, Release!ReleaseInit, RunInv, ToFree, Own, OwnInUse, OwnAtRest,
       NoneLeftOver, OwnAnswer, Resting, Collectors!Using, Release!Dirs

LEMMA RunNext == TypeOK /\ PlaceInv /\ RunInv /\ [Next]_vars => RunInv'
<1> SUFFICES ASSUME TypeOK, PlaceInv, RunInv, [Next]_vars, running', outdated' = {}
             PROVE  RunInv'
  BY DEF RunInv
<1>1. ASSUME NEW e \in Release!Enders, Ending(e) PROVE FALSE
  BY <1>1 DEF PlaceInv, Ending, Release!Ending, Release!FreeAllHandles, Release!FreeNext,
     Release!Record, Release!AllTried, Release!OpenRecord, Release!FillRecord
<1>2. CASE Listening \/ Exit \/ Crash \/ UNCHANGED vars
  <2>1. UNCHANGED <<conn, running, handles, collectorVars, files, recovery, tried, outdated>>
    BY <1>2 DEF Listening, Release!StdinByte, Release!EndPlugin, Exit, Crash, vars, processVars,
                historyVars, releaseVars
  <2>2. \A d \in Devices : Own(d) => Own(d)'
    BY <2>1, Frame DEF collectorVars
  <2>3. \A i \in Nat : (ToFree(i)' <=> ToFree(i)) /\ (LeftBehind(i) => LeftBehind(i)')
    BY <2>1 DEF ToFree, LeftBehind, Entry, Numbers, Open, collectorVars
  <2> QED
    BY <2>1, <2>2, <2>3 DEF RunInv
<1> QED
  BY <1>1, <1>2, CollectingRuns, RecoveringRuns, RestartRuns DEF Next, Over

LEMMA RunAlways == Spec => []RunInv
BY TypedAlways, RunInit, RunNext, PTL DEF Spec

\* Until the stop every collector reads with, frees and remembers handles of its own CNC
\* only, also while the recovery frees those of an earlier process.
THEOREM OwnUntilStopped == Spec => []OwnUnlessStopped
<1>1. RunInv => OwnUnlessStopped
  BY DEF RunInv, OwnUnlessStopped, Own, OwnInUse, OwnAtRest, Resting, Collectors!HoldsOwnHandle,
         Collectors!RemembersOwnHandle, Collectors!Using
<1> QED
  BY <1>1, RunAlways, PTL

-----------------------------------------------------------------------------
(* What an EndPlugin leaves behind whose sleep outlasted the collectors.    *)
(* Once they have returned and no call of theirs is in the library, nothing *)
(* is opened any more and the slice stays as it is; what FreeAllHandles has *)
(* passed is then free or on its list, whoever else frees numbers.          *)

OnList(e, d) == handles[d] \in Open => \E i \in DOMAIN unfreed[e] : unfreed[e][i] = handles[d]

AllReturned == \A d \in Devices : pc[d] = "done" /\ ~late[d] /\ answer[d] = NoHandle

QuietInv ==
    /\ \A d \in Devices : answer[d] # NoHandle => pc[d] = "wait"
    /\ \A e \in Release!Enders :
          /\ stage[e] \in {"listen", "deaf", "sleep"} => ~quiet[e] /\ index[e] = 1
          /\ quiet[e] => /\ AllReturned
                         /\ \A d \in Devices : d < index[e] => OnList(e, d)

\* Only a collector that waits has a call of its own in the library.
LEMMA WaitStep ==
    ASSUME Collectors!TypeOK, NEW d \in Devices, answer[d] # NoHandle => pc[d] = "wait",
           Collectors!Step(d) \/ Collectors!Library(d)
    PROVE  answer'[d] # NoHandle => pc'[d] = "wait"
<1> USE PluginAssumption DEF Collectors!TypeOK
<1>1. CASE Collectors!Start(d)
  BY <1>1 DEF Collectors!Start, Collectors!Goto, Collectors!Show, Collectors!localVars
<1>2. CASE Collectors!Connect(d)
  BY <1>2 DEF Collectors!Connect, Collectors!Goto, Collectors!Show, Collectors!Set,
     Collectors!Retry, Collectors!GivesUp
<1>3. CASE Collectors!TakeGlobal(d)
  BY <1>3 DEF Collectors!TakeGlobal, Collectors!Goto, Collectors!Set,
     Collectors!AskForHandle
<1>4. CASE Collectors!FreeOld(d)
  BY <1>4 DEF Collectors!FreeOld, Collectors!Goto, Collectors!Set,
     Collectors!AskForHandle, Collectors!cnc_freelibhndl, Collectors!Open,
     Collectors!Freed, Collectors!FreeCodes, Collectors!EW_OK, Collectors!EW_BUSY,
     Collectors!EW_HANDLE
<1>5. CASE Collectors!ClearOld(d)
  BY <1>5 DEF Collectors!ClearOld, Collectors!Goto, Collectors!Set,
     Collectors!AskForHandle
<1>6. CASE Collectors!TakeAnswer(d)
  BY <1>6 DEF Collectors!TakeAnswer, Collectors!Goto, Collectors!Show, Collectors!Set,
     Collectors!HandleRefused, Collectors!Retry, Collectors!GivesUp
<1>7. CASE Collectors!Timeout(d)
  BY <1>7 DEF Collectors!Timeout, Collectors!Goto, Collectors!Show, Collectors!Set,
     Collectors!HandleRefused, Collectors!Retry, Collectors!GivesUp
<1>8. CASE Collectors!Collect(d)
  BY <1>8 DEF Collectors!Collect, Collectors!Goto, Collectors!localVars
<1>9. CASE Collectors!Probe(d)
  BY <1>9 DEF Collectors!Probe, Collectors!Goto, Collectors!Show, Collectors!Set,
     Collectors!Retry, Collectors!GivesUp
<1>10. CASE Collectors!ReadTag(d)
  BY <1>10 DEF Collectors!ReadTag, Collectors!Set, Collectors!Open
<1>11. CASE Collectors!Publish(d)
  BY <1>11 DEF Collectors!Publish, Collectors!Goto, Collectors!Show, Collectors!Set,
     Collectors!Retry, Collectors!GivesUp
<1>12. CASE Collectors!Release(d)
  BY <1>12 DEF Collectors!Release, Collectors!Goto, Collectors!Set,
     Collectors!cnc_freelibhndl, Collectors!Open, Collectors!Freed, Collectors!FreeCodes,
     Collectors!EW_OK, Collectors!EW_BUSY, Collectors!EW_HANDLE
<1>13. CASE Collectors!Unset(d)
  BY <1>13 DEF Collectors!Unset, Collectors!Goto, Collectors!Set
<1>14. CASE Collectors!Rest(d)
  BY <1>14 DEF Collectors!Rest, Collectors!Goto, Collectors!localVars
<1>15. CASE Collectors!GetHandle(d)
  BY <1>15 DEF Collectors!GetHandle, Collectors!Set, Collectors!cnc_allclibhndl3,
     Collectors!Open
<1>16. CASE Collectors!LateAnswer(d)
  BY <1>16 DEF Collectors!LateAnswer, Collectors!Set, Collectors!cnc_allclibhndl3,
     Collectors!Open
<1> QED
  BY <1>1, <1>2, <1>3, <1>4, <1>5, <1>6, <1>7, <1>8, <1>9, <1>10, <1>11, <1>12, <1>13,
     <1>14, <1>15, <1>16 DEF Collectors!Step, Collectors!Library

LEMMA CollectingStaysQuiet ==
    ASSUME TypeOK, QuietInv, NEW d \in Devices, Collecting(d)
    PROVE  QuietInv'
<1>1. /\ Collectors!Step(d) \/ Collectors!Library(d)
      /\ UNCHANGED <<stage, index, quiet>>
  BY DEF Collecting, releaseVars, processVars, historyVars
<1>2. ASSUME NEW c \in Devices PROVE answer'[c] # NoHandle => pc'[c] = "wait"
  <2>1. Collectors!TypeOK /\ (answer[c] # NoHandle => pc[c] = "wait")
    BY DEF TypeOK, QuietInv
  <2>2. CASE c = d
    BY <1>1, <2>1, <2>2, WaitStep
  <2>3. CASE c # d
    <3>1. answer'[c] = answer[c] /\ pc'[c] = pc[c]
      BY <1>1, <2>1, <2>3, CollectorEffect
    <3> QED
      BY <2>1, <3>1
  <2> QED
    BY <2>2, <2>3
<1>3. ~AllReturned
  BY <1>1, PluginAssumption
     DEF AllReturned, Collectors!Step, Collectors!Library, Collectors!Start, Collectors!Connect,
     Collectors!TakeGlobal, Collectors!FreeOld, Collectors!ClearOld, Collectors!TakeAnswer,
     Collectors!Timeout, Collectors!Collect, Collectors!Probe, Collectors!ReadTag,
     Collectors!Publish, Collectors!Release, Collectors!Unset, Collectors!Rest,
     Collectors!GetHandle, Collectors!LateAnswer
<1> QED
  BY <1>1, <1>2, <1>3 DEF QuietInv

\* Whatever is freed, what is not open any more need not be on the list.
LEMMA ListStays ==
    ASSUME NEW f \in Release!Enders, NEW d \in Devices, OnList(f, d),
           UNCHANGED handles, unfreed'[f] = unfreed[f], Open' \subseteq Open
    PROVE  OnList(f, d)'
BY DEF OnList

LEMMA EndingStaysQuiet ==
    ASSUME TypeOK, PlaceInv, QuietInv, NEW e \in Release!Enders, Ending(e)
    PROVE  QuietInv'
<1> USE DEF Release!At
<1>1. UNCHANGED <<handles, pc, late, answer>> /\ main = "up"
  BY DEF Ending, Release!Ending, Release!FreeAllHandles, Release!FreeNext, Release!Record,
         Release!AllTried, Release!OpenRecord, Release!FillRecord, collectorVars
<1>2. \/ UNCHANGED conn
      \/ \E h \in Handles : conn' = [conn EXCEPT ![h] = NoDevice]
  BY DEF Ending, Release!Ending, Release!FreeAllHandles, Release!FreeNext, Release!Record,
         Release!AllTried, Release!OpenRecord, Release!FillRecord, Release!cnc_freelibhndl,
         Release!Open
<1>3. Open' \subseteq Open
  BY <1>2 DEF Open, TypeOK, Collectors!TypeOK
<1>4. ASSUME NEW f \in Release!Enders, f # e
      PROVE  stage'[f] = stage[f] /\ index'[f] = index[f] /\ unfreed'[f] = unfreed[f] /\ quiet'[f] = quiet[f]
  BY <1>4 DEF Ending, Release!Ending, Release!FreeAllHandles, Release!FreeNext, Release!Record,
         Release!AllTried, Release!OpenRecord, Release!FillRecord, TypeOK
<1>5. stage'[e] \notin {"listen", "deaf", "sleep"}
  BY DEF Ending, Release!Ending, Release!FreeAllHandles, Release!FreeNext, Release!Record,
         Release!AllTried, Release!OpenRecord, Release!FillRecord, TypeOK
<1>6. ASSUME quiet'[e]
      PROVE  /\ AllReturned
             /\ \A d \in Devices : d < index'[e] => OnList(e, d)'
  <2>1. CASE Release!FreeAllHandles(e)
    <3>1. AllReturned
      BY <1>6, <2>1 DEF Release!FreeAllHandles, Ending, AllReturned, QuietInv, TypeOK
    <3>2. index'[e] = 1
      BY <2>1 DEF Release!FreeAllHandles, QuietInv
    <3> QED
      BY <3>1, <3>2, PluginAssumption
  <2>2. CASE Release!FreeNext(e)
    <3>1. quiet[e] /\ UNCHANGED unfreed
      BY <1>6, <2>2 DEF Release!FreeNext, Ending
    <3>2. \/ index'[e] = index[e]
          \/ index'[e] = index[e] + 1 /\ handles[index[e]] \notin Open'
      BY <2>2 DEF Release!FreeNext, Release!cnc_freelibhndl, Release!Freed, Release!FreeCodes,
         Release!EW_OK, Release!EW_BUSY, Release!EW_HANDLE, Release!Open, Open, TypeOK, Collectors!TypeOK
    <3>3. ASSUME NEW d \in Devices, d < index[e] PROVE OnList(e, d)'
      BY <1>1, <1>3, <3>1, <3>3, ListStays DEF QuietInv
    <3>4. ASSUME NEW d \in Devices, d < index'[e] PROVE OnList(e, d)'
      <4>1. d < index[e] \/ (d = index[e] /\ handles[d] \notin Open')
        BY <3>2, <3>4, PluginAssumption DEF TypeOK
      <4> QED
        BY <1>1, <3>3, <4>1 DEF OnList
    <3> QED
      BY <3>1, <3>4 DEF QuietInv
  <2>3. CASE Release!Record(e)
    <3>1. quiet[e] /\ UNCHANGED conn
      BY <1>6, <2>3 DEF Release!Record, Ending
    <3>2. /\ unfreed'[e] = Append(unfreed[e], handles[index[e]])
          /\ index'[e] = index[e] + 1
          /\ unfreed[e] \in Seq(Handles \union {NoHandle})
      BY <2>3 DEF Release!Record, TypeOK
    <3>3. ASSUME NEW d \in Devices, d < index'[e] PROVE OnList(e, d)'
      <4>1. CASE d < index[e]
        <5> SUFFICES ASSUME handles[d] \in Open
                     PROVE  \E i \in DOMAIN unfreed'[e] : unfreed'[e][i] = handles[d]
          BY <1>1, <3>1 DEF OnList, Open
        <5>1. PICK i \in DOMAIN unfreed[e] : unfreed[e][i] = handles[d]
          BY <3>1, <4>1 DEF QuietInv, OnList
        <5>2. i \in DOMAIN unfreed'[e] /\ unfreed'[e][i] = handles[d]
          BY <3>2, <5>1
        <5> QED
          BY <5>2
      <4>2. CASE d = index[e]
        <5>1. LET n == Len(unfreed[e]) + 1
              IN  n \in DOMAIN unfreed'[e] /\ unfreed'[e][n] = handles[d]
          BY <3>2, <4>2
        <5> QED
          BY <1>1, <5>1 DEF OnList
      <4> QED
        BY <3>2, <3>3, <4>1, <4>2, PluginAssumption DEF TypeOK
    <3> QED
      BY <3>1, <3>3 DEF QuietInv
  <2>4. CASE Release!AllTried(e) \/ Release!OpenRecord(e) \/ Release!FillRecord(e)
    <3>1. quiet[e] /\ index'[e] = index[e] /\ unfreed'[e] = unfreed[e]
      BY <1>6, <2>4 DEF Release!AllTried, Release!OpenRecord, Release!FillRecord, Ending
    <3> QED
      BY <1>1, <1>3, <3>1, ListStays DEF QuietInv
  <2> QED
    BY <2>1, <2>2, <2>3, <2>4 DEF Ending, Release!Ending
<1>7. AllReturned' <=> AllReturned
  BY <1>1 DEF AllReturned
<1>8. ASSUME NEW f \in Release!Enders, f # e, quiet[f], NEW d \in Devices, d < index'[f]
      PROVE  OnList(f, d)'
  BY <1>1, <1>3, <1>4, <1>8, ListStays DEF QuietInv
<1> QED
  BY <1>1, <1>4, <1>5, <1>6, <1>7, <1>8 DEF QuietInv

LEMMA RecoveringStaysQuiet ==
    ASSUME TypeOK, QuietInv, Recovering
    PROVE  QuietInv'
<1>1. UNCHANGED <<handles, pc, late, answer, stage, index, unfreed, quiet>>
  BY DEF Recovering, Release!Recovering, Release!StatRecord, Release!ReadRecord, Release!FreeExtra,
         Release!AllExtraFreed, Release!RemoveRecord, collectorVars, processVars, historyVars
<1>2. \/ UNCHANGED conn
      \/ \E h \in Handles : conn' = [conn EXCEPT ![h] = NoDevice]
  BY DEF Recovering, Release!Recovering, Release!StatRecord, Release!ReadRecord, Release!FreeExtra,
         Release!AllExtraFreed, Release!RemoveRecord, Release!cnc_freelibhndl, Release!Open
<1>3. Open' \subseteq Open
  BY <1>2 DEF Open, TypeOK, Collectors!TypeOK
<1> QED
  BY <1>1, <1>3, ListStays DEF QuietInv, AllReturned

LEMMA QuietNext == TypeOK /\ PlaceInv /\ QuietInv /\ [Next]_vars => QuietInv'
<1> SUFFICES ASSUME TypeOK, PlaceInv, QuietInv, [Next]_vars PROVE QuietInv'
  OBVIOUS
<1>1. CASE Listening
  <2>1. UNCHANGED <<conn, handles, index, unfreed, pc, late, answer, quiet>>
    BY <1>1 DEF Listening, Release!StdinByte, Release!EndPlugin, processVars, historyVars, collectorVars
  <2>2. \A e \in Release!Enders : \/ stage'[e] = stage[e]
                                  \/ stage[e] = "listen" /\ stage'[e] \in {"deaf", "sleep"}
    BY <1>1 DEF Listening, Release!StdinByte, Release!EndPlugin, Release!At, Release!Enders, TypeOK
  <2> QED
    BY <2>1, <2>2 DEF QuietInv, AllReturned, OnList, Open
<1>2. CASE Exit \/ Crash \/ UNCHANGED vars
  BY <1>2 DEF Exit, Crash, vars, processVars, historyVars, collectorVars, releaseVars, QuietInv,
              AllReturned, OnList, Open
<1>3. CASE Restart
  BY <1>3 DEF Restart, QuietInv
<1> QED
  BY <1>1, <1>2, <1>3, CollectingStaysQuiet, EndingStaysQuiet, RecoveringStaysQuiet DEF Next, Over

LEMMA QuietInit == Init => QuietInv
BY DEF Init, Collectors!Init, Release!ReleaseInit, QuietInv

LEMMA QuietAlways == Spec => [](TypeOK /\ PlaceInv /\ QuietInv)
BY TypedAlways, QuietInit, QuietNext, PTL DEF Spec

\* An EndPlugin that slept until the collectors had returned forgets no open connection.
THEOREM NothingIsForgotten == Spec => []NothingForgotten
<1>1. TypeOK /\ PlaceInv /\ QuietInv => NothingForgotten
  <2> SUFFICES ASSUME TypeOK, PlaceInv, QuietInv, NEW e \in Release!Enders, quiet[e],
                      stage[e] \in {"open", "fill", "ended"}, NEW d \in Devices
               PROVE  OnList(e, d)
    BY DEF NothingForgotten, OnList
  <2>1. d < index[e]
    BY PluginAssumption DEF TypeOK, PlaceInv
  <2> QED
    BY <2>1 DEF QuietInv
<1> QED
  BY <1>1, QuietAlways, PTL
-----------------------------------------------------------------------------
(* What the reader sees of one process after the other.                    *)

\* In a process under way: from the head of the activation to the handle the device
\* is shown as off; it is shown as on in the loop, or where the stop made it end.
Shown(d) ==
    /\ pc[d] \in {"connect", "take", "free", "clear", "wait"} => power_on[d] = "off"
    /\ power_on[d] = "on" => pc[d] \in Collectors!Online \/ ~running

FeedInv == \A d \in Devices : Shown(d)

\* The five ways in which a step for d can change what the reader sees of it.
FeedEffect(d) ==
    LET on  == pc[d] \in Collectors!Online
        on2 == pc'[d] \in Collectors!Online
    IN  \/ on2 = on /\ power_on'[d] = power_on[d]
        \/ ~on /\ ~on2 /\ power_on'[d] = "off"
        \/ ~on /\ on2 /\ power_on[d] = "off" /\ power_on'[d] = power_on[d]
        \/ on /\ on2 /\ power_on'[d] = "on"
        \/ /\ on /\ ~on2
           /\ (power_on'[d] = "off" \/ (~running /\ power_on'[d] = power_on[d]))

\* A step for d keeps what is shown of it in agreement with its place, and what is
\* shown of the other devices alone.
LEMMA ShownStep ==
    ASSUME Collectors!TypeOK, NEW d \in Devices, Shown(d),
           Collectors!Step(d) \/ Collectors!Library(d)
    PROVE  /\ Shown(d)' /\ FeedEffect(d)
           /\ running' = running
           /\ \A e \in Devices \ {d} : pc'[e] = pc[e] /\ power_on'[e] = power_on[e]
<1> USE DEF Collectors!TypeOK, Shown, Collectors!Online, FeedEffect
<1>1. CASE Collectors!Start(d)
  BY <1>1 DEF Collectors!Start, Collectors!Goto, Collectors!Show, Collectors!localVars
<1>2. CASE Collectors!Connect(d)
  BY <1>2 DEF Collectors!Connect, Collectors!Goto, Collectors!Show, Collectors!Retry
<1>3. CASE Collectors!TakeGlobal(d)
  BY <1>3 DEF Collectors!TakeGlobal, Collectors!Goto, Collectors!AskForHandle
<1>4. CASE Collectors!FreeOld(d)
  BY <1>4 DEF Collectors!FreeOld, Collectors!Goto, Collectors!AskForHandle
<1>5. CASE Collectors!ClearOld(d)
  BY <1>5 DEF Collectors!ClearOld, Collectors!Goto, Collectors!AskForHandle
<1>6. CASE Collectors!TakeAnswer(d)
  BY <1>6 DEF Collectors!TakeAnswer, Collectors!Goto, Collectors!Show, Collectors!HandleRefused, Collectors!Retry
<1>7. CASE Collectors!Timeout(d)
  BY <1>7 DEF Collectors!Timeout, Collectors!Goto, Collectors!Show, Collectors!HandleRefused, Collectors!Retry
<1>8. CASE Collectors!Collect(d)
  BY <1>8 DEF Collectors!Collect, Collectors!Goto, Collectors!localVars
<1>9. CASE Collectors!Probe(d)
  BY <1>9 DEF Collectors!Probe, Collectors!Goto, Collectors!Show, Collectors!Retry
<1>10. CASE Collectors!ReadTag(d)
  BY <1>10 DEF Collectors!ReadTag
<1>11. CASE Collectors!Publish(d)
  BY <1>11 DEF Collectors!Publish, Collectors!Goto, Collectors!Show, Collectors!Retry
<1>12. CASE Collectors!Release(d)
  BY <1>12 DEF Collectors!Release, Collectors!Goto
<1>13. CASE Collectors!Unset(d)
  BY <1>13 DEF Collectors!Unset, Collectors!Goto
<1>14. CASE Collectors!Rest(d)
  BY <1>14 DEF Collectors!Rest, Collectors!Goto, Collectors!localVars
<1>15. CASE Collectors!GetHandle(d)
  BY <1>15 DEF Collectors!GetHandle
<1>16. CASE Collectors!LateAnswer(d)
  BY <1>16 DEF Collectors!LateAnswer
<1> QED
  BY <1>1, <1>2, <1>3, <1>4, <1>5, <1>6, <1>7, <1>8, <1>9, <1>10, <1>11, <1>12, <1>13,
     <1>14, <1>15, <1>16 DEF Collectors!Step, Collectors!Library

\* A step that is not one for a device, in a process under way: the flag may go down.
LEMMA RestOfProcess ==
    ASSUME TypeOK,
           \/ Listening \/ Recovering \/ Exit \/ Crash \/ Over \/ UNCHANGED vars
           \/ \E e \in Release!Enders : Ending(e)
    PROVE  /\ UNCHANGED <<pc, power_on>>
           /\ running' = running \/ (main = "up" /\ running' = FALSE)
<1>1. CASE Listening
  BY <1>1 DEF Listening, Release!StdinByte, Release!EndPlugin, collectorVars
<1>2. CASE Recovering
  BY <1>2 DEF Recovering, Release!Recovering, Release!StatRecord, Release!ReadRecord,
     Release!FreeExtra, Release!AllExtraFreed, Release!RemoveRecord, collectorVars
<1>3. CASE Exit \/ Crash
  BY <1>3 DEF Exit, Crash, collectorVars
<1>4. CASE Over \/ UNCHANGED vars
  BY <1>4 DEF Over, vars, collectorVars
<1>5. CASE \E e \in Release!Enders : Ending(e)
  BY <1>5 DEF Ending, Release!Ending, Release!FreeAllHandles, Release!FreeNext,
     Release!Record, Release!AllTried, Release!OpenRecord, Release!FillRecord, collectorVars
<1> QED
  BY <1>1, <1>2, <1>3, <1>4, <1>5

LEMMA FeedNext == TypeOK /\ FeedInv /\ [Next]_vars => FeedInv'
<1> SUFFICES ASSUME TypeOK, FeedInv, [Next]_vars, NEW e \in Devices PROVE Shown(e)'
  BY DEF FeedInv
<1>1. ASSUME NEW d \in Devices, Collecting(d) PROVE Shown(e)'
  <2>1. /\ Shown(d)' /\ running' = running
        /\ \A f \in Devices \ {d} : pc'[f] = pc[f] /\ power_on'[f] = power_on[f]
    BY <1>1, ShownStep DEF FeedInv, TypeOK, Collecting
  <2> QED
    BY <2>1 DEF FeedInv, Shown
<1>2. CASE Restart
  BY <1>2 DEF Restart, Shown
<1>3. ASSUME UNCHANGED <<pc, power_on>>, running' => running PROVE Shown(e)'
  BY <1>3 DEF FeedInv, Shown
<1> QED
  BY <1>1, <1>2, <1>3, RestOfProcess DEF Next

\* Every step for a device is a step of its feed, or leaves the feed alone.
LEMMA FeedStep ==
    ASSUME TypeOK, NEW d \in Devices, Shown(d), Collecting(d)
    PROVE  [Feed!Next]_(Feed!feed)
<1> DEFINE on == {e \in Devices : pc[e] \in Collectors!Online}
<1>1. /\ FeedEffect(d) /\ running' = running
      /\ \A e \in Devices \ {d} : pc'[e] = pc[e] /\ power_on'[e] = power_on[e]
  BY ShownStep DEF TypeOK, Collecting
<1>2. Collectors!TypeOK /\ Collectors!TypeOK'
  BY CollectorTypes DEF TypeOK, Collecting
<1>3. power_on' = [power_on EXCEPT ![d] = power_on'[d]]
  BY <1>1, <1>2 DEF Collectors!TypeOK
<1>4. CASE (pc'[d] \in Collectors!Online) = (pc[d] \in Collectors!Online) /\ power_on'[d] = power_on[d]
  <2>1. on' = on
    BY <1>1, <1>4
  <2>2. power_on' = power_on
    BY <1>2, <1>3, <1>4 DEF Collectors!TypeOK
  <2> QED
    BY <1>1, <2>1, <2>2 DEF Feed!feed
<1>5. CASE pc[d] \notin Collectors!Online /\ pc'[d] \notin Collectors!Online /\ power_on'[d] = "off"
  <2>1. on' = on
    BY <1>1, <1>5
  <2> QED
    BY <1>1, <1>3, <1>5, <2>1 DEF Feed!Next, Feed!Announce
<1>6. CASE /\ pc[d] \notin Collectors!Online /\ pc'[d] \in Collectors!Online
           /\ power_on[d] = "off" /\ power_on'[d] = power_on[d]
  <2>1. on' = on \union {d}
    BY <1>1, <1>6
  <2>2. power_on' = power_on
    BY <1>2, <1>3, <1>6 DEF Collectors!TypeOK
  <2> QED
    BY <1>1, <1>6, <2>1, <2>2 DEF Feed!Next, Feed!GoOnline
<1>7. CASE pc[d] \in Collectors!Online /\ pc'[d] \in Collectors!Online /\ power_on'[d] = "on"
  <2>1. on' = on
    BY <1>1, <1>7
  <2> QED
    BY <1>1, <1>3, <1>7, <2>1 DEF Feed!Next, Feed!Sample
<1>8. CASE /\ pc[d] \in Collectors!Online /\ pc'[d] \notin Collectors!Online
           /\ (power_on'[d] = "off" \/ (~running /\ power_on'[d] = power_on[d]))
  <2>1. on' = on \ {d}
    BY <1>1, <1>8
  <2>2. power_on' = [power_on EXCEPT ![d] = "off"] \/ (~running /\ power_on' = power_on)
    BY <1>2, <1>3, <1>8 DEF Collectors!TypeOK
  <2> QED
    BY <1>1, <1>8, <2>1, <2>2 DEF Feed!Next, Feed!GoOffline
<1> QED
  BY <1>1, <1>4, <1>5, <1>6, <1>7, <1>8 DEF FeedEffect

\* Until it ends, every process of the plugin implements DeviceFeed, whatever EndPlugin
\* and the recovery do beside the collectors; a new process begins with nothing shown.
THEOREM EveryProcessFeeds == Spec => EveryProcessIsAFeed
<1> DEFINE Step == IF main = "up" THEN [Feed!Next]_(Feed!feed)
                                  ELSE Feed!Init' \/ UNCHANGED Feed!feed
<1>1. Init => Feed!Init /\ FeedInv
  BY DEF Init, Collectors!Init, Feed!Init, Collectors!Online, FeedInv, Shown
<1>2. ASSUME TypeOK, FeedInv, [Next]_vars PROVE Step
  <2>1. ASSUME NEW d \in Devices, Collecting(d) PROVE Step
    BY <1>2, <2>1, FeedStep DEF FeedInv, Collecting
  <2>2. CASE Restart
    BY <2>2 DEF Restart, Feed!Init, Collectors!Online
  <2>3. ASSUME UNCHANGED <<pc, power_on>>,
               running' = running \/ (main = "up" /\ running' = FALSE)
        PROVE  Step
    <3>1. running \in BOOLEAN
      BY <1>2 DEF TypeOK, Collectors!TypeOK
    <3>2. CASE running' = running
      BY <2>3, <3>2 DEF Feed!feed
    <3>3. CASE running' # running
      BY <2>3, <3>1, <3>3 DEF Feed!Next, Feed!Stop
    <3> QED
      BY <3>2, <3>3
  <2> QED
    BY <1>2, <2>1, <2>2, <2>3, RestOfProcess DEF Next
<1>3. TypeOK /\ FeedInv /\ [Next]_vars => [Step]_vars
  BY <1>2
<1> QED
  BY <1>1, <1>3, FeedNext, TypedAlways, PTL DEF Spec, EveryProcessIsAFeed

-----------------------------------------------------------------------------
(* The way to the end after the stop.                                      *)

\* A step for d takes d nearer to its end and leaves the place of every other device; a
\* step in the library leaves all of them.
LEMMA NearerStep ==
    ASSUME Collectors!TypeOK, NEW d \in Devices, ~running,
           Collectors!Step(d) \/ Collectors!Library(d)
    PROVE  /\ UNCHANGED <<pc[d], count[d]>> \/ Collectors!Nearer(d)
           /\ \A e \in Devices \ {d} : UNCHANGED <<pc[e], count[e]>>
           /\ running' = running
<1>0. MaxConnect \in Nat /\ MaxGetHandle \in Nat
  BY PluginAssumption
<1> USE <1>0 DEF Collectors!TypeOK, Collectors!Nearer, Collectors!ToGo
<1>1. CASE Collectors!Start(d)
  BY <1>1 DEF Collectors!Start, Collectors!Goto, Collectors!Show, Collectors!localVars
<1>2. CASE Collectors!Connect(d)
  BY <1>2 DEF Collectors!Connect, Collectors!Goto, Collectors!Show, Collectors!Retry,
     Collectors!GivesUp, Collectors!Set
<1>3. CASE Collectors!TakeGlobal(d)
  BY <1>3 DEF Collectors!TakeGlobal, Collectors!Goto, Collectors!AskForHandle
<1>4. CASE Collectors!FreeOld(d)
  BY <1>4 DEF Collectors!FreeOld, Collectors!Goto, Collectors!AskForHandle
<1>5. CASE Collectors!ClearOld(d)
  BY <1>5 DEF Collectors!ClearOld, Collectors!Goto, Collectors!AskForHandle
<1>6. CASE Collectors!TakeAnswer(d)
  BY <1>6 DEF Collectors!TakeAnswer, Collectors!Goto, Collectors!Show,
     Collectors!HandleRefused, Collectors!Retry, Collectors!GivesUp, Collectors!Set
<1>7. CASE Collectors!Timeout(d)
  BY <1>7 DEF Collectors!Timeout, Collectors!Goto, Collectors!Show,
     Collectors!HandleRefused, Collectors!Retry, Collectors!GivesUp, Collectors!Set
<1>8. CASE Collectors!Collect(d)
  BY <1>8 DEF Collectors!Collect, Collectors!Goto, Collectors!localVars
<1>9. CASE Collectors!Probe(d)
  BY <1>9 DEF Collectors!Probe, Collectors!Goto, Collectors!Show, Collectors!Retry,
     Collectors!Set
<1>10. CASE Collectors!ReadTag(d)
  BY <1>10 DEF Collectors!ReadTag, Collectors!Set
<1>11. CASE Collectors!Publish(d)
  BY <1>11 DEF Collectors!Publish, Collectors!Goto, Collectors!Show, Collectors!Retry,
     Collectors!Set
<1>12. CASE Collectors!Release(d)
  BY <1>12 DEF Collectors!Release, Collectors!Goto, Collectors!Set
<1>13. CASE Collectors!Unset(d)
  BY <1>13 DEF Collectors!Unset, Collectors!Goto
<1>14. CASE Collectors!Rest(d)
  BY <1>14 DEF Collectors!Rest, Collectors!Goto, Collectors!localVars
<1>15. CASE Collectors!GetHandle(d)
  BY <1>15 DEF Collectors!GetHandle
<1>16. CASE Collectors!LateAnswer(d)
  BY <1>16 DEF Collectors!LateAnswer
<1> QED
  BY <1>1, <1>2, <1>3, <1>4, <1>5, <1>6, <1>7, <1>8, <1>9, <1>10, <1>11, <1>12, <1>13,
     <1>14, <1>15, <1>16 DEF Collectors!Step, Collectors!Library

\* A step of the process that is not one for a device leaves the place of every collector.
LEMMA PlacesStay ==
    ASSUME Listening \/ Recovering \/ Exit \/ Crash \/ (\E e \in Release!Enders : Ending(e))
    PROVE  UNCHANGED <<pc, count>>
BY DEF Listening, Recovering, Exit, Crash, Ending, collectorVars

\* Once stopped, a process is never set going again, and each of its steps leaves every
\* collector where it is or takes it nearer to its end, for any number of attempts.
THEOREM StopIsAlwaysFinal == Spec => StopIsFinal
<1> DEFINE Final == main = "up" /\ ~running
                       => /\ ~running'
                          /\ \A d \in Devices : \/ UNCHANGED <<pc[d], count[d]>>
                                                \/ Collectors!Nearer(d)
<1>1. ASSUME TypeOK, [Next]_vars PROVE [Final]_vars
  <2> SUFFICES ASSUME main = "up", ~running, Next
               PROVE  /\ ~running'
                      /\ \A d \in Devices : \/ UNCHANGED <<pc[d], count[d]>>
                                            \/ Collectors!Nearer(d)
    BY <1>1
  <2>1. ASSUME NEW e \in Devices, Collecting(e)
        PROVE  /\ ~running'
               /\ \A d \in Devices : \/ UNCHANGED <<pc[d], count[d]>>
                                     \/ Collectors!Nearer(d)
    <3>1. /\ UNCHANGED <<pc[e], count[e]>> \/ Collectors!Nearer(e)
          /\ \A d \in Devices \ {e} : UNCHANGED <<pc[d], count[d]>>
          /\ running' = running
      BY <1>1, <2>1, NearerStep DEF TypeOK, Collecting
    <3> QED
      BY <3>1
  <2>2. CASE Listening \/ Recovering \/ Exit \/ Crash \/ (\E e \in Release!Enders : Ending(e))
    <3>1. UNCHANGED <<pc, count>>
      BY <2>2, PlacesStay
    <3>2. ~running'
      BY <1>1, <2>2, RestOfProcess
    <3> QED
      BY <3>1, <3>2
  <2> QED
    BY <2>1, <2>2 DEF Next, Restart, Over
<1> QED
  BY <1>1, PluginTypeCorrect, PTL DEF Spec, StopIsFinal
=============================================================================

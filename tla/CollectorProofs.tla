-------------------------- MODULE CollectorProofs --------------------------
(***************************************************************************)
(* Proofs about the collectors, for any number of devices, handle numbers  *)
(* and attempts.                                                           *)
(***************************************************************************)
EXTENDS Collector, TLAPS

(* The inductive invariant.  That a handle in use is the device's own needs *)
(* to be known of the number before it is used: while it waits in the       *)
(* result channel, and while it rests in the global slice between two       *)
(* activations.  In between, a number that was freed but not yet set to 0   *)
(* may be in use by another device: there only the equality of the two      *)
(* variables matters.                                                       *)

OwnInUse(d) ==
    pc[d] \in Using => /\ handle[d] \in Handles
                      /\ handles[d] = handle[d]
                      /\ conn[handle[d]] = d

OwnAtRest(d) ==
    pc[d] \notin Using \union {"clear", "unset"}
        => \/ handles[d] = NoHandle
           \/ handles[d] \in Handles /\ conn[handles[d]] = d

NoneLeftOver(d) ==
    pc[d] \notin Using \union {"clear", "unset"}
        => \/ handle[d] = NoHandle
           \/ pc[d] = "wait" /\ handle[d] = handles[d]

OwnAnswer(d) ==
    /\ answer[d] # NoHandle => pc[d] = "wait"
    /\ answer[d] \in Handles => conn[answer[d]] = d

OwnScan(d) == machines[d] \subseteq {d}

Own(d) ==
    /\ OwnInUse(d)
    /\ OwnAtRest(d)
    /\ NoneLeftOver(d)
    /\ OwnAnswer(d)
    /\ OwnScan(d)

OwnInv == \A d \in Devices : Own(d)

IInv == TypeOK /\ OwnInv

-----------------------------------------------------------------------------
(* Typing.                                                                 *)

LEMMA TypeInit == Init => TypeOK
BY DEF Init, TypeOK, PC

\* A step of a collector or of the library for it keeps every variable typed.
LEMMA TypeStep ==
    ASSUME TypeOK, NEW d \in Devices, Step(d) \/ Library(d)
    PROVE  TypeOK'
<1>1. CASE Start(d)
  BY <1>1 DEF TypeOK, PC, localVars, Start, Goto, Show
<1>2. CASE Connect(d)
  BY <1>2 DEF TypeOK, PC, localVars, Connect, Goto, Show, Set, Retry, GivesUp
<1>3. CASE TakeGlobal(d)
  BY <1>3 DEF TypeOK, PC, localVars, TakeGlobal, Goto, Set, AskForHandle
<1>4. CASE FreeOld(d)
  BY <1>4 DEF TypeOK, PC, localVars, FreeOld, Goto, Set, AskForHandle, cnc_freelibhndl, Open
<1>5. CASE ClearOld(d)
  BY <1>5 DEF TypeOK, PC, localVars, ClearOld, Goto, Set, AskForHandle
<1>6. CASE TakeAnswer(d)
  BY <1>6 DEF TypeOK, PC, localVars, TakeAnswer, Goto, Show, Set, HandleRefused, Retry, GivesUp
<1>7. CASE Timeout(d)
  BY <1>7 DEF TypeOK, PC, localVars, Timeout, Goto, Show, Set, HandleRefused, Retry, GivesUp
<1>8. CASE Collect(d)
  BY <1>8 DEF TypeOK, PC, localVars, Collect, Goto
<1>9. CASE Probe(d)
  BY <1>9 DEF TypeOK, PC, localVars, Probe, Goto, Show, Set, Retry, GivesUp
<1>10. CASE ReadTag(d)
  BY <1>10 DEF TypeOK, PC, localVars, ReadTag, Set, Open
<1>11. CASE Publish(d)
  BY <1>11 DEF TypeOK, PC, localVars, Publish, Goto, Show, Set, Retry, GivesUp
<1>12. CASE Release(d)
  BY <1>12 DEF TypeOK, PC, localVars, Release, Goto, Set, cnc_freelibhndl, Open
<1>13. CASE Unset(d)
  BY <1>13 DEF TypeOK, PC, localVars, Unset, Goto, Set
<1>14. CASE Rest(d)
  BY <1>14 DEF TypeOK, PC, localVars, Rest, Goto
<1>15. CASE GetHandle(d)
  BY <1>15 DEF TypeOK, PC, localVars, GetHandle, Set, cnc_allclibhndl3, Open
<1>16. CASE LateAnswer(d)
  BY <1>16 DEF TypeOK, PC, localVars, LateAnswer, Set, cnc_allclibhndl3, Open
<1> QED
  BY <1>1, <1>2, <1>3, <1>4, <1>5, <1>6, <1>7, <1>8, <1>9, <1>10, <1>11, <1>12, <1>13, <1>14, <1>15, <1>16 DEF Step, Library

LEMMA TypeNext == TypeOK /\ [Next]_vars => TypeOK'
<1> SUFFICES ASSUME TypeOK, [Next]_vars PROVE TypeOK'
  OBVIOUS
<1>1. CASE \E d \in Devices : Step(d) \/ Library(d)
  BY <1>1, TypeStep
<1>2. CASE Stop
  BY <1>2 DEF TypeOK, Stop, localVars
<1>3. CASE UNCHANGED vars
  BY <1>3 DEF TypeOK, vars, localVars
<1> QED
  BY <1>1, <1>2, <1>3 DEF Next, Ended

\* Every variable keeps its type.
THEOREM TypeCorrect == Spec => []TypeOK
BY TypeInit, TypeNext, PTL DEF Spec

-----------------------------------------------------------------------------
(* A number is never shared.                                               *)

\* What a device needs of the rest of the system to keep its part.
Undisturbed(d) ==
    /\ pc'[d] = pc[d] /\ handle'[d] = handle[d] /\ handles'[d] = handles[d]
    /\ answer'[d] = answer[d] /\ machines'[d] = machines[d]
    /\ \A h \in Handles : conn[h] = d => conn'[h] = d

LEMMA Frame ==
    ASSUME NEW d \in Devices, TypeOK, Own(d), Undisturbed(d)
    PROVE  Own(d)'
<1> USE FocasAssumption, CollectorAssumption DEF TypeOK, Own, Undisturbed
<1>1. OwnInUse(d)'
  BY DEF OwnInUse
<1>2. OwnAtRest(d)'
  BY DEF OwnAtRest
<1>3. OwnAnswer(d)'
  BY DEF OwnAnswer
<1>4. OwnScan(d)'
  BY DEF OwnScan
<1>5. NoneLeftOver(d)'
  BY DEF NoneLeftOver
<1> QED
  BY <1>1, <1>2, <1>3, <1>4, <1>5

\* A step for one device disturbs no other: the library opens unused numbers
\* only, and a collector frees a number that leads to its own CNC.
LEMMA OthersUndisturbed ==
    ASSUME TypeOK, NEW e \in Devices, Own(e), Step(e) \/ Library(e),
           NEW d \in Devices, d # e
    PROVE  Undisturbed(d)
<1> USE FocasAssumption DEF TypeOK, Undisturbed
<1>1. CASE Start(e)
  BY <1>1 DEF Start, Goto, localVars
<1>2. CASE Connect(e)
  BY <1>2 DEF Connect, Goto, Set, Retry
<1>3. CASE TakeGlobal(e)
  BY <1>3 DEF TakeGlobal, Goto, Set, AskForHandle
<1>4. CASE FreeOld(e)
  BY <1>4 DEF FreeOld, Goto, Set, AskForHandle, cnc_freelibhndl, Open, Own, OwnInUse, Using
<1>5. CASE ClearOld(e)
  BY <1>5 DEF ClearOld, Goto, Set, AskForHandle
<1>6. CASE TakeAnswer(e)
  BY <1>6 DEF TakeAnswer, Goto, Set, HandleRefused, Retry
<1>7. CASE Timeout(e)
  BY <1>7 DEF Timeout, Goto, Set, HandleRefused, Retry
<1>8. CASE Collect(e)
  BY <1>8 DEF Collect, Goto, localVars
<1>9. CASE Probe(e)
  BY <1>9 DEF Probe, Goto, Set, Retry
<1>10. CASE ReadTag(e)
  BY <1>10 DEF ReadTag, Set, Open
<1>11. CASE Publish(e)
  BY <1>11 DEF Publish, Goto, Set, Retry
<1>12. CASE Release(e)
  BY <1>12 DEF Release, Goto, Set, cnc_freelibhndl, Open, Own, OwnInUse, Using
<1>13. CASE Unset(e)
  BY <1>13 DEF Unset, Goto, Set
<1>14. CASE Rest(e)
  BY <1>14 DEF Rest, Goto, localVars
<1>15. CASE GetHandle(e)
  BY <1>15 DEF GetHandle, Set, cnc_allclibhndl3, Open
<1>16. CASE LateAnswer(e)
  BY <1>16 DEF LateAnswer, Set, cnc_allclibhndl3, Open
<1> QED
  BY <1>1, <1>2, <1>3, <1>4, <1>5, <1>6, <1>7, <1>8, <1>9, <1>10, <1>11, <1>12, <1>13, <1>14, <1>15, <1>16 DEF Step, Library

\* A step for a device keeps its own part.
LEMMA OwnStep ==
    ASSUME TypeOK, NEW d \in Devices, Own(d), Step(d) \/ Library(d)
    PROVE  Own(d)'
<1> USE FocasAssumption, CollectorAssumption
    DEF TypeOK, Own, OwnInUse, OwnAtRest, NoneLeftOver, OwnAnswer, OwnScan, Using
<1>1. CASE Start(d)
  BY <1>1 DEF Start, Goto, localVars
<1>2. CASE Connect(d)
  BY <1>2 DEF Connect, Goto, Set, Retry
<1>3. CASE TakeGlobal(d)
  BY <1>3 DEF TakeGlobal, Goto, Set, AskForHandle
<1>4. CASE FreeOld(d)
  BY <1>4 DEF FreeOld, Goto, Set, AskForHandle, cnc_freelibhndl, Open, Freed, FreeCodes, EW_OK, EW_BUSY, EW_HANDLE
<1>5. CASE ClearOld(d)
  BY <1>5 DEF ClearOld, Goto, Set, AskForHandle
<1>6. CASE TakeAnswer(d)
  BY <1>6 DEF TakeAnswer, Goto, Set, HandleRefused, Retry
<1>7. CASE Timeout(d)
  BY <1>7 DEF Timeout, Goto, Set, HandleRefused, Retry
<1>8. CASE Collect(d)
  BY <1>8 DEF Collect, Goto, localVars
<1>9. CASE Probe(d)
  BY <1>9 DEF Probe, Goto, Set, Retry
<1>10. CASE ReadTag(d)
  BY <1>10 DEF ReadTag, Set, Open
<1>11. CASE Publish(d)
  BY <1>11 DEF Publish, Goto, Set, Retry
<1>12. CASE Release(d)
  BY <1>12 DEF Release, Goto, Set, cnc_freelibhndl, Open, Freed, FreeCodes, EW_OK, EW_BUSY, EW_HANDLE
<1>13. CASE Unset(d)
  BY <1>13 DEF Unset, Goto, Set
<1>14. CASE Rest(d)
  BY <1>14 DEF Rest, Goto, localVars
<1>15. CASE GetHandle(d)
  BY <1>15 DEF GetHandle, Set, cnc_allclibhndl3, Open
<1>16. CASE LateAnswer(d)
  BY <1>16 DEF LateAnswer, Set, cnc_allclibhndl3, Open
<1> QED
  BY <1>1, <1>2, <1>3, <1>4, <1>5, <1>6, <1>7, <1>8, <1>9, <1>10, <1>11, <1>12, <1>13, <1>14, <1>15, <1>16 DEF Step, Library

LEMMA IInvInit == Init => IInv
BY TypeInit, FocasAssumption, CollectorAssumption
   DEF Init, IInv, OwnInv, Own, OwnInUse, OwnAtRest, NoneLeftOver, OwnAnswer, OwnScan, Using

LEMMA IInvNext == IInv /\ [Next]_vars => IInv'
<1> SUFFICES ASSUME IInv, [Next]_vars, NEW d \in Devices PROVE Own(d)'
  BY TypeNext DEF IInv, OwnInv
<1> USE DEF IInv, OwnInv
<1>1. CASE \E e \in Devices : Step(e) \/ Library(e)
  <2>1. PICK e \in Devices : Step(e) \/ Library(e)
    BY <1>1
  <2>2. CASE e = d
    BY <2>1, <2>2, OwnStep
  <2>3. CASE e # d
    BY <2>1, <2>3, OthersUndisturbed, Frame
  <2> QED
    BY <2>2, <2>3
<1>2. CASE Stop \/ UNCHANGED vars
  <2>1. Undisturbed(d)
    BY <1>2 DEF Stop, vars, localVars, Undisturbed
  <2> QED
    BY <2>1, Frame
<1> QED
  BY <1>1, <1>2 DEF Next, Ended

LEMMA IInvAlways == Spec => []IInv
BY IInvInit, IInvNext, PTL DEF Spec

\* No collector reads with or frees a number that leads to another CNC, and no
\* record mixes the data of two.
THEOREM HandlesAreOwn == Spec => []HoldsOwnHandle
<1>1. IInv => HoldsOwnHandle
  BY DEF IInv, OwnInv, Own, OwnInUse, OwnScan, HoldsOwnHandle
<1> QED
  BY <1>1, IInvAlways, PTL

\* The number kept between two activations is the device's own as well.
THEOREM RememberedHandlesAreOwn == Spec => []RemembersOwnHandle
<1>1. IInv => RemembersOwnHandle
  BY DEF IInv, OwnInv, Own, OwnAtRest, RemembersOwnHandle, Using
<1> QED
  BY <1>1, IInvAlways, PTL

-----------------------------------------------------------------------------
(* The plugin loses sight of an open connection only inside                *)
(* GetHandleWithTimeout.                                                   *)

\* Number h is in a variable of d, and not just freed.
Holds(d, h) ==
    \/ answer[d] = h
    \/ pc[d] \notin {"clear", "unset"} /\ h \in {handle[d], handles[d]}

\* A device that lets go of an open number owns it and waits for another.
LEMMA LetsGo ==
    ASSUME TypeOK, NEW d \in Devices, Own(d), Step(d) \/ Library(d),
           NEW h \in Handles, conn[h] # NoDevice, conn'[h] = conn[h],
           Holds(d, h), ~Holds(d, h)'
    PROVE  pc[d] = "wait" /\ conn[h] = d
<1> USE FocasAssumption, CollectorAssumption
    DEF TypeOK, Own, OwnInUse, OwnAtRest, NoneLeftOver, OwnAnswer, Using, Holds
<1>1. CASE Start(d)
  BY <1>1 DEF Start, Goto, localVars
<1>2. CASE Connect(d)
  BY <1>2 DEF Connect, Goto, Set, Retry
<1>3. CASE TakeGlobal(d)
  BY <1>3 DEF TakeGlobal, Goto, Set, AskForHandle
<1>4. CASE FreeOld(d)
  BY <1>4 DEF FreeOld, Goto, Set, AskForHandle, cnc_freelibhndl, Open, Freed, FreeCodes, EW_OK, EW_BUSY, EW_HANDLE
<1>5. CASE ClearOld(d)
  BY <1>5 DEF ClearOld, Goto, Set, AskForHandle
<1>6. CASE TakeAnswer(d)
  BY <1>6 DEF TakeAnswer, Goto, Set, HandleRefused, Retry
<1>7. CASE Timeout(d)
  BY <1>7 DEF Timeout, Goto, Set, HandleRefused, Retry
<1>8. CASE Collect(d)
  BY <1>8 DEF Collect, Goto, localVars
<1>9. CASE Probe(d)
  BY <1>9 DEF Probe, Goto, Set, Retry
<1>10. CASE ReadTag(d)
  BY <1>10 DEF ReadTag, Set, Open
<1>11. CASE Publish(d)
  BY <1>11 DEF Publish, Goto, Set, Retry
<1>12. CASE Release(d)
  BY <1>12 DEF Release, Goto, Set, cnc_freelibhndl, Open, Freed, FreeCodes, EW_OK, EW_BUSY, EW_HANDLE
<1>13. CASE Unset(d)
  BY <1>13 DEF Unset, Goto, Set
<1>14. CASE Rest(d)
  BY <1>14 DEF Rest, Goto, localVars
<1>15. CASE GetHandle(d)
  BY <1>15 DEF GetHandle, Set, cnc_allclibhndl3, Open
<1>16. CASE LateAnswer(d)
  BY <1>16 DEF LateAnswer, Set, cnc_allclibhndl3, Open
<1> QED
  BY <1>1, <1>2, <1>3, <1>4, <1>5, <1>6, <1>7, <1>8, <1>9, <1>10, <1>11, <1>12, <1>13, <1>14, <1>15, <1>16 DEF Step, Library

\* A failed free, a failed probe, a restart of the collector or the stop loses
\* no open connection; only GetHandleWithTimeout does.
THEOREM TrackIsKept == Spec => KeepsTrack
<1> DEFINE Kept == \A h \in Handles :
          conn[h] # NoDevice /\ conn'[h] = conn[h] /\ Referenced(h) /\ ~Referenced(h)'
              => pc[conn[h]] = "wait"
<1>1. ASSUME IInv, [Next]_vars PROVE [Kept]_vars
  <2> SUFFICES ASSUME NEW h \in Handles, conn[h] # NoDevice, conn'[h] = conn[h],
                      Referenced(h), ~Referenced(h)'
               PROVE  pc[conn[h]] = "wait"
    OBVIOUS
  <2>1. PICK d \in Devices : Holds(d, h) /\ ~Holds(d, h)'
    BY DEF Referenced, Holds
  <2>2. CASE \E e \in Devices : Step(e) \/ Library(e)
    <3>1. PICK e \in Devices : Step(e) \/ Library(e)
      BY <2>2
    <3>2. e = d
      BY <1>1, <2>1, <3>1, OthersUndisturbed DEF IInv, OwnInv, Undisturbed, Holds
    <3> QED
      BY <1>1, <2>1, <3>1, <3>2, LetsGo DEF IInv, OwnInv
  <2>3. CASE Stop \/ UNCHANGED vars
    BY <2>1, <2>3 DEF Stop, vars, localVars, Holds
  <2> QED
    BY <1>1, <2>2, <2>3 DEF Next, Ended
<1> QED
  BY <1>1, IInvAlways, PTL DEF Spec, KeepsTrack

-----------------------------------------------------------------------------
(* What the reader of the output sees.                                     *)

\* From the head of the activation to the handle the device is shown as off;
\* it is shown as on in the loop, or where the stop made the loop end.
Shown(d) ==
    /\ pc[d] \in {"connect", "take", "free", "clear", "wait"} => power_on[d] = "off"
    /\ power_on[d] = "on" => pc[d] \in Online \/ ~running

FeedInv == \A d \in Devices : Shown(d)

LEMMA FeedInit == Init => FeedInv
BY DEF Init, FeedInv, Shown

\* A step for a device keeps what is shown of it in agreement with its place.
LEMMA ShownStep ==
    ASSUME TypeOK, NEW d \in Devices, Shown(d), Step(d) \/ Library(d)
    PROVE  Shown(d)'
<1> USE DEF TypeOK, Shown, Online
<1>1. CASE Start(d)
  BY <1>1 DEF Start, Goto, localVars, Show
<1>2. CASE Connect(d)
  BY <1>2 DEF Connect, Goto, Retry, Show
<1>3. CASE TakeGlobal(d)
  BY <1>3 DEF TakeGlobal, Goto, AskForHandle
<1>4. CASE FreeOld(d)
  BY <1>4 DEF FreeOld, Goto, AskForHandle
<1>5. CASE ClearOld(d)
  BY <1>5 DEF ClearOld, Goto, AskForHandle
<1>6. CASE TakeAnswer(d)
  BY <1>6 DEF TakeAnswer, Goto, HandleRefused, Retry, Show
<1>7. CASE Timeout(d)
  BY <1>7 DEF Timeout, Goto, HandleRefused, Retry, Show
<1>8. CASE Collect(d)
  BY <1>8 DEF Collect, Goto, localVars
<1>9. CASE Probe(d)
  BY <1>9 DEF Probe, Goto, Retry, Show
<1>10. CASE ReadTag(d)
  BY <1>10 DEF ReadTag, Open
<1>11. CASE Publish(d)
  BY <1>11 DEF Publish, Goto, Retry, Show
<1>12. CASE Release(d)
  BY <1>12 DEF Release, Goto
<1>13. CASE Unset(d)
  BY <1>13 DEF Unset, Goto
<1>14. CASE Rest(d)
  BY <1>14 DEF Rest, Goto, localVars
<1>15. CASE GetHandle(d)
  BY <1>15 DEF GetHandle, cnc_allclibhndl3
<1>16. CASE LateAnswer(d)
  BY <1>16 DEF LateAnswer, cnc_allclibhndl3
<1> QED
  BY <1>1, <1>2, <1>3, <1>4, <1>5, <1>6, <1>7, <1>8, <1>9, <1>10, <1>11, <1>12, <1>13, <1>14, <1>15, <1>16 DEF Step, Library
\* A step for one device changes nothing of what is shown of another.
LEMMA OtherShows ==
    ASSUME TypeOK, NEW e \in Devices, Step(e) \/ Library(e), NEW d \in Devices, d # e
    PROVE  pc'[d] = pc[d] /\ power_on'[d] = power_on[d] /\ running' = running
<1> USE DEF TypeOK
<1>1. CASE Start(e)
  BY <1>1 DEF Start, Goto, Show, localVars
<1>2. CASE Connect(e)
  BY <1>2 DEF Connect, Goto, Show, Retry
<1>3. CASE TakeGlobal(e)
  BY <1>3 DEF TakeGlobal, Goto, AskForHandle
<1>4. CASE FreeOld(e)
  BY <1>4 DEF FreeOld, Goto, AskForHandle
<1>5. CASE ClearOld(e)
  BY <1>5 DEF ClearOld, Goto, AskForHandle
<1>6. CASE TakeAnswer(e)
  BY <1>6 DEF TakeAnswer, Goto, Show, HandleRefused, Retry
<1>7. CASE Timeout(e)
  BY <1>7 DEF Timeout, Goto, Show, HandleRefused, Retry
<1>8. CASE Collect(e)
  BY <1>8 DEF Collect, Goto, localVars
<1>9. CASE Probe(e)
  BY <1>9 DEF Probe, Goto, Show, Retry
<1>10. CASE ReadTag(e)
  BY <1>10 DEF ReadTag
<1>11. CASE Publish(e)
  BY <1>11 DEF Publish, Goto, Show, Retry
<1>12. CASE Release(e)
  BY <1>12 DEF Release, Goto
<1>13. CASE Unset(e)
  BY <1>13 DEF Unset, Goto
<1>14. CASE Rest(e)
  BY <1>14 DEF Rest, Goto, localVars
<1>15. CASE GetHandle(e)
  BY <1>15 DEF GetHandle
<1>16. CASE LateAnswer(e)
  BY <1>16 DEF LateAnswer
<1> QED
  BY <1>1, <1>2, <1>3, <1>4, <1>5, <1>6, <1>7, <1>8, <1>9, <1>10, <1>11, <1>12, <1>13, <1>14, <1>15, <1>16 DEF Step, Library

LEMMA FeedNext == TypeOK /\ FeedInv /\ [Next]_vars => FeedInv'
<1> SUFFICES ASSUME TypeOK, FeedInv, [Next]_vars, NEW d \in Devices PROVE Shown(d)'
  BY DEF FeedInv
<1>1. CASE \E e \in Devices : Step(e) \/ Library(e)
  <2>1. PICK e \in Devices : Step(e) \/ Library(e)
    BY <1>1
  <2>2. CASE e = d
    BY <2>1, <2>2, ShownStep DEF FeedInv
  <2>3. CASE e # d
    <3>1. pc'[d] = pc[d] /\ power_on'[d] = power_on[d] /\ running' = running
      BY <2>1, <2>3, OtherShows
    <3> QED
      BY <3>1 DEF FeedInv, Shown
  <2> QED
    BY <2>2, <2>3
<1>2. CASE Stop \/ UNCHANGED vars
  BY <1>2 DEF FeedInv, Shown, Stop, vars, localVars
<1> QED
  BY <1>1, <1>2 DEF Next, Ended

LEMMA FeedAlways == Spec => [](TypeOK /\ FeedInv)
BY TypeInit, FeedInit, TypeNext, FeedNext, PTL DEF Spec

\* A device is not shown as switched on while its collector is away from it and
\* the plugin runs.
THEOREM ShownOffWhileAway == Spec => []OffWhileAway
<1>1. FeedInv => OffWhileAway
  BY DEF FeedInv, Shown, OffWhileAway
<1> QED
  BY <1>1, FeedAlways, PTL

\* The five ways in which a step can change what the reader sees of d.
FeedEffect(d) ==
    LET on  == pc[d] \in Online
        on2 == pc'[d] \in Online
    IN  \/ on2 = on /\ power_on'[d] = power_on[d]
        \/ ~on /\ ~on2 /\ power_on'[d] = "off"
        \/ ~on /\ on2 /\ power_on[d] = "off" /\ power_on'[d] = power_on[d]
        \/ on /\ on2 /\ power_on'[d] = "on"
        \/ /\ on /\ ~on2
           /\ (power_on'[d] = "off" \/ (~running /\ power_on'[d] = power_on[d]))

LEMMA StepEffect ==
    ASSUME TypeOK, NEW d \in Devices, Shown(d), Step(d) \/ Library(d)
    PROVE  FeedEffect(d) /\ running' = running
<1> USE DEF TypeOK, Shown, Online, FeedEffect
<1>1. CASE Start(d)
  BY <1>1 DEF Start, Goto, Show, localVars
<1>2. CASE Connect(d)
  BY <1>2 DEF Connect, Goto, Show, Retry
<1>3. CASE TakeGlobal(d)
  BY <1>3 DEF TakeGlobal, Goto, AskForHandle
<1>4. CASE FreeOld(d)
  BY <1>4 DEF FreeOld, Goto, AskForHandle
<1>5. CASE ClearOld(d)
  BY <1>5 DEF ClearOld, Goto, AskForHandle
<1>6. CASE TakeAnswer(d)
  BY <1>6 DEF TakeAnswer, Goto, Show, HandleRefused, Retry
<1>7. CASE Timeout(d)
  BY <1>7 DEF Timeout, Goto, Show, HandleRefused, Retry
<1>8. CASE Collect(d)
  BY <1>8 DEF Collect, Goto, localVars
<1>9. CASE Probe(d)
  BY <1>9 DEF Probe, Goto, Show, Retry
<1>10. CASE ReadTag(d)
  BY <1>10 DEF ReadTag
<1>11. CASE Publish(d)
  BY <1>11 DEF Publish, Goto, Show, Retry
<1>12. CASE Release(d)
  BY <1>12 DEF Release, Goto
<1>13. CASE Unset(d)
  BY <1>13 DEF Unset, Goto
<1>14. CASE Rest(d)
  BY <1>14 DEF Rest, Goto, localVars
<1>15. CASE GetHandle(d)
  BY <1>15 DEF GetHandle
<1>16. CASE LateAnswer(d)
  BY <1>16 DEF LateAnswer
<1> QED
  BY <1>1, <1>2, <1>3, <1>4, <1>5, <1>6, <1>7, <1>8, <1>9, <1>10, <1>11, <1>12, <1>13, <1>14, <1>15, <1>16 DEF Step, Library

\* Every step for a device is a step of its feed, or leaves the feed alone.
LEMMA FeedStep ==
    ASSUME TypeOK, TypeOK', NEW d \in Devices, Shown(d), Step(d) \/ Library(d)
    PROVE  [Feed!Next]_Feed!feed
<1> DEFINE on == {e \in Devices : pc[e] \in Online}
<1>1. FeedEffect(d) /\ running' = running
  BY StepEffect
<1>2. \A e \in Devices \ {d} : pc'[e] = pc[e] /\ power_on'[e] = power_on[e]
  BY OtherShows
<1>3. power_on' = [power_on EXCEPT ![d] = power_on'[d]]
  BY <1>2 DEF TypeOK
<1>4. CASE (pc'[d] \in Online) = (pc[d] \in Online) /\ power_on'[d] = power_on[d]
  <2>1. on' = on
    BY <1>2, <1>4
  <2>2. power_on' = power_on
    BY <1>3, <1>4 DEF TypeOK
  <2> QED
    BY <1>1, <2>1, <2>2 DEF Feed!feed
<1>5. CASE pc[d] \notin Online /\ pc'[d] \notin Online /\ power_on'[d] = "off"
  <2>1. on' = on
    BY <1>2, <1>5
  <2> QED
    BY <1>1, <1>3, <1>5, <2>1 DEF Feed!Next, Feed!Announce
<1>6. CASE /\ pc[d] \notin Online /\ pc'[d] \in Online
           /\ power_on[d] = "off" /\ power_on'[d] = power_on[d]
  <2>1. on' = on \union {d}
    BY <1>2, <1>6
  <2>2. power_on' = power_on
    BY <1>3, <1>6 DEF TypeOK
  <2> QED
    BY <1>1, <1>6, <2>1, <2>2 DEF Feed!Next, Feed!GoOnline
<1>7. CASE pc[d] \in Online /\ pc'[d] \in Online /\ power_on'[d] = "on"
  <2>1. on' = on
    BY <1>2, <1>7
  <2> QED
    BY <1>1, <1>3, <1>7, <2>1 DEF Feed!Next, Feed!Sample
<1>8. CASE /\ pc[d] \in Online /\ pc'[d] \notin Online
           /\ (power_on'[d] = "off" \/ (~running /\ power_on'[d] = power_on[d]))
  <2>1. on' = on \ {d}
    BY <1>2, <1>8
  <2>2. power_on' = [power_on EXCEPT ![d] = "off"] \/ (~running /\ power_on' = power_on)
    BY <1>3, <1>8 DEF TypeOK
  <2> QED
    BY <1>1, <1>8, <2>1, <2>2 DEF Feed!Next, Feed!GoOffline
<1> QED
  BY <1>1, <1>4, <1>5, <1>6, <1>7, <1>8 DEF FeedEffect

\* The collectors implement DeviceFeed.
THEOREM FeedIsImplemented == Spec => ImplementsFeed
<1>1. Init => Feed!Init
  BY DEF Init, Feed!Init, Online
<1>2. TypeOK /\ TypeOK' /\ FeedInv /\ [Next]_vars => [Feed!Next]_Feed!feed
  <2> SUFFICES ASSUME TypeOK, TypeOK', FeedInv, [Next]_vars
               PROVE  [Feed!Next]_Feed!feed
    OBVIOUS
  <2>1. CASE \E d \in Devices : Step(d) \/ Library(d)
    BY <2>1, FeedStep DEF FeedInv
  <2>2. CASE Stop
    BY <2>2 DEF Stop, Feed!Next, Feed!Stop
  <2>3. CASE UNCHANGED vars
    BY <2>3 DEF vars, Feed!feed
  <2> QED
    BY <2>1, <2>2, <2>3 DEF Next, Ended
<1> QED
  BY <1>1, <1>2, FeedAlways, PTL DEF Spec, Feed!Spec, ImplementsFeed

-----------------------------------------------------------------------------
(* The way to the end after the stop.                                      *)

\* After the stop a step of a collector is one that brings it nearer to its end.
LEMMA NearerStep ==
    ASSUME TypeOK, NEW d \in Devices, ~running, Step(d)
    PROVE  Nearer(d)
<1> USE CollectorAssumption DEF TypeOK, Nearer, ToGo
<1>1. CASE Start(d)
  BY <1>1 DEF Start, Goto, Show, localVars
<1>2. CASE Connect(d)
  BY <1>2 DEF Connect, Goto, Show, Retry, GivesUp, Set
<1>3. CASE TakeGlobal(d)
  BY <1>3 DEF TakeGlobal, Goto, AskForHandle
<1>4. CASE FreeOld(d)
  BY <1>4 DEF FreeOld, Goto, AskForHandle
<1>5. CASE ClearOld(d)
  BY <1>5 DEF ClearOld, Goto, AskForHandle
<1>6. CASE TakeAnswer(d)
  BY <1>6 DEF TakeAnswer, Goto, Show, HandleRefused, Retry, GivesUp, Set
<1>7. CASE Timeout(d)
  BY <1>7 DEF Timeout, Goto, Show, HandleRefused, Retry, GivesUp, Set
<1>8. CASE Collect(d)
  BY <1>8 DEF Collect, Goto, localVars
<1>9. CASE Probe(d)
  BY <1>9 DEF Probe, Goto, Show, Retry
<1>10. CASE ReadTag(d)
  BY <1>10 DEF ReadTag, Set
<1>11. CASE Publish(d)
  BY <1>11 DEF Publish, Goto, Show, Retry
<1>12. CASE Release(d)
  BY <1>12 DEF Release, Goto
<1>13. CASE Unset(d)
  BY <1>13 DEF Unset, Goto
<1>14. CASE Rest(d)
  BY <1>14 DEF Rest, Goto, localVars
<1> QED
  BY <1>1, <1>2, <1>3, <1>4, <1>5, <1>6, <1>7, <1>8, <1>9, <1>10, <1>11, <1>12, <1>13,
     <1>14 DEF Step

\* After the stop every step of a collector takes it nearer to its end, is one of at most
\* MaxConnect or MaxGetHandle attempts, or reads one more tag.
THEOREM CollectorsWindDown == Spec => WindsDown
<1>1. TypeOK /\ [Next]_vars
          => [\A d \in Devices : ~running /\ Step(d) => Nearer(d)]_vars
  BY NearerStep
<1> QED
  BY <1>1, TypeCorrect, PTL DEF Spec, WindsDown
=============================================================================

------------------------------ MODULE CncTime ------------------------------
(***************************************************************************)
(* GetOperationTime and GetCuttingTime.  The CNC keeps such a time in two  *)
(* parameters, the milliseconds of the current minute and the minutes, and *)
(* the getters read them with two calls while the time goes on.            *)
(* (GetCycleTime does the same with a time that also starts anew with each *)
(* cycle, of which the property below says nothing.)                       *)
(*                                                                         *)
(* ErrorIgnored, which no action uses, is a faulty variant of the first    *)
(* call that the property is tried against.                                *)
(***************************************************************************)
EXTENDS Integers

CONSTANTS Minute,   \* milliseconds of a minute (60000)
          NoTime,   \* the getter has not returned a time
          MaxTime   \* bound: where the model's time ends

ASSUME CncTimeAssumption ==
    /\ Minute \in Nat \ {0}
    /\ MaxTime \in Nat
    /\ NoTime \notin Nat

VARIABLES time,   \* the time of the CNC, in milliseconds
          place,  \* "idle", or "between" the two calls
          buf_1,  \* what the first call has read
          begun,  \* history: the time at the first call
          result  \* the time returned last, in milliseconds, or NoTime

vars == <<time, place, buf_1, begun, result>>

Init ==
    /\ time \in 0 .. MaxTime
    /\ place = "idle"
    /\ buf_1 = 0
    /\ begun = time
    /\ result = NoTime

Tick ==
    /\ time < MaxTime
    /\ time' = time + 1
    /\ UNCHANGED <<place, buf_1, begun, result>>

ErrorIgnored ==
    /\ place = "idle"
    /\ place' = "between"
    /\ buf_1' \in {time % Minute, buf_1}
    /\ begun' = time
    /\ result' = NoTime
    /\ UNCHANGED time

\* Parameter 6751 (6753); an error of the library ends the getter.
ReadMillis ==
    /\ place = "idle"
    /\ \/ place' = "between" /\ buf_1' = time % Minute
       \/ UNCHANGED <<place, buf_1>>
    /\ begun' = time
    /\ result' = NoTime
    /\ UNCHANGED time

\* Parameter 6752 (6754), and the sum of both.
ReadMinutes ==
    /\ place = "between"
    /\ place' = "idle"
    /\ result' \in {(time \div Minute) * Minute + buf_1, NoTime}
    /\ UNCHANGED <<time, buf_1, begun>>

Next == Tick \/ ReadMillis \/ ReadMinutes

Spec == Init /\ [][Next]_vars

-----------------------------------------------------------------------------
(* Correctness.                                                            *)

\* The two readings may fall on two sides of a full minute, but the sum is never
\* behind the CNC, and ahead of it by less than a minute; it is exact as long as
\* no minute ends between the calls.
TimeIsNotBehind ==
    [][result' # result /\ result' # NoTime
          => /\ begun <= result' /\ result' < time + Minute
             /\ begun \div Minute = time \div Minute => result' = begun]_vars
=============================================================================

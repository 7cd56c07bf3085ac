--------------------------- MODULE CncTimeProofs ---------------------------
(* Proof that a time read in two calls is never behind the CNC. *)
EXTENDS CncTime, TLAPS

\* A time is its whole minutes and less than a minute.
LEMMA Division ==
    ASSUME NEW t \in Nat
    PROVE  /\ t \div Minute \in Nat
           /\ t % Minute \in 0 .. Minute - 1
           /\ t = (t \div Minute) * Minute + (t % Minute)
BY CncTimeAssumption, Z3

\* A later time has no fewer whole minutes.
LEMMA DivisionGrows ==
    ASSUME NEW s \in Nat, NEW t \in Nat, s <= t
    PROVE  (s \div Minute) * Minute <= (t \div Minute) * Minute
BY CncTimeAssumption, Z3

\* The inductive invariant: between the calls the first reading is that of their
\* begin, which is not later than now.
IInv ==
    /\ time \in Nat
    /\ begun \in Nat
    /\ place = "between" => begun <= time /\ buf_1 = begun % Minute

LEMMA IInvInit == Init => IInv
BY CncTimeAssumption DEF Init, IInv

LEMMA IInvNext == IInv /\ [Next]_vars => IInv'
<1> SUFFICES ASSUME IInv, [Next]_vars PROVE IInv'
  OBVIOUS
<1>1. CASE Tick
  BY <1>1 DEF IInv, Tick
<1>2. CASE ReadMillis
  BY <1>2 DEF IInv, ReadMillis
<1>3. CASE ReadMinutes
  BY <1>3 DEF IInv, ReadMinutes
<1>4. CASE UNCHANGED vars
  BY <1>4 DEF IInv, vars
<1> QED
  BY <1>1, <1>2, <1>3, <1>4 DEF Next

\* For a minute of any length: the time returned is not behind the CNC, less than
\* a minute ahead of it, and exact if no minute ends between the calls.
THEOREM TimeReadNotBehind == Spec => TimeIsNotBehind
<1> DEFINE Good == result' # result /\ result' # NoTime
          => /\ begun <= result' /\ result' < time + Minute
             /\ begun \div Minute = time \div Minute => result' = begun
<1>1. IInv /\ [Next]_vars => [Good]_vars
  <2> SUFFICES ASSUME IInv, [Next]_vars, result' # result, result' # NoTime
               PROVE  /\ begun <= result' /\ result' < time + Minute
                      /\ begun \div Minute = time \div Minute => result' = begun
    OBVIOUS
  <2>1. /\ place = "between"
        /\ result' = (time \div Minute) * Minute + buf_1
    BY DEF Next, Tick, ReadMillis, ReadMinutes, vars
  <2>2. begun \in Nat /\ time \in Nat /\ begun <= time /\ buf_1 = begun % Minute
    BY <2>1 DEF IInv
  <2> DEFINE b == (begun \div Minute) * Minute
             t == (time \div Minute) * Minute
  <2>3. b \in Nat /\ t \in Nat /\ Minute \in Nat
    BY <2>2, Division, CncTimeAssumption
  <2>4. /\ begun = b + buf_1 /\ buf_1 \in 0 .. Minute - 1
        /\ t <= time /\ b <= t
    <3>1. time % Minute \in 0 .. Minute - 1 /\ time = t + (time % Minute)
      BY <2>2, Division
    <3>2. buf_1 \in 0 .. Minute - 1 /\ begun = b + buf_1
      BY <2>2, Division
    <3>3. b <= t
      BY <2>2, DivisionGrows
    <3>4. t <= time
      <4> HIDE DEF b, t
      <4> QED
        BY <2>2, <2>3, <3>1
    <3> QED
      BY <3>2, <3>3, <3>4
  <2>5. begun \div Minute = time \div Minute => t = b
    OBVIOUS
  <2> HIDE DEF b, t
  <2> QED
    BY <2>1, <2>2, <2>3, <2>4, <2>5 DEF b, t
<1> QED
  BY <1>1, IInvInit, IInvNext, PTL DEF Spec, TimeIsNotBehind
=============================================================================

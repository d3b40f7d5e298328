------------------------ MODULE WaitForObject_proofs -------------------------
(***************************************************************************)
(* Theorems about WaitForObject for every interval, timeout and latency:   *)
(* what its answers mean, and that it misses no readiness in time.         *)
(***************************************************************************)
EXTENDS WaitForObject, TLAPS

(* Between two reads the last one has found an object that is not ready,   *)
(* and its error is the last error.                                        *)
AnswerInv ==
  /\ pc = "sleep" =>
       /\ lastRead \in {"absent", "unknown", "false"}
       /\ lastError = IF lastRead = "absent" THEN "NotFound" ELSE Check(lastRead).err
  /\ NilMeansHealthy
  /\ ErrorIsCurrent

(* The clock runs at most a Latency past the start of a read and at most   *)
(* an Interval past that of the one before; an object that is ready now    *)
(* and was not read as such became so after the last completed read began. *)
ClockInv ==
  /\ pc = "get" => now <= started + Latency
  /\ pc = "sleep" => now <= started + Interval
  /\ pc = "get" /\ object = "true" => started <= since + Interval
  /\ pc = "sleep" /\ object = "true" => started <= since
  /\ NoMissedReadiness

Inv == TypeOK /\ AnswerInv /\ ClockInv

LEMMA ErrorTypes == \A o \in {"unknown", "false"} : Check(o).err \in Errors
BY DEF Check, Answer, Errors

LEMMA InitInv == Init => Inv
<1> SUFFICES ASSUME Init PROVE Inv
  OBVIOUS
<1>1. TypeOK
  <2>1. /\ since \in 0 .. now /\ started \in 0 .. now /\ now \in 0 .. Timeout
        /\ changes \in 0 .. MaxChanges
    BY TimesAssumption DEF Init
  <2>2. failFast \in BOOLEAN /\ canceled \in BOOLEAN
    BY DEF Init
  <2> QED
    BY <2>1, <2>2 DEF Init, TypeOK
<1>2. AnswerInv
  BY DEF Init, AnswerInv, NilMeansHealthy, ErrorIsCurrent, Ended
<1>3. ClockInv
  BY TimesAssumption DEF Init, ClockInv, NoMissedReadiness
<1> QED
  BY <1>1, <1>2, <1>3 DEF Inv

(* The steps that only the clock and the outside take.                     *)
LEMMA OutsideStep ==
  ASSUME Inv, Tick \/ Cancel \/ ObjectChanges \/ UNCHANGED vars
  PROVE  Inv'
<1> USE TimesAssumption DEF Inv
<1>1. CASE Tick
  <2>1. now \in Nat /\ now < Timeout /\ now' = now + 1
    BY <1>1 DEF Tick, TypeOK, Ended, Expired
  <2>2. TypeOK'
    BY <1>1, <2>1 DEF Tick, TypeOK, outside
  <2>3. AnswerInv'
    BY <1>1 DEF Tick, AnswerInv, NilMeansHealthy, ErrorIsCurrent, outside, Check, Answer
  <2>4. ClockInv'
    BY <1>1, <2>1 DEF Tick, ClockInv, NoMissedReadiness, outside, TypeOK, Ended
  <2> QED
    BY <2>2, <2>3, <2>4
<1>2. CASE Cancel
  <2>1. TypeOK'
    BY <1>2 DEF Cancel, TypeOK, outside
  <2>2. AnswerInv'
    BY <1>2 DEF Cancel, AnswerInv, NilMeansHealthy, ErrorIsCurrent, outside, Check, Answer
  <2>3. ClockInv'
    BY <1>2 DEF Cancel, ClockInv, NoMissedReadiness, outside
  <2> QED
    BY <2>1, <2>2, <2>3
<1>3. CASE ObjectChanges
  <2>1. TypeOK'
    BY <1>3 DEF ObjectChanges, TypeOK
  <2>2. AnswerInv'
    BY <1>3 DEF ObjectChanges, AnswerInv, NilMeansHealthy, ErrorIsCurrent, Check, Answer, Ended
  <2>3. ClockInv'
    BY <1>3 DEF ObjectChanges, ClockInv, NoMissedReadiness, TypeOK, Ended
  <2> QED
    BY <2>1, <2>2, <2>3
<1>4. CASE UNCHANGED vars
  BY <1>4 DEF vars, TypeOK, AnswerInv, ClockInv, NilMeansHealthy, ErrorIsCurrent,
              NoMissedReadiness, Check, Answer
<1> QED
  BY <1>1, <1>2, <1>3, <1>4

LEMMA WorkerStep == ASSUME Inv, Worker PROVE Inv'
<1> USE TimesAssumption DEF Inv
<1>1. CASE GetNotFound
  <2>1. TypeOK'
    BY <1>1 DEF GetNotFound, Absent, TypeOK, outside, Errors, Objects
  <2>2. AnswerInv'
    BY <1>1 DEF GetNotFound, Absent, AnswerInv, NilMeansHealthy, ErrorIsCurrent, Ended
  <2>3. ClockInv'
    BY <1>1 DEF GetNotFound, Absent, ClockInv, NoMissedReadiness, outside, TypeOK
  <2> QED
    BY <2>1, <2>2, <2>3
<1>2. CASE GetAndCheck
  <2>1. object \in {"unknown", "true", "false"}
    BY <1>2 DEF GetAndCheck, TypeOK, Objects
  <2>2. TypeOK'
    BY <1>2, <2>1 DEF GetAndCheck, TypeOK, outside, Errors, Objects, Ended, End, Check, Answer
  <2>3. AnswerInv'
    BY <1>2, <2>1
       DEF GetAndCheck, AnswerInv, NilMeansHealthy, ErrorIsCurrent, Ended, End, outside,
           Check, Answer
  <2>4. ClockInv'
    BY <1>2, <2>1
       DEF GetAndCheck, ClockInv, NoMissedReadiness, outside, TypeOK, End, Check, Answer
  <2> QED
    BY <2>2, <2>3, <2>4
<1>3. CASE GetFails
  <2>1. PICK e \in {"api", "deadlineExceeded", "canceled"} :
          /\ lastError' = e /\ End("severe", e)
          /\ e # "api" => (Expired \/ canceled)
    BY <1>3 DEF GetFails, ContextError
  <2>2. /\ pc = "get" /\ pc' = "severe" /\ result' = e
        /\ UNCHANGED <<outside, now, started, canceled, lastRead>>
    BY <1>3, <2>1 DEF GetFails, End
  <2>3. TypeOK'
    BY <2>1, <2>2 DEF TypeOK, outside, Errors, Ended
  <2>4. AnswerInv'
    BY <2>1, <2>2 DEF AnswerInv, NilMeansHealthy, ErrorIsCurrent, Ended
  <2>5. ClockInv'
    BY <2>1, <2>2 DEF ClockInv, NoMissedReadiness, outside, TypeOK, Expired
  <2> QED
    BY <2>3, <2>4, <2>5
<1>4. CASE Poll
  <2>1. TypeOK'
    BY <1>4 DEF Poll, PollWhen, TypeOK, outside
  <2>2. AnswerInv'
    BY <1>4 DEF Poll, PollWhen, AnswerInv, NilMeansHealthy, ErrorIsCurrent, Ended
  <2>3. ClockInv'
    BY <1>4 DEF Poll, PollWhen, ClockInv, NoMissedReadiness, outside, TypeOK
  <2> QED
    BY <2>1, <2>2, <2>3
<1>5. CASE GiveUp
  <2>1. /\ pc = "sleep" /\ pc' = "expired" /\ result' = LastError
        /\ Expired \/ canceled
        /\ UNCHANGED <<outside, now, started, canceled, lastError, lastRead>>
    BY <1>5 DEF GiveUp, ReturnWhen, End
  <2>2. lastError \in Errors /\ LastError = lastError /\ lastError # "nil"
    <3>1. "nil" \notin Errors
      BY DEF Errors
    <3>2. lastError \in Errors
      BY <2>1, ErrorTypes DEF AnswerInv, Errors
    <3> QED
      BY <3>1, <3>2 DEF LastError
  <2>3. TypeOK'
    BY <2>1, <2>2 DEF TypeOK, outside, Ended
  <2>4. AnswerInv'
    BY <2>1, <2>2 DEF AnswerInv, NilMeansHealthy, ErrorIsCurrent, Ended, outside, Check, Answer
  <2>5. ClockInv'
    BY <2>1, <2>2 DEF ClockInv, NoMissedReadiness, outside, TypeOK, Expired
  <2> QED
    BY <2>3, <2>4, <2>5
<1> QED
  BY <1>1, <1>2, <1>3, <1>4, <1>5 DEF Worker

THEOREM InvariantHolds == Spec => []Inv
<1>1. Inv /\ [Next]_vars => Inv'
  BY OutsideStep, WorkerStep DEF Next
<1> QED
  BY <1>1, InitInv, PTL DEF Spec

-----------------------------------------------------------------------------
(* The results.                                                            *)

(* Every variable keeps its type.                                          *)
THEOREM TypeCorrect == Spec => []TypeOK
BY InvariantHolds, PTL DEF Inv

(* nil is returned exactly for an object that was read as ready.           *)
THEOREM NilIsHealthy == Spec => []NilMeansHealthy
BY InvariantHolds, PTL DEF Inv, AnswerInv

(* A wait that gives up reports its last answer.                           *)
THEOREM ReportsLastAnswer == Spec => []ErrorIsCurrent
BY InvariantHolds, PTL DEF Inv, AnswerInv

(* No readiness in time is missed, for any interval, timeout and latency   *)
(* that is at most the interval.                                           *)
THEOREM ReadinessIsSeen == Spec => []NoMissedReadiness
BY InvariantHolds, PTL DEF Inv, ClockInv

LEMMA FewerReads ==
  ASSUME NEW t \in Nat, NEW n \in Nat, NEW s \in Nat, NEW next \in Nat,
         n <= t, next <= n, next >= s + 1
  PROVE  2 * (t - next) + (t - n) + 1 \in 0 .. (2 * (t - s) + (t - n) + 0) - 1
OBVIOUS

(* Each step of a wait ends it or leaves it with less to do: the safety    *)
(* part of its termination, for every interval and timeout.                *)
THEOREM EachStepRunsDown == Spec => RunsDown
<1>1. ASSUME Inv, Inv', [Next]_vars, pc' \notin Ended
      PROVE  UNCHANGED <<pc, now, started>> \/ Remaining' \in 0 .. Remaining - 1
  <2>1. /\ Timeout \in Nat /\ Interval \in Nat \ {0}
        /\ now \in 0 .. Timeout /\ started \in 0 .. now
        /\ now' \in 0 .. Timeout /\ started' \in 0 .. now'
    BY <1>1, TimesAssumption DEF Inv, TypeOK
  <2>2. CASE GetNotFound \/ GetAndCheck
    <3>1. pc = "get" /\ pc' = "sleep" /\ now' = now /\ started' = started
      BY <1>1, <2>2 DEF GetNotFound, Absent, GetAndCheck, End, Ended
    <3> QED
      BY <2>1, <3>1 DEF Remaining
  <2>3. CASE GetFails \/ GiveUp
    BY <1>1, <2>3 DEF GetFails, GiveUp, ReturnWhen, End, Ended
  <2>4. CASE Poll
    <3>1. pc = "sleep" /\ pc' = "get" /\ now' = now /\ started' >= started + 1
      BY <2>1, <2>4 DEF Poll, PollWhen
    <3>2. /\ Remaining = 2 * (Timeout - started) + (Timeout - now) + 0
          /\ Remaining' = 2 * (Timeout - started') + (Timeout - now) + 1
      BY <3>1 DEF Remaining
    <3>3. /\ Timeout \in Nat /\ started \in Nat /\ started' \in Nat /\ now \in Nat
          /\ started' <= now /\ now <= Timeout /\ started' >= started + 1
      BY <2>1, <3>1
    <3>4. 2 * (Timeout - started') + (Timeout - now) + 1
            \in 0 .. (2 * (Timeout - started) + (Timeout - now) + 0) - 1
      BY <3>3, FewerReads
    <3> QED
      BY <3>2, <3>4
  <2>5. CASE Tick
    <3>1. pc' = pc /\ now' = now + 1 /\ started' = started
      BY <2>5 DEF Tick
    <3> QED
      BY <2>1, <3>1 DEF Remaining
  <2>6. CASE Cancel \/ ObjectChanges \/ UNCHANGED vars
    BY <2>6 DEF Cancel, ObjectChanges, vars
  <2> QED
    BY <1>1, <2>2, <2>3, <2>4, <2>5, <2>6 DEF Next, Worker
<1>2. Inv /\ Inv' /\ [Next]_vars =>
        [pc' \in Ended \/ UNCHANGED <<pc, now, started>>
           \/ Remaining' \in 0 .. Remaining - 1]_vars
  BY <1>1
<1> QED
  BY <1>2, InvariantHolds, PTL DEF Spec, RunsDown

=============================================================================

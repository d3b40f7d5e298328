--------------------------- MODULE WaitForObject ----------------------------
(***************************************************************************)
(* WaitForObject (pkg/controller/extension/actuator.go): read an object at *)
(* once and then every Interval until a check is done with it, a read      *)
(* fails, the Timeout passes or the caller's context is cancelled.  Time   *)
(* is counted in ticks; a read is answered within Latency ticks, or is cut *)
(* off when the context ends.                                              *)
(*                                                                         *)
(* FluxActuator has the wait as a step that succeeds if the object is      *)
(* healthy and may fail otherwise.                                         *)
(***************************************************************************)
EXTENDS Naturals

CONSTANTS
  Interval,    \* ticks between the starts of two reads
  Timeout,     \* ticks until the context given to the reads expires
  Latency,     \* the longest time a read takes
  MaxChanges   \* bound: changes of the object

ASSUME TimesAssumption ==
  /\ Interval \in Nat \ {0}
  /\ Timeout \in Nat
  /\ Latency \in 0 .. Interval
  /\ MaxChanges \in Nat

(* The object: not there, there without Ready condition (or "Unknown"), or *)
(* with Ready True or False.                                               *)
Objects == {"absent", "unknown", "true", "false"}
Errors == {"NotFound", "notReconciled", "reconciliationFailed", "api",
           "deadlineExceeded", "canceled"}
Ended == {"healthy", "failed", "severe", "expired"}

VARIABLES
  failFast,   \* TRUE: CheckFluxObject; FALSE: the checks of installFlux
  object,     \* what the API server would answer
  since,      \* history: the tick at which the object last changed
  changes,    \* used budget
  now,        \* the clock
  pc,         \* "get", "sleep" or how the wait ended
  started,    \* the tick at which the last read started
  canceled,   \* the caller's context has been cancelled
  lastError,  \* the variable of that name; "nil" if there is no error
  result,     \* the returned error, or "nil"
  lastRead    \* history: the object as last read, "none" before that

vars == <<failFast, object, since, changes, now, pc, started, canceled, lastError, result, lastRead>>
outside == <<failFast, object, since, changes>>

Expired == now >= Timeout
ContextError == IF canceled THEN "canceled" ELSE "deadlineExceeded"

(* ConditionFunc: done, and the error; pending: that of an object that is  *)
(* not reconciled yet.                                                     *)
Answer(o, pending) ==
  CASE o = "true" -> [done |-> TRUE, err |-> "nil"]
    [] o = "false" -> [done |-> failFast, err |-> "reconciliationFailed"]
    [] o = "unknown" -> [done |-> FALSE, err |-> pending]

(* Mutant: a pending object is not an error.                               *)
Check_PendingIsNil(o) == Answer(o, "nil")

Check(o) == Answer(o, "notReconciled")

Init ==
  /\ failFast \in BOOLEAN
  /\ object \in Objects
  /\ since = 0
  /\ changes = 0
  /\ now = 0
  /\ pc = "get"
  /\ started = 0
  /\ canceled = FALSE
  /\ lastError = "nil"
  /\ result = "nil"
  /\ lastRead = "none"

End(label, err) == pc' = label /\ result' = err

Absent(err) ==
  /\ pc = "get"
  /\ object = "absent"
  /\ lastRead' = object
  /\ lastError' = err
  /\ pc' = "sleep"
  /\ UNCHANGED <<outside, now, started, canceled, result>>

(* Mutant: an absent object does not replace the last error.               *)
GetNotFound_KeepsError == Absent(lastError)

(* The object is not there: keep waiting.                                  *)
GetNotFound == Absent("NotFound")

GetAndCheck ==
  /\ pc = "get"
  /\ object # "absent"
  /\ lastRead' = object
  /\ LET c == Check(object) IN
       /\ lastError' = c.err
       /\ IF ~c.done THEN pc' = "sleep" /\ UNCHANGED result
          ELSE IF c.err = "nil" THEN End("healthy", "nil")
          ELSE End("failed", c.err)
  /\ UNCHANGED <<outside, now, started, canceled>>

(* Any other error ends the wait, the end of the context during the read   *)
(* among them.                                                             *)
GetFails ==
  /\ pc = "get"
  /\ \E e \in {"api"} \union (IF Expired \/ canceled THEN {ContextError} ELSE {}) :
       lastError' = e /\ End("severe", e)
  /\ UNCHANGED <<outside, now, started, canceled, lastRead>>

(* wait.PollUntilContextTimeout starts the next read when it is due ...    *)
PollWhen(due) ==
  /\ pc = "sleep"
  /\ due
  /\ ~Expired /\ ~canceled
  /\ started' = now
  /\ pc' = "get"
  /\ UNCHANGED <<outside, now, canceled, lastError, result, lastRead>>

(* Mutant: a read that was answered quickly is followed by the next one.   *)
Poll_Early == PollWhen(TRUE)

Poll == PollWhen(now >= started + Interval)

(* ... and returns when the context ends.                                  *)
ReturnWhen(ends, err) ==
  /\ pc = "sleep"
  /\ ends
  /\ End("expired", err)
  /\ UNCHANGED <<outside, now, started, canceled, lastError, lastRead>>

LastError == IF lastError # "nil" THEN lastError ELSE ContextError

(* Mutants: not found is not an error when a wait gives up; the wait polls *)
(* until it is cancelled, without a timeout; it gives up on an object that *)
(* is not there.                                                           *)
GiveUp_Nil ==
  ReturnWhen(Expired \/ canceled, IF lastRead = "absent" THEN "nil" ELSE LastError)
GiveUp_NoTimeout == ReturnWhen(canceled, LastError)
GiveUp_WhenAbsent == ReturnWhen(Expired \/ canceled \/ lastRead = "absent", LastError)

(* The last error observed replaces the error of the context.              *)
GiveUp == ReturnWhen(Expired \/ canceled, LastError)

Cancel ==
  /\ pc \notin Ended
  /\ ~canceled
  /\ canceled' = TRUE
  /\ UNCHANGED <<outside, now, pc, started, lastError, result, lastRead>>

(* Time passes, but not over the answer to a read or a timer that is due.  *)
Tick ==
  /\ pc = "get" => now < started + Latency /\ ~Expired /\ ~canceled
  /\ pc = "sleep" => now < started + Interval /\ ~Expired /\ ~canceled
  /\ pc \notin Ended
  /\ now' = now + 1
  /\ UNCHANGED <<outside, pc, started, canceled, lastError, result, lastRead>>

ObjectChanges ==
  /\ pc \notin Ended
  /\ changes < MaxChanges
  /\ changes' = changes + 1
  /\ object' \in Objects \ {object}
  /\ since' = now
  /\ UNCHANGED <<failFast, now, pc, started, canceled, lastError, result, lastRead>>

Worker == GetNotFound \/ GetAndCheck \/ GetFails \/ Poll \/ GiveUp

Next == Worker \/ Tick \/ Cancel \/ ObjectChanges

Spec == Init /\ [][Next]_vars

(* Reads are answered or cut off, timers fire, and time goes on.           *)
FairSpec == Spec /\ WF_vars(Worker) /\ WF_vars(Tick)

-----------------------------------------------------------------------------
(* Properties.                                                             *)

(* Every variable keeps its type, no read starts after the timeout, and    *)
(* once there is an answer the last error is only nil for a ready object.  *)
TypeOK ==
  /\ failFast \in BOOLEAN
  /\ object \in Objects
  /\ since \in 0 .. now
  /\ changes \in 0 .. MaxChanges
  /\ now \in 0 .. Timeout
  /\ pc \in {"get", "sleep"} \union Ended
  /\ started \in 0 .. now
  /\ canceled \in BOOLEAN
  /\ lastError \in Errors \union {"nil"}
  /\ result \in Errors \union {"nil"}
  /\ lastRead \in Objects \union {"none"}
  /\ lastError = "nil" => lastRead \in {"none", "true"}

(* nil is returned exactly for an object that was read as ready: a wait    *)
(* that ends in any other way, by whatever race of timeout, cancellation   *)
(* and last answer, reports an error.                                      *)
NilMeansHealthy ==
  pc \in Ended => ((result = "nil") <=> (pc = "healthy" /\ lastRead = "true"))

(* An object that is ready long enough before the timeout for one read to  *)
(* be due and answered is not missed, be it between two reads or by a read *)
(* that the timeout cuts off.                                              *)
NoMissedReadiness ==
  pc \in {"expired", "severe"} /\ result # "api" /\ ~canceled =>
    object # "true" \/ since + Interval + Latency >= Timeout

(* A wait that gives up says what the last answer was, not what an earlier *)
(* one was.                                                                *)
ErrorIsCurrent ==
  pc = "expired" =>
    result = (IF lastRead = "absent" THEN "NotFound" ELSE Check(lastRead).err)

(* How much a wait can still do: each read it may start counts for two,    *)
(* its answer for one, and so does each tick of the clock.                 *)
Remaining ==
  2 * (Timeout - started) + (Timeout - now) + (IF pc = "get" THEN 1 ELSE 0)

(* Whatever the answers are, and however the object changes meanwhile, a   *)
(* step of the wait either ends it or leaves it with less to do: no object *)
(* keeps a wait going by changing, and there is no busy loop of reads that *)
(* are answered at once. (With a step always possible this is why a wait   *)
(* terminates.)                                                            *)
RunsDown ==
  [][pc' \in Ended \/ UNCHANGED <<pc, now, started>> \/ Remaining' \in 0 .. Remaining - 1]_vars

(* Every wait ends.                                                        *)
Terminates == <>(pc \in Ended)

=============================================================================

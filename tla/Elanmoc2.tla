------------------------------ MODULE Elanmoc2 ------------------------------
(***************************************************************************)
(* libfprint's elanmoc2 driver as patches/0002, 0003 and 0004 leave it, at *)
(* the other end of the same Sensor.  libfprint runs one operation at a    *)
(* time; each is a chain of handlers, and a handler that sent a command is *)
(* followed by the next once the reply is in.  The handlers the patches    *)
(* touch are translated from them; the states in between are upstream code *)
(* outside the repository, modelled from the patches' context, the traces  *)
(* in logs/ and docs/MR330-report.md.                                      *)
(***************************************************************************)
EXTENDS Sensor, UserId

CONSTANTS EnrollTimes,   \* ELANMOC2_ENROLL_TIMES
          Requested,     \* the operations libfprint's clients ask for
          MaxAbandoned,  \* bound: replies given up before power is cycled
          NoReply, NoOp

Kinds == {"enroll", "verify", "identify", "delete", "clear"}

\* A print is known by the slot it names.  A delete of no print stands for one
\* whose fpi-data is not this driver's.
Ops == [kind : Kinds, prints : SUBSET Slots]

ASSUME MocAssumption ==
  /\ EnrollTimes \in Nat \ {0} /\ MaxAbandoned \in Nat
  /\ Requested \subseteq {o \in Ops : o.kind = "delete" => \A s, t \in o.prints : s = t}
  /\ NoReply \notin Replies /\ NoOp \notin Ops

VARIABLES op,            \* operation in progress: its kind and prints, or NoOp
          at,            \* handler that runs next, or none
          sent,          \* command whose reply is awaited, or none
          buffer_in,     \* reply for that handler, or NoReply
          enrolled_num, print_index, enroll_stage,
          match,         \* what was reported of a finger: result and GError
          outcome,       \* what the operation completed with, until delivered
          touched,       \* history: slot the last finger matched, or NoSlot
          abandoned      \* history: replies given up since power came on

mocVars == <<op, at, sent, buffer_in, enrolled_num, print_index, enroll_stage,
             match, outcome, touched, abandoned>>
vars == <<sensorVars, mocVars>>

EnrollStates ==
  {"ENROLL_GET_NUM_ENROLLED", "ENROLL_CHECK_NUM_ENROLLED",
   "ENROLL_EARLY_REENROLL_CHECK",
   "ENROLL_GET_ENROLLED_FINGER_INFO", "ENROLL_ATTEMPT_DELETE",
   "ENROLL_CHECK_DELETED", "ENROLL_ENROLL",
   "ENROLL_CHECK_ENROLLED", "ENROLL_LATE_REENROLL_CHECK", "ENROLL_COMMIT",
   "ENROLL_CHECK_COMMITTED"}
IdentifyStates ==
  {"IDENTIFY_GET_NUM_ENROLLED", "IDENTIFY_CHECK_NUM_ENROLLED",
   "IDENTIFY_IDENTIFY", "IDENTIFY_GET_FINGER_INFO", "IDENTIFY_CHECK_FINGER_INFO"}
DeleteStates == {"DELETE_SEND", "DELETE_CHECK"}
ClearStates ==
  {"CLEAR_STORAGE_WIPE_SENSOR", "CLEAR_STORAGE_GET_NUM_ENROLLED",
   "CLEAR_STORAGE_CHECK_NUM_ENROLLED"}

StatesOf(kind) ==
  CASE kind = "enroll"                -> EnrollStates
    [] kind \in {"verify", "identify"} -> IdentifyStates
    [] kind = "delete"                -> DeleteStates
    [] kind = "clear"                 -> ClearStates

States == EnrollStates \cup IdentifyStates \cup DeleteStates \cup ClearStates

NoMatch == [result |-> "none", error |-> "none"]

Init ==
  /\ SensorInit
  /\ op = NoOp /\ at = "none" /\ sent = "none" /\ buffer_in = NoReply
  /\ enrolled_num = 0 /\ print_index = 0 /\ enroll_stage = 0
  /\ match = NoMatch /\ outcome = "none"
  /\ touched = NoSlot /\ abandoned = 0

----------------------------------------------------------------------------
(* What a handler may do next                                              *)

Runs(state) == at = state /\ sent = "none"

Status == buffer_in.b1

\* elanmoc2_cmd_transceive: the reply to command c is for handler next.  A
\* command without a reply is followed by it at once.
Transceive(c, arg, next) ==
  /\ Len(inbox) < OutDepth
  /\ inbox' = Append(inbox, [cmd |-> c, arg |-> arg, auth |-> FALSE])
  /\ sent' = IF Cmd[c].in_len = 0 THEN "none" ELSE c
  /\ at' = next /\ buffer_in' = NoReply
  /\ UNCHANGED <<store, cur, waiting, fifo, op, outcome, touched, abandoned>>

\* fpi_ssm_jump_to_state, fpi_ssm_next_state
Jump(next) ==
  /\ at' = next /\ buffer_in' = NoReply
  /\ UNCHANGED <<sensorVars, op, sent, outcome, touched, abandoned>>

\* fpi_device_*_complete, then fpi_ssm_mark_completed: the result is delivered
\* in idle, and no handler runs any more.
Complete(result) ==
  /\ outcome' = result
  /\ at' = "none" /\ sent' = "none" /\ buffer_in' = NoReply
  /\ UNCHANGED <<sensorVars, op, touched>>

End(result) == Complete(result) /\ UNCHANGED abandoned

\* elanmoc2_get_finger_error
CanRetry(b) == IsRetryable(FromByte(b)) \/ FromByte(b) = "NotEnrolled"
Matched(b)  == FromByte(b) = "Ok"

Answered(state) == Runs(state) /\ buffer_in # NoReply /\ buffer_in.len >= 2

\* States that look at whatever came, however short.
Tolerant == {"ENROLL_ATTEMPT_DELETE", "DELETE_CHECK", "IDENTIFY_CHECK_FINGER_INFO"}

\* Any other handler fails the operation on a reply without a status byte, or
\* asserts, which is a Crash.
ShortReply ==
  /\ at \notin Tolerant \cup {"none"} /\ sent = "none"
  /\ buffer_in # NoReply /\ buffer_in.len < 2
  /\ End("error")
  /\ UNCHANGED <<enrolled_num, print_index, enroll_stage, match>>

----------------------------------------------------------------------------
(* Operations begin and end                                                *)

FirstState(kind) ==
  CASE kind = "enroll" -> "ENROLL_GET_NUM_ENROLLED"
    [] kind \in {"verify", "identify"} -> "IDENTIFY_GET_NUM_ENROLLED"
    [] kind = "delete" -> "DELETE_SEND"
    [] kind = "clear"  -> "CLEAR_STORAGE_WIPE_SENSOR"

Invalid(o) == o.kind = "delete" /\ o.prints = {}

\* An invalid delete completes at once and starts no machine.
Begin(o) ==
  /\ op = NoOp
  /\ op' = o
  /\ at' = IF Invalid(o) THEN "none" ELSE FirstState(o.kind)
  /\ outcome' = IF Invalid(o) THEN "error" ELSE "none"
  /\ enroll_stage' = 0 /\ touched' = NoSlot
  /\ UNCHANGED <<sensorVars, sent, buffer_in, enrolled_num, print_index,
                 match, abandoned>>

\* Libfprint hands over the result in idle and frees the match data.
Deliver ==
  /\ op # NoOp /\ outcome # "none"
  /\ op' = NoOp /\ outcome' = "none" /\ match' = NoMatch
  /\ UNCHANGED <<sensorVars, at, sent, buffer_in, enrolled_num, print_index,
                 enroll_stage, touched, abandoned>>

----------------------------------------------------------------------------
(* Counting the templates, first in every operation but a delete           *)

CountCheck ==
  [ENROLL_GET_NUM_ENROLLED |-> "ENROLL_CHECK_NUM_ENROLLED",
   IDENTIFY_GET_NUM_ENROLLED |-> "IDENTIFY_CHECK_NUM_ENROLLED",
   CLEAR_STORAGE_GET_NUM_ENROLLED |-> "CLEAR_STORAGE_CHECK_NUM_ENROLLED"]

QueryCount ==
  /\ \E state \in DOMAIN CountCheck :
        Runs(state) /\ Transceive("get_enrolled_count", 0, CountCheck[state])
  /\ UNCHANGED <<enrolled_num, print_index, enroll_stage, match>>

\* An empty reply is legal and means: ask again.
RequeryCount ==
  /\ \E state \in DOMAIN CountCheck : Runs(CountCheck[state]) /\ Jump(state)
  /\ buffer_in # NoReply /\ buffer_in.len = 0
  /\ UNCHANGED <<enrolled_num, print_index, enroll_stage, match>>

----------------------------------------------------------------------------
(* Enroll                                                                  *)

EnrollCheckNum ==
  /\ Answered("ENROLL_CHECK_NUM_ENROLLED")
  /\ Jump(IF Status = 0 THEN "ENROLL_ENROLL" ELSE "ENROLL_EARLY_REENROLL_CHECK")
  /\ enrolled_num' = Status
  /\ UNCHANGED <<print_index, enroll_stage, match>>

EarlyReenrollCheck ==
  /\ Runs("ENROLL_EARLY_REENROLL_CHECK")
  /\ Transceive("identify", 0, "ENROLL_GET_ENROLLED_FINGER_INFO")
  /\ UNCHANGED <<enrolled_num, print_index, enroll_stage, match>>

\* The finger is the template to replace, an unknown one, or to be presented
\* again.
GetEnrolledFingerInfo ==
  /\ Answered("ENROLL_GET_ENROLLED_FINGER_INFO")
  /\ \/ /\ Matched(Status)
        /\ print_index' = Status
        /\ Transceive("finger_info", Status, "ENROLL_ATTEMPT_DELETE")
     \/ /\ ~Matched(Status) /\ CanRetry(Status)
        /\ Jump(IF FromByte(Status) = "NotEnrolled"
                THEN "ENROLL_ENROLL" ELSE "ENROLL_EARLY_REENROLL_CHECK")
        /\ UNCHANGED print_index
     \/ /\ ~CanRetry(Status)
        /\ End("error")
        /\ UNCHANGED print_index
  /\ UNCHANGED <<enrolled_num, enroll_stage, match>>

\* prepare_cmd may have no frame for this device; the delete is then skipped.
AttemptDelete ==
  /\ Runs("ENROLL_ATTEMPT_DELETE") /\ buffer_in # NoReply
  /\ \/ Transceive("delete", SlotByte(print_index), "ENROLL_CHECK_DELETED")
     \/ Jump("ENROLL_CHECK_DELETED")
  /\ UNCHANGED <<enrolled_num, print_index, enroll_stage, match>>

Deleted ==
  /\ Status = 0
  /\ enrolled_num' = (enrolled_num + 255) % 256
  /\ Jump("ENROLL_ENROLL")

\* Bug, the upstream form: a refused delete escalates to a wipe.
CheckDeletedOrWipe ==
  /\ Answered("ENROLL_CHECK_DELETED")
  /\ \/ Deleted
     \/ /\ Status # 0
        /\ Transceive("wipe_sensor", 0, "ENROLL_ENROLL")
        /\ UNCHANGED enrolled_num
  /\ UNCHANGED <<print_index, enroll_stage, match>>

\* A refused delete fails the enrollment and leaves the other templates alone.
CheckDeleted ==
  /\ Answered("ENROLL_CHECK_DELETED")
  /\ \/ Deleted
     \/ Status # 0 /\ End("error") /\ UNCHANGED enrolled_num
  /\ UNCHANGED <<print_index, enroll_stage, match>>

EnrollEnroll ==
  /\ Runs("ENROLL_ENROLL")
  /\ Transceive("enroll", 0, "ENROLL_CHECK_ENROLLED")
  /\ UNCHANGED <<enrolled_num, print_index, enroll_stage, match>>

\* Bug: one stage too many before the template is complete.
LastStageMissed == enroll_stage' > EnrollTimes

LastStage == enroll_stage' = EnrollTimes

CheckEnrolled ==
  /\ Answered("ENROLL_CHECK_ENROLLED")
  /\ enroll_stage' = IF Matched(Status) THEN enroll_stage + 1 ELSE enroll_stage
  /\ \/ /\ CanRetry(Status)
        /\ Jump(IF LastStage THEN "ENROLL_LATE_REENROLL_CHECK" ELSE "ENROLL_ENROLL")
     \/ ~CanRetry(Status) /\ End("error")
  /\ UNCHANGED <<enrolled_num, print_index, match>>

LateReenrollCheck ==
  /\ Runs("ENROLL_LATE_REENROLL_CHECK")
  /\ Transceive("check_enroll_collision", 0, "ENROLL_COMMIT")
  /\ UNCHANGED <<enrolled_num, print_index, enroll_stage, match>>

EnrollCommit ==
  /\ Answered("ENROLL_COMMIT")
  /\ \/ Status # 0 /\ End("error")
     \/ Status = 0 /\ Transceive("commit", 0, "ENROLL_CHECK_COMMITTED")
  /\ UNCHANGED <<enrolled_num, print_index, enroll_stage, match>>

CheckCommitted ==
  /\ Answered("ENROLL_CHECK_COMMITTED")
  /\ End(IF Status = 0 THEN "ok" ELSE "error")
  /\ UNCHANGED <<enrolled_num, print_index, enroll_stage, match>>

----------------------------------------------------------------------------
(* Identify and verify                                                     *)

\* Bug, the upstream form: the caller frees the error it has passed on, and
\* the result of a verify does not say that there is one.
ReportUnstolen(result) ==
  match' = [result |-> IF result = "error" THEN "fail" ELSE result,
            error  |-> IF result = "error" THEN "freed" ELSE "none"]

\* elanmoc2_identify_verify_report.  An identify knows no result but a print.
Report(result) ==
  match' = [result |-> IF result = "error" /\ op.kind = "identify"
                       THEN "fail" ELSE result,
            error  |-> IF result = "error" THEN "owned" ELSE "none"]

IdentifyCheckNum ==
  /\ Answered("IDENTIFY_CHECK_NUM_ENROLLED")
  /\ enrolled_num' = Status
  /\ \/ Status = 0 /\ Report("fail") /\ End("ok")
     \/ Status # 0 /\ Jump("IDENTIFY_IDENTIFY") /\ UNCHANGED match
  /\ UNCHANGED <<print_index, enroll_stage>>

IdentifyIdentify ==
  /\ Runs("IDENTIFY_IDENTIFY")
  /\ Transceive("identify", 0, "IDENTIFY_GET_FINGER_INFO")
  /\ UNCHANGED <<enrolled_num, print_index, enroll_stage, match>>

\* Bug: a rejected finger goes on with the slot of the one before.
GetFingerInfoStale ==
  /\ Answered("IDENTIFY_GET_FINGER_INFO")
  /\ print_index' = IF Matched(Status) THEN Status ELSE print_index
  /\ Transceive("finger_info", print_index', "IDENTIFY_CHECK_FINGER_INFO")
  /\ UNCHANGED <<enrolled_num, enroll_stage, match>>

\* A finger that can be presented again is reported, and waited for.
GetFingerInfo ==
  /\ Answered("IDENTIFY_GET_FINGER_INFO")
  /\ \/ /\ Matched(Status)
        /\ print_index' = Status
        /\ Transceive("finger_info", Status, "IDENTIFY_CHECK_FINGER_INFO")
        /\ UNCHANGED match
     \/ /\ ~Matched(Status) /\ CanRetry(Status)
        /\ Report("error")
        /\ Jump("IDENTIFY_IDENTIFY")
        /\ UNCHANGED print_index
     \/ /\ ~CanRetry(Status)
        /\ End("error")
        /\ UNCHANGED <<print_index, match>>
  /\ UNCHANGED <<enrolled_num, enroll_stage>>

\* The print made of the reply equals one that was asked for: same finger id,
\* same user-id, which a truncated reply does not have.
Recognised ==
  /\ buffer_in.len > 2
  /\ print_index \in op.prints /\ buffer_in.uid = print_index

CheckFingerInfo ==
  /\ Runs("IDENTIFY_CHECK_FINGER_INFO") /\ buffer_in # NoReply
  /\ Report(IF Recognised THEN "success" ELSE "fail")
  /\ End("ok")
  /\ UNCHANGED <<enrolled_num, print_index, enroll_stage>>

----------------------------------------------------------------------------
(* Delete and clear storage                                                *)

DeleteSend ==
  /\ Runs("DELETE_SEND")
  /\ \/ \E s \in op.prints : Transceive("delete", SlotByte(s), "DELETE_CHECK")
     \/ Jump("DELETE_CHECK")
  /\ UNCHANGED <<enrolled_num, print_index, enroll_stage, match>>

Responded == IF buffer_in = NoReply THEN FALSE ELSE buffer_in.len >= 2

DeleteResult == IF Responded /\ Status = 0 THEN "ok" ELSE "error"

\* Bugs: the count not compared with zero first; the status not looked at; a
\* missing reply reported, and the machine left running.
DeleteCheckUnguarded ==
  /\ Runs("DELETE_CHECK")
  /\ End(DeleteResult)
  /\ enrolled_num' = IF DeleteResult = "ok" THEN (enrolled_num + 255) % 256
                                            ELSE enrolled_num
  /\ UNCHANGED <<print_index, enroll_stage, match>>

DeleteCheckAnyStatus ==
  /\ Runs("DELETE_CHECK")
  /\ End(IF Responded THEN "ok" ELSE "error")
  /\ UNCHANGED <<enrolled_num, print_index, enroll_stage, match>>

DeleteCheckUncompleted ==
  /\ Runs("DELETE_CHECK")
  /\ \/ /\ ~Responded /\ outcome' = "error"
        /\ UNCHANGED <<sensorVars, op, at, sent, buffer_in, touched, abandoned>>
     \/ Responded /\ End(DeleteResult)
  /\ UNCHANGED <<enrolled_num, print_index, enroll_stage, match>>

DeleteCheck ==
  /\ Runs("DELETE_CHECK")
  /\ End(DeleteResult)
  /\ enrolled_num' = IF DeleteResult = "ok" /\ enrolled_num > 0
                     THEN enrolled_num - 1 ELSE enrolled_num
  /\ UNCHANGED <<print_index, enroll_stage, match>>

ClearWipe ==
  /\ Runs("CLEAR_STORAGE_WIPE_SENSOR")
  /\ Transceive("wipe_sensor", 0, "CLEAR_STORAGE_GET_NUM_ENROLLED")
  /\ UNCHANGED <<enrolled_num, print_index, enroll_stage, match>>

ClearCheck ==
  /\ Answered("CLEAR_STORAGE_CHECK_NUM_ENROLLED")
  /\ End(IF Status = 0 THEN "ok" ELSE "error")
  /\ enrolled_num' = Status
  /\ UNCHANGED <<print_index, enroll_stage, match>>

----------------------------------------------------------------------------
(* Transfers, and what goes wrong with them                                *)

\* A packet longer than the buffer is a failed transfer.
Receive ==
  /\ sent # "none"
  /\ LET ep == Cmd[sent].ep_in IN
       /\ fifo[ep] # <<>>
       /\ fifo' = [fifo EXCEPT ![ep] = Tail(@)]
       /\ IF Head(fifo[ep]).len <= Cmd[sent].in_len
          THEN buffer_in' = Head(fifo[ep]) /\ UNCHANGED <<at, outcome>>
          ELSE buffer_in' = NoReply /\ at' = "none" /\ outcome' = "error"
  /\ sent' = "none"
  /\ UNCHANGED <<store, cur, waiting, inbox, op, enrolled_num, print_index,
                 enroll_stage, match, touched, abandoned>>

GiveUp ==
  IF sent = "none" THEN UNCHANGED abandoned
  ELSE abandoned < MaxAbandoned /\ abandoned' = abandoned + 1

\* A transfer fails, times out or is cancelled: the operation with it.  A reply
\* still to come is then left for whoever reads next.
TransferFails ==
  /\ at # "none"
  /\ Complete("error")
  /\ GiveUp
  /\ UNCHANGED <<enrolled_num, print_index, enroll_stage, match>>

Reset ==
  /\ op' = NoOp /\ at' = "none" /\ sent' = "none" /\ buffer_in' = NoReply
  /\ enrolled_num' = 0 /\ print_index' = 0 /\ enroll_stage' = 0
  /\ match' = NoMatch /\ outcome' = "none" /\ touched' = NoSlot

\* The process ends, by a failed assertion or otherwise, and another takes over.
Crash ==
  /\ op # NoOp
  /\ Reset
  /\ GiveUp
  /\ UNCHANGED sensorVars

Replug == PowerCycle /\ Reset /\ abandoned' = 0

----------------------------------------------------------------------------
Handlers ==
  \/ ShortReply \/ QueryCount \/ RequeryCount
  \/ EnrollCheckNum \/ EarlyReenrollCheck \/ GetEnrolledFingerInfo
  \/ AttemptDelete \/ CheckDeleted \/ EnrollEnroll \/ CheckEnrolled
  \/ LateReenrollCheck \/ EnrollCommit \/ CheckCommitted
  \/ IdentifyCheckNum \/ IdentifyIdentify \/ GetFingerInfo \/ CheckFingerInfo
  \/ DeleteSend \/ DeleteCheck \/ ClearWipe \/ ClearCheck

SensorOwn == HandleQuery \/ HandleCommit \/ HandleDelete
             \/ HandleWipe \/ BeginWait

\* The driver's history follows the finger.
Touch ==
  /\ \/ TouchMatch /\ touched' = cur'
     \/ TouchOther /\ touched' = NoSlot
  /\ UNCHANGED <<op, at, sent, buffer_in, enrolled_num, print_index,
                 enroll_stage, match, outcome, abandoned>>

Next ==
  \/ \E o \in Requested : Begin(o)
  \/ Deliver \/ Handlers \/ Receive \/ TransferFails \/ Crash \/ Replug
  \/ SensorOwn /\ UNCHANGED mocVars
  \/ Touch

Spec == Init /\ [][Next]_vars

----------------------------------------------------------------------------
(* Properties                                                              *)

inStep == abandoned = 0

\* Type invariant: the machine is at a state of its own operation, waits only
\* for commands that have a reply, and counts no stage beyond the last.
MocTypeOK ==
  /\ SensorTypeOK
  /\ op \in Requested \cup {NoOp}
  /\ at \in {"none"} \cup (IF op = NoOp THEN {} ELSE StatesOf(op.kind))
  /\ sent \in {"none"} \cup (CmdNames \ {"wipe_sensor"})
  /\ buffer_in \in Replies \cup {NoReply}
  /\ enrolled_num \in Byte /\ print_index \in 0..15
  /\ enroll_stage \in 0..EnrollTimes
  /\ match \in [result : {"none", "success", "fail", "error"},
                error : {"none", "owned", "freed"}]
  /\ outcome \in {"none", "ok", "error"}
  /\ touched \in Slots \cup {NoSlot} /\ abandoned \in 0..MaxAbandoned

\* A machine runs exactly while its operation is in progress and has not
\* completed: none is left behind by an early return (patches/0002, every
\* mark_completed), and none ends without completing the operation.
OneMachine ==
  /\ (at = "none") <=> (op = NoOp \/ outcome # "none")
  /\ at = "none" => sent = "none" /\ buffer_in = NoReply

\* The count of templates never leaves the range of the sensor's slots, however
\* deletes, enrollments and lost replies follow each other (0002:98): a decrement
\* of zero would wrap to 255.
CountNeverWraps == inStep => enrolled_num <= MaxPrints

\* The error handed to libfprint is freed by nobody else (0003:69, 0003:85), and a
\* verify has the error result exactly when there is an error.
ReportOwned ==
  /\ match.error # "freed"
  /\ op # NoOp /\ op.kind = "verify" =>
       (match.result = "error" <=> match.error = "owned")

\* Delete reports success only when the sensor no longer holds the template.
DeleteTruthful ==
  inStep /\ op # NoOp /\ outcome = "ok" /\ op.kind = "delete" =>
    op.prints \cap store = {}

\* A finger is recognised only if the last one presented matched a template that
\* was asked for: a rejected finger never passes on the slot of the one before.
VerifyTruthful ==
  inStep /\ match.result = "success" => touched \in op.prints

\* What the operation in progress may ask of the stored templates.  With the
\* exchange out of step an enrollment may take a stale reply for its finger.
CalledFor ==
  IF op = NoOp THEN {}
  ELSE CASE op.kind = "enroll" ->
              {[cmd |-> "commit", slot |-> NoSlot]} \cup
              {[cmd |-> "delete", slot |-> s] :
                  s \in IF inStep THEN {touched} \ {NoSlot} ELSE 0..15}
         [] op.kind = "delete" -> {[cmd |-> "delete", slot |-> s] : s \in op.prints}
         [] op.kind = "clear"  -> {[cmd |-> "wipe_sensor", slot |-> NoSlot]}
         [] OTHER              -> {}

Promise == INSTANCE TemplateStore
             WITH TemplateSlots <- Slots, allowed <- CalledFor, asked <- QueuedWrites

\* The driver keeps the promise of TemplateStore: an enrollment deletes at most
\* the template of the finger just presented and wipes nothing (0002:12), a
\* delete only its own print, identify and verify nothing.
ImplementsStore == Promise!Spec

\* docs/PROTOCOL.md:221, "`ff 10` is never issued during enrollment".
NeverAsksCollision ==
  \A i \in 1..Len(inbox) : inbox[i].cmd # "check_enroll_collision"
=============================================================================

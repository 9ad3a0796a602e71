--------------------------- MODULE Elanmoc2Proofs ---------------------------
(***************************************************************************)
(* Proofs about Elanmoc2, for any number of slots and enroll stages, any   *)
(* operations asked for and any queue depths.  The safety properties rest  *)
(* on one fact, Flight: until a reply is given up, exactly the request of  *)
(* the handler to come, or its reply, is on its way.                       *)
(***************************************************************************)
EXTENDS Elanmoc2, SensorProofs

(***************************************************************************)
(* Types                                                                   *)
(***************************************************************************)

\* The command whose reply a handler reads.
Awaited(state) ==
  CASE state \in {"ENROLL_CHECK_NUM_ENROLLED", "IDENTIFY_CHECK_NUM_ENROLLED",
                  "CLEAR_STORAGE_CHECK_NUM_ENROLLED"} -> "get_enrolled_count"
    [] state \in {"ENROLL_GET_ENROLLED_FINGER_INFO",
                  "IDENTIFY_GET_FINGER_INFO"}         -> "identify"
    [] state \in {"ENROLL_ATTEMPT_DELETE",
                  "IDENTIFY_CHECK_FINGER_INFO"}       -> "finger_info"
    [] state \in {"ENROLL_CHECK_DELETED", "DELETE_CHECK"} -> "delete"
    [] state = "ENROLL_CHECK_ENROLLED"  -> "enroll"
    [] state = "ENROLL_COMMIT"          -> "check_enroll_collision"
    [] state = "ENROLL_CHECK_COMMITTED" -> "commit"
    [] OTHER                            -> "none"

Placed ==
  /\ sent # "none" => sent = Awaited(at)
  /\ buffer_in # NoReply => sent = "none"

\* An enroll stage is asked for only while one is missing.
Capturing == EnrollStates \ {"ENROLL_LATE_REENROLL_CHECK", "ENROLL_COMMIT",
                             "ENROLL_CHECK_COMMITTED"}

StagesLeft == at \in Capturing => enroll_stage < EnrollTimes

\* A template is replaced only when the sensor said it had one.
Replacing == {"ENROLL_EARLY_REENROLL_CHECK", "ENROLL_GET_ENROLLED_FINGER_INFO",
              "ENROLL_ATTEMPT_DELETE", "ENROLL_CHECK_DELETED"}

Counted == at \in Replacing => enrolled_num > 0

TypeInv == MocTypeOK /\ OneMachine /\ Placed /\ StagesLeft /\ Counted

LEMMA StatusFacts ==
  ASSUME NEW b \in Byte
  PROVE  /\ Matched(b) <=> b \in 0..15
         /\ Matched(b) => CanRetry(b)
<1>1. b \div 16 = 0 <=> b \in 0..15
  BY DEF Byte
<1>2. FromByte(b) = "Ok" <=> b \div 16 = 0
  BY DEF FromByte
<1> QED
  BY <1>1, <1>2 DEF Matched, CanRetry, IsRetryable

LEMMA SlotByteNames ==
  ASSUME NEW s \in 0..15
  PROVE  SlotByte(s) \in Byte /\ SlotNamed(SlotByte(s)) = s
BY DEF SlotByte, SlotNamed, Byte

LEMMA SlotsSmall == Slots \subseteq 0..15
BY SensorAssumption DEF Slots

\* An operation in progress, and where its machine may be.
LEMMA Running ==
  ASSUME TypeInv, at # "none"
  PROVE  /\ op \in Ops /\ op # NoOp /\ op \in Requested /\ outcome = "none"
         /\ at \in StatesOf(op.kind)
         /\ at \in EnrollStates => op.kind = "enroll"
         /\ at \in IdentifyStates => op.kind \in {"verify", "identify"}
         /\ at \in DeleteStates => op.kind = "delete"
         /\ at \in ClearStates => op.kind = "clear"
<1>1. op # NoOp /\ outcome = "none"
  BY DEF TypeInv, OneMachine
<1>2. op \in Requested /\ op \in Ops /\ at \in StatesOf(op.kind)
  BY <1>1, MocAssumption DEF TypeInv, MocTypeOK
<1>3. op.kind \in Kinds
  BY <1>2 DEF Ops
<1>4. CASE op.kind = "enroll"
  BY <1>1, <1>2, <1>4 DEF StatesOf, EnrollStates, IdentifyStates, DeleteStates, ClearStates
<1>5. CASE op.kind \in {"verify", "identify"}
  BY <1>1, <1>2, <1>5 DEF StatesOf, EnrollStates, IdentifyStates, DeleteStates, ClearStates
<1>6. CASE op.kind = "delete"
  BY <1>1, <1>2, <1>6 DEF StatesOf, EnrollStates, IdentifyStates, DeleteStates, ClearStates
<1>7. CASE op.kind = "clear"
  BY <1>1, <1>2, <1>7 DEF StatesOf, EnrollStates, IdentifyStates, DeleteStates, ClearStates
<1> QED
  BY <1>3, <1>4, <1>5, <1>6, <1>7 DEF Kinds

Matches == [result : {"none", "success", "fail", "error"},
            error : {"none", "owned", "freed"}]

\* The fields a handler sets besides its machine.
Fields ==
  /\ enrolled_num \in Byte /\ print_index \in 0..15
  /\ enroll_stage \in 0..EnrollTimes
  /\ match \in Matches
  /\ StagesLeft /\ Counted

LEMMA SendTyped ==
  ASSUME TypeInv, NEW c \in CmdNames, NEW arg \in Byte, NEW next, at # "none",
         Transceive(c, arg, next), next \in StatesOf(op.kind), next # "none",
         c # "wipe_sensor" => c = Awaited(next), Fields'
  PROVE  TypeInv'
<1> DEFINE q == [cmd |-> c, arg |-> arg, auth |-> FALSE]
<1>1. /\ Len(inbox) < OutDepth /\ inbox' = Append(inbox, q)
      /\ sent' = IF c = "wipe_sensor" THEN "none" ELSE c
      /\ at' = next /\ buffer_in' = NoReply
      /\ UNCHANGED <<store, cur, waiting, fifo, op, outcome, touched, abandoned>>
  BY CmdTable DEF Transceive
<1>2. q \in Requests /\ inbox \in Seq(Requests)
  BY DEF Requests, TypeInv, MocTypeOK, SensorTypeOK
<1>3. Append(inbox, q) \in Seq(Requests) /\ Len(Append(inbox, q)) = Len(inbox) + 1
      /\ Len(inbox) \in Nat
  BY <1>2, AppendProperties, LenProperties
<1>4. SensorTypeOK'
  <2>1. inbox' \in Seq(Requests) /\ Len(inbox') <= OutDepth
    BY <1>1, <1>3, SensorAssumption
  <2> QED
    BY <1>1, <2>1 DEF TypeInv, MocTypeOK, SensorTypeOK
<1>5. MocTypeOK'
  <2>1. sent' \in {"none"} \cup (CmdNames \ {"wipe_sensor"})
    BY <1>1
  <2>2. op # NoOp
    BY Running
  <2> QED
    BY <1>1, <1>4, <2>1, <2>2 DEF TypeInv, MocTypeOK, Fields, Matches
<1>6. OneMachine' /\ Placed'
  BY <1>1, Running DEF TypeInv, OneMachine, Placed
<1> QED
  BY <1>5, <1>6 DEF TypeInv, Fields

LEMMA JumpTyped ==
  ASSUME TypeInv, NEW next, at # "none", sent = "none", Jump(next),
         next \in StatesOf(op.kind), next # "none", Fields'
  PROVE  TypeInv'
<1>1. /\ at' = next /\ buffer_in' = NoReply /\ sent' = "none"
      /\ UNCHANGED <<sensorVars, op, outcome, touched, abandoned>>
  BY DEF Jump
<1>2. SensorTypeOK'
  BY <1>1 DEF sensorVars, TypeInv, MocTypeOK, SensorTypeOK
<1>3. MocTypeOK'
  BY <1>1, <1>2, Running DEF TypeInv, MocTypeOK, Fields, Matches
<1>4. OneMachine' /\ Placed'
  BY <1>1, Running DEF TypeInv, OneMachine, Placed
<1> QED
  BY <1>3, <1>4 DEF TypeInv, Fields

LEMMA CompleteTyped ==
  ASSUME TypeInv, NEW result \in {"ok", "error"}, at # "none", Complete(result),
         abandoned' \in 0..MaxAbandoned, enrolled_num' \in Byte,
         print_index' \in 0..15, enroll_stage' \in 0..EnrollTimes, match' \in Matches
  PROVE  TypeInv'
<1>1. /\ outcome' = result /\ at' = "none" /\ sent' = "none" /\ buffer_in' = NoReply
      /\ UNCHANGED <<sensorVars, op, touched>>
  BY DEF Complete
<1>2. SensorTypeOK'
  BY <1>1 DEF sensorVars, TypeInv, MocTypeOK, SensorTypeOK
<1>3. MocTypeOK'
  BY <1>1, <1>2 DEF TypeInv, MocTypeOK, Matches
<1>4. OneMachine' /\ Placed'
  BY <1>1 DEF OneMachine, Placed
<1>5. StagesLeft' /\ Counted'
  BY <1>1 DEF StagesLeft, Counted, Capturing, Replacing, EnrollStates
<1> QED
  BY <1>3, <1>4, <1>5 DEF TypeInv

LEMMA EndTyped ==
  ASSUME TypeInv, NEW result \in {"ok", "error"}, at # "none", End(result),
         enrolled_num' \in Byte, print_index' \in 0..15,
         enroll_stage' \in 0..EnrollTimes, match' \in Matches
  PROVE  TypeInv'
<1>1. abandoned' \in 0..MaxAbandoned
  BY DEF End, TypeInv, MocTypeOK
<1> QED
  BY <1>1, CompleteTyped DEF End

LEMMA ReportTyped ==
  ASSUME NEW result \in {"success", "fail", "error"}, Report(result)
  PROVE  match' \in Matches
BY DEF Report, Matches

LEMMA FieldsNow == TypeInv => Fields
BY DEF TypeInv, MocTypeOK, Fields, Matches

\* A handler that has its reply.
LEMMA AnsweredFacts ==
  ASSUME TypeInv, NEW state, Answered(state)
  PROVE  /\ at = state /\ sent = "none" /\ buffer_in \in Replies /\ Status \in Byte
         /\ Matched(Status) <=> Status \in 0..15
         /\ Matched(Status) => CanRetry(Status)
<1>1. at = state /\ sent = "none" /\ buffer_in \in Replies
  BY DEF Answered, Runs, TypeInv, MocTypeOK
<1>2. Status \in Byte
  BY <1>1 DEF Status, Replies
<1> QED
  BY <1>1, <1>2, StatusFacts

LEMMA CmdsAre ==
  {"get_enrolled_count", "identify", "finger_info", "delete", "enroll", "commit",
   "check_enroll_collision", "wipe_sensor"} \subseteq CmdNames
BY DEF CmdNames

LEMMA CountingTyped ==
  ASSUME TypeInv, QueryCount \/ RequeryCount \/ ShortReply
  PROVE  TypeInv'
<1> USE DEF Fields
<1>0. 0 \in Byte
  BY DEF Byte
<1>1. CASE QueryCount
  <2>1. PICK state \in DOMAIN CountCheck :
          Runs(state) /\ Transceive("get_enrolled_count", 0, CountCheck[state])
    BY <1>1 DEF QueryCount
  <2>2. state \in {"ENROLL_GET_NUM_ENROLLED", "IDENTIFY_GET_NUM_ENROLLED",
                   "CLEAR_STORAGE_GET_NUM_ENROLLED"} /\ at = state /\ at # "none"
    BY <2>1 DEF CountCheck, Runs
  <2>3. at' = CountCheck[state]
    BY <2>1 DEF Transceive
  <2>4. CountCheck[state] \in StatesOf(op.kind) /\ CountCheck[state] # "none"
        /\ Awaited(CountCheck[state]) = "get_enrolled_count"
        /\ CountCheck[state] \notin Replacing
        /\ (CountCheck[state] \in Capturing => state \in Capturing)
    BY <2>2, Running DEF CountCheck, StatesOf, EnrollStates, IdentifyStates,
       ClearStates, Awaited, Replacing, Capturing
  <2>5. Fields'
    BY <1>1, <2>2, <2>3, <2>4, FieldsNow DEF QueryCount, StagesLeft, Counted
  <2> HIDE DEF Fields
  <2> QED
    BY <1>0, <2>1, <2>2, <2>4, <2>5, CmdsAre, SendTyped
<1>2. CASE RequeryCount
  <2>1. PICK state \in DOMAIN CountCheck : Runs(CountCheck[state]) /\ Jump(state)
    BY <1>2 DEF RequeryCount
  <2>2. state \in {"ENROLL_GET_NUM_ENROLLED", "IDENTIFY_GET_NUM_ENROLLED",
                   "CLEAR_STORAGE_GET_NUM_ENROLLED"}
        /\ at = CountCheck[state] /\ at # "none" /\ sent = "none" /\ at' = state
    BY <2>1 DEF CountCheck, Runs, Jump
  <2>3. state \in StatesOf(op.kind) /\ state # "none" /\ state \notin Replacing
        /\ (state \in Capturing => at \in Capturing)
    BY <2>2, Running DEF CountCheck, StatesOf, EnrollStates, IdentifyStates,
       ClearStates, Replacing, Capturing
  <2>4. Fields'
    BY <1>2, <2>2, <2>3, FieldsNow DEF RequeryCount, StagesLeft, Counted
  <2> HIDE DEF Fields
  <2> QED
    BY <2>1, <2>2, <2>3, <2>4, JumpTyped
<1>3. CASE ShortReply
  <2>1. at # "none" /\ End("error")
    BY <1>3 DEF ShortReply
  <2> QED
    BY <1>3, <2>1, EndTyped, FieldsNow DEF ShortReply
<1> QED
  BY <1>1, <1>2, <1>3

LEMMA EnrollTyped ==
  ASSUME TypeInv,
         \/ EnrollCheckNum \/ EarlyReenrollCheck \/ GetEnrolledFingerInfo
         \/ AttemptDelete \/ CheckDeleted \/ EnrollEnroll \/ CheckEnrolled
         \/ LateReenrollCheck \/ EnrollCommit \/ CheckCommitted
  PROVE  TypeInv'
<1>0. 0 \in Byte /\ 0..15 \subseteq Byte
  BY DEF Byte
<1>a. ASSUME NEW state \in EnrollStates, at = state
      PROVE  /\ at # "none" /\ StatesOf(op.kind) = EnrollStates
             /\ "none" \notin EnrollStates
  BY <1>a, Running DEF EnrollStates, StatesOf
<1>1. CASE EnrollCheckNum
  <2> DEFINE next == IF Status = 0 THEN "ENROLL_ENROLL" ELSE "ENROLL_EARLY_REENROLL_CHECK"
  <2>1. at = "ENROLL_CHECK_NUM_ENROLLED" /\ sent = "none" /\ Status \in Byte
    BY <1>1, AnsweredFacts DEF EnrollCheckNum
  <2>2. Jump(next) /\ at' = next /\ enrolled_num' = Status
        /\ UNCHANGED <<print_index, enroll_stage, match>>
    BY <1>1 DEF EnrollCheckNum, Jump
  <2>3. Fields'
    BY <2>1, <2>2, FieldsNow DEF Fields, StagesLeft, Counted, Replacing, Capturing,
       EnrollStates, Byte
  <2>4. next \in EnrollStates
    BY DEF EnrollStates
  <2> HIDE DEF next
  <2> QED
    BY <1>a, <2>1, <2>2, <2>3, <2>4, JumpTyped DEF EnrollStates
<1>2. CASE EarlyReenrollCheck
  <2>1. at = "ENROLL_EARLY_REENROLL_CHECK" /\ at' = "ENROLL_GET_ENROLLED_FINGER_INFO"
    BY <1>2 DEF EarlyReenrollCheck, Runs, Transceive
  <2>2. Fields'
    BY <1>2, <2>1, FieldsNow DEF EarlyReenrollCheck, Fields, StagesLeft, Counted,
       Replacing, Capturing, EnrollStates
  <2> QED
    BY <1>0, <1>2, <1>a, <2>1, <2>2, CmdsAre, SendTyped DEF EarlyReenrollCheck,
       EnrollStates, Awaited
<1>3. CASE GetEnrolledFingerInfo
  <2>1. at = "ENROLL_GET_ENROLLED_FINGER_INFO" /\ sent = "none" /\ Status \in Byte
        /\ (Matched(Status) <=> Status \in 0..15)
    BY <1>3, AnsweredFacts DEF GetEnrolledFingerInfo
  <2>2. UNCHANGED <<enrolled_num, enroll_stage, match>>
    BY <1>3 DEF GetEnrolledFingerInfo
  <2>3. CASE Matched(Status) /\ print_index' = Status
             /\ Transceive("finger_info", Status, "ENROLL_ATTEMPT_DELETE")
    <3>1. at' = "ENROLL_ATTEMPT_DELETE"
      BY <2>3 DEF Transceive
    <3>2. Fields'
      BY <2>1, <2>2, <2>3, <3>1, FieldsNow DEF Fields, StagesLeft, Counted, Replacing,
         Capturing, EnrollStates
    <3> QED
      BY <1>0, <1>a, <2>1, <2>3, <3>2, CmdsAre, SendTyped DEF EnrollStates, Awaited
  <2>4. CASE /\ UNCHANGED print_index
             /\ Jump(IF FromByte(Status) = "NotEnrolled"
                     THEN "ENROLL_ENROLL" ELSE "ENROLL_EARLY_REENROLL_CHECK")
    <3>1. PICK next \in {"ENROLL_ENROLL", "ENROLL_EARLY_REENROLL_CHECK"} : Jump(next)
      BY <2>4
    <3>2. Fields'
      BY <2>1, <2>2, <2>4, <3>1, FieldsNow DEF Jump, Fields, StagesLeft, Counted,
         Replacing, Capturing, EnrollStates
    <3> QED
      BY <1>a, <2>1, <3>1, <3>2, JumpTyped DEF EnrollStates
  <2>5. CASE End("error") /\ UNCHANGED print_index
    BY <1>a, <2>1, <2>2, <2>5, EndTyped, FieldsNow DEF Fields, EnrollStates
  <2> QED
    BY <1>3, <2>3, <2>4, <2>5 DEF GetEnrolledFingerInfo
<1>4. CASE AttemptDelete
  <2>1. at = "ENROLL_ATTEMPT_DELETE" /\ sent = "none"
        /\ UNCHANGED <<enrolled_num, print_index, enroll_stage, match>>
    BY <1>4 DEF AttemptDelete, Runs
  <2>2. at' = "ENROLL_CHECK_DELETED"
    BY <1>4 DEF AttemptDelete, Transceive, Jump
  <2>3. Fields' /\ SlotByte(print_index) \in Byte
    BY <2>1, <2>2, FieldsNow, SlotByteNames DEF Fields, StagesLeft, Counted, Replacing,
       Capturing, EnrollStates
  <2>4. CASE Transceive("delete", SlotByte(print_index), "ENROLL_CHECK_DELETED")
    BY <1>a, <2>1, <2>3, <2>4, CmdsAre, SendTyped DEF EnrollStates, Awaited
  <2>5. CASE Jump("ENROLL_CHECK_DELETED")
    BY <1>a, <2>1, <2>3, <2>5, JumpTyped DEF EnrollStates
  <2> QED
    BY <1>4, <2>4, <2>5 DEF AttemptDelete
<1>5. CASE CheckDeleted
  <2>1. at = "ENROLL_CHECK_DELETED" /\ sent = "none"
        /\ UNCHANGED <<print_index, enroll_stage, match>>
    BY <1>5, AnsweredFacts DEF CheckDeleted
  <2>2. CASE Deleted
    <3>1. at' = "ENROLL_ENROLL" /\ enrolled_num' \in Byte /\ Jump("ENROLL_ENROLL")
      BY <2>2, FieldsNow DEF Deleted, Jump, Fields, Byte
    <3>2. Fields'
      BY <2>1, <3>1, FieldsNow DEF Fields, StagesLeft, Counted, Replacing,
         Capturing, EnrollStates
    <3> QED
      BY <1>a, <2>1, <3>1, <3>2, JumpTyped DEF EnrollStates
  <2>3. CASE End("error") /\ UNCHANGED enrolled_num
    BY <1>a, <2>1, <2>3, EndTyped, FieldsNow DEF Fields, EnrollStates
  <2> QED
    BY <1>5, <2>2, <2>3 DEF CheckDeleted
<1>6. CASE EnrollEnroll
  <2>1. at = "ENROLL_ENROLL" /\ at' = "ENROLL_CHECK_ENROLLED"
    BY <1>6 DEF EnrollEnroll, Runs, Transceive
  <2>2. Fields'
    BY <1>6, <2>1, FieldsNow DEF EnrollEnroll, Fields, StagesLeft, Counted,
       Replacing, Capturing, EnrollStates
  <2> QED
    BY <1>0, <1>6, <1>a, <2>1, <2>2, CmdsAre, SendTyped DEF EnrollEnroll,
       EnrollStates, Awaited
<1>7. CASE CheckEnrolled
  <2>1. at = "ENROLL_CHECK_ENROLLED" /\ sent = "none"
        /\ UNCHANGED <<enrolled_num, print_index, match>>
    BY <1>7, AnsweredFacts DEF CheckEnrolled
  <2>2. enroll_stage' \in 0..EnrollTimes
    BY <1>7, <2>1, FieldsNow, MocAssumption DEF CheckEnrolled, Fields, StagesLeft,
       Capturing, EnrollStates
  <2>3. CASE Jump(IF LastStage THEN "ENROLL_LATE_REENROLL_CHECK" ELSE "ENROLL_ENROLL")
    <3>1. PICK next \in {"ENROLL_LATE_REENROLL_CHECK", "ENROLL_ENROLL"} :
            Jump(next) /\ (next = "ENROLL_ENROLL" => ~LastStage)
      BY <2>3
    <3>2. at' = next
      BY <3>1 DEF Jump
    <3>3. Fields'
      BY <2>1, <2>2, <3>1, <3>2, FieldsNow, MocAssumption DEF LastStage, Fields,
         StagesLeft, Counted, Replacing, Capturing, EnrollStates
    <3> QED
      BY <1>a, <2>1, <3>1, <3>3, JumpTyped DEF EnrollStates
  <2>4. CASE End("error")
    BY <1>a, <2>1, <2>2, <2>4, EndTyped, FieldsNow DEF Fields, EnrollStates
  <2> QED
    BY <1>7, <2>3, <2>4 DEF CheckEnrolled
<1>8. CASE LateReenrollCheck
  <2>1. at = "ENROLL_LATE_REENROLL_CHECK" /\ at' = "ENROLL_COMMIT"
    BY <1>8 DEF LateReenrollCheck, Runs, Transceive
  <2>2. Fields'
    BY <1>8, <2>1, FieldsNow DEF LateReenrollCheck, Fields, StagesLeft, Counted,
       Replacing, Capturing, EnrollStates
  <2> QED
    BY <1>0, <1>8, <1>a, <2>1, <2>2, CmdsAre, SendTyped DEF LateReenrollCheck,
       EnrollStates, Awaited
<1>9. CASE EnrollCommit
  <2>1. at = "ENROLL_COMMIT" /\ sent = "none"
        /\ UNCHANGED <<enrolled_num, print_index, enroll_stage, match>>
    BY <1>9, AnsweredFacts DEF EnrollCommit
  <2>2. CASE End("error")
    BY <1>a, <2>1, <2>2, EndTyped, FieldsNow DEF Fields, EnrollStates
  <2>3. CASE Transceive("commit", 0, "ENROLL_CHECK_COMMITTED")
    <3>1. at' = "ENROLL_CHECK_COMMITTED"
      BY <2>3 DEF Transceive
    <3>2. Fields'
      BY <2>1, <3>1, FieldsNow DEF Fields, StagesLeft, Counted, Replacing, Capturing,
         EnrollStates
    <3> QED
      BY <1>0, <1>a, <2>1, <2>3, <3>2, CmdsAre, SendTyped DEF EnrollStates, Awaited
  <2> QED
    BY <1>9, <2>2, <2>3 DEF EnrollCommit
<1>10. CASE CheckCommitted
  <2>1. at = "ENROLL_CHECK_COMMITTED" /\ \E r \in {"ok", "error"} : End(r)
    BY <1>10, AnsweredFacts DEF CheckCommitted
  <2> QED
    BY <1>10, <1>a, <2>1, EndTyped, FieldsNow DEF CheckCommitted, Fields, EnrollStates
<1> QED
  BY <1>1, <1>2, <1>3, <1>4, <1>5, <1>6, <1>7, <1>8, <1>9, <1>10

\* No state but enroll's is bound by what enroll requires of its own.
LEMMA NotEnrolling ==
  ASSUME NEW state \in IdentifyStates \cup DeleteStates \cup ClearStates
  PROVE  state \notin Capturing /\ state \notin Replacing /\ state # "none"
BY DEF IdentifyStates, DeleteStates, ClearStates, Capturing, Replacing, EnrollStates

LEMMA IdentifyTyped ==
  ASSUME TypeInv, IdentifyCheckNum \/ IdentifyIdentify \/ GetFingerInfo \/ CheckFingerInfo
  PROVE  TypeInv'
<1>0. 0 \in Byte /\ 0..15 \subseteq Byte
  BY DEF Byte
<1>a. ASSUME NEW state \in IdentifyStates, at = state
      PROVE  /\ at # "none" /\ StatesOf(op.kind) = IdentifyStates
             /\ "none" \notin IdentifyStates
  BY <1>a, Running DEF IdentifyStates, StatesOf
<1>b. ASSUME NEW next \in IdentifyStates, at' = next, enrolled_num' \in Byte,
             print_index' \in 0..15, match' \in Matches, UNCHANGED enroll_stage
      PROVE  Fields'
  BY <1>b, FieldsNow, NotEnrolling DEF Fields, StagesLeft, Counted
<1>1. CASE IdentifyCheckNum
  <2>1. at = "IDENTIFY_CHECK_NUM_ENROLLED" /\ sent = "none" /\ enrolled_num' \in Byte
        /\ UNCHANGED <<print_index, enroll_stage>>
    BY <1>1, AnsweredFacts DEF IdentifyCheckNum
  <2>2. CASE Report("fail") /\ End("ok")
    BY <1>a, <2>1, <2>2, EndTyped, ReportTyped, FieldsNow DEF Fields, IdentifyStates
  <2>3. CASE Jump("IDENTIFY_IDENTIFY") /\ UNCHANGED match
    <3>1. Fields'
      BY <1>b, <2>1, <2>3, FieldsNow DEF Jump, Fields, IdentifyStates
    <3> QED
      BY <1>a, <2>1, <2>3, <3>1, JumpTyped DEF IdentifyStates
  <2> QED
    BY <1>1, <2>2, <2>3 DEF IdentifyCheckNum
<1>2. CASE IdentifyIdentify
  <2>1. at = "IDENTIFY_IDENTIFY" /\ at' = "IDENTIFY_GET_FINGER_INFO"
    BY <1>2 DEF IdentifyIdentify, Runs, Transceive
  <2>2. Fields'
    BY <1>2, <1>b, <2>1, FieldsNow DEF IdentifyIdentify, Fields, IdentifyStates
  <2> QED
    BY <1>0, <1>2, <1>a, <2>1, <2>2, CmdsAre, SendTyped DEF IdentifyIdentify,
       IdentifyStates, Awaited
<1>3. CASE GetFingerInfo
  <2>1. at = "IDENTIFY_GET_FINGER_INFO" /\ sent = "none" /\ Status \in Byte
        /\ (Matched(Status) <=> Status \in 0..15)
        /\ UNCHANGED <<enrolled_num, enroll_stage>>
    BY <1>3, AnsweredFacts DEF GetFingerInfo
  <2>2. CASE /\ Matched(Status) /\ print_index' = Status /\ UNCHANGED match
             /\ Transceive("finger_info", Status, "IDENTIFY_CHECK_FINGER_INFO")
    <3>1. at' = "IDENTIFY_CHECK_FINGER_INFO"
      BY <2>2 DEF Transceive
    <3>2. Fields'
      BY <1>b, <2>1, <2>2, <3>1, FieldsNow DEF Fields, IdentifyStates
    <3> QED
      BY <1>0, <1>a, <2>1, <2>2, <3>2, CmdsAre, SendTyped DEF IdentifyStates, Awaited
  <2>3. CASE Report("error") /\ Jump("IDENTIFY_IDENTIFY") /\ UNCHANGED print_index
    <3>1. at' = "IDENTIFY_IDENTIFY" /\ match' \in Matches
      BY <2>3, ReportTyped DEF Jump
    <3>2. Fields'
      BY <1>b, <2>1, <2>3, <3>1, FieldsNow DEF Fields, IdentifyStates
    <3> QED
      BY <1>a, <2>1, <2>3, <3>2, JumpTyped DEF IdentifyStates
  <2>4. CASE End("error") /\ UNCHANGED <<print_index, match>>
    BY <1>a, <2>1, <2>4, EndTyped, FieldsNow DEF Fields, IdentifyStates
  <2> QED
    BY <1>3, <2>2, <2>3, <2>4 DEF GetFingerInfo
<1>4. CASE CheckFingerInfo
  <2>1. at = "IDENTIFY_CHECK_FINGER_INFO" /\ End("ok")
        /\ UNCHANGED <<enrolled_num, print_index, enroll_stage>>
    BY <1>4 DEF CheckFingerInfo, Runs
  <2>2. match' \in Matches
    BY <1>4, ReportTyped DEF CheckFingerInfo
  <2> QED
    BY <1>a, <2>1, <2>2, EndTyped, FieldsNow DEF Fields, IdentifyStates
<1> QED
  BY <1>1, <1>2, <1>3, <1>4

LEMMA DeleteTyped ==
  ASSUME TypeInv, DeleteSend \/ DeleteCheck \/ ClearWipe \/ ClearCheck
  PROVE  TypeInv'
<1>0. 0 \in Byte
  BY DEF Byte
<1>a. ASSUME NEW state \in DeleteStates \cup ClearStates, at = state
      PROVE  /\ at # "none" /\ op.prints \subseteq 0..15
             /\ state \in DeleteStates => StatesOf(op.kind) = DeleteStates
             /\ state \in ClearStates => StatesOf(op.kind) = ClearStates
  <2>1. at # "none"
    BY <1>a, NotEnrolling
  <2>2. op.prints \subseteq 0..15
    BY <2>1, Running, SlotsSmall DEF Ops
  <2>3. state \in DeleteStates => op.kind = "delete"
    BY <1>a, <2>1, Running
  <2>4. state \in ClearStates => op.kind = "clear"
    BY <1>a, <2>1, Running
  <2> QED
    BY <2>1, <2>2, <2>3, <2>4 DEF StatesOf
<1>b. ASSUME NEW next \in DeleteStates \cup ClearStates, at' = next,
             UNCHANGED <<enrolled_num, print_index, enroll_stage, match>>
      PROVE  Fields'
  BY <1>b, FieldsNow, NotEnrolling DEF Fields, StagesLeft, Counted
<1>1. CASE DeleteSend
  <2>1. at = "DELETE_SEND" /\ sent = "none"
        /\ UNCHANGED <<enrolled_num, print_index, enroll_stage, match>>
    BY <1>1 DEF DeleteSend, Runs
  <2>2. at' = "DELETE_CHECK"
    BY <1>1 DEF DeleteSend, Transceive, Jump
  <2>3. Fields'
    BY <1>b, <2>1, <2>2 DEF DeleteStates
  <2>4. CASE Jump("DELETE_CHECK")
    BY <1>a, <2>1, <2>3, <2>4, JumpTyped DEF DeleteStates
  <2>5. ASSUME NEW s \in op.prints, Transceive("delete", SlotByte(s), "DELETE_CHECK")
        PROVE  TypeInv'
    <3>1. SlotByte(s) \in Byte
      BY <1>a, <2>1, SlotByteNames DEF DeleteStates
    <3> QED
      BY <1>a, <2>1, <2>3, <2>5, <3>1, CmdsAre, SendTyped DEF DeleteStates, Awaited
  <2> QED
    BY <1>1, <2>4, <2>5 DEF DeleteSend
<1>2. CASE DeleteCheck
  <2>1. at = "DELETE_CHECK" /\ End(DeleteResult)
        /\ UNCHANGED <<print_index, enroll_stage, match>>
    BY <1>2 DEF DeleteCheck, Runs
  <2>2. DeleteResult \in {"ok", "error"}
    BY DEF DeleteResult
  <2>3. enrolled_num' \in Byte
    BY <1>2, FieldsNow DEF DeleteCheck, Fields, Byte
  <2> QED
    BY <1>a, <2>1, <2>2, <2>3, EndTyped, FieldsNow DEF Fields, DeleteStates
<1>3. CASE ClearWipe
  <2>1. at = "CLEAR_STORAGE_WIPE_SENSOR" /\ at' = "CLEAR_STORAGE_GET_NUM_ENROLLED"
    BY <1>3 DEF ClearWipe, Runs, Transceive
  <2>2. Fields'
    BY <1>3, <1>b, <2>1 DEF ClearWipe, ClearStates
  <2> QED
    BY <1>0, <1>3, <1>a, <2>1, <2>2, CmdsAre, SendTyped DEF ClearWipe, ClearStates
<1>4. CASE ClearCheck
  <2>1. at = "CLEAR_STORAGE_CHECK_NUM_ENROLLED" /\ enrolled_num' \in Byte
        /\ UNCHANGED <<print_index, enroll_stage, match>>
        /\ \E r \in {"ok", "error"} : End(r)
    BY <1>4, AnsweredFacts DEF ClearCheck
  <2> QED
    BY <1>a, <2>1, EndTyped, FieldsNow DEF Fields, ClearStates
<1> QED
  BY <1>1, <1>2, <1>3, <1>4

LEMMA HandlersTyped == TypeInv /\ Handlers => TypeInv'
BY CountingTyped, EnrollTyped, IdentifyTyped, DeleteTyped DEF Handlers

\* Libfprint's own steps and those of the transfers.
LEMMA OthersTyped ==
  ASSUME TypeInv,
         \/ \E o \in Requested : Begin(o)
         \/ Deliver \/ Receive \/ TransferFails \/ Crash \/ Replug
  PROVE  TypeInv'
<1>1. ASSUME NEW o \in Requested, Begin(o) PROVE TypeInv'
  <2>1. /\ op' = o /\ op = NoOp /\ enroll_stage' = 0 /\ touched' = NoSlot
        /\ UNCHANGED <<sensorVars, sent, buffer_in, enrolled_num, print_index,
                       match, abandoned>>
    BY <1>1 DEF Begin
  <2>2. o \in Ops /\ o # NoOp /\ o.kind \in Kinds
    BY MocAssumption DEF Ops
  <2>3. at = "none" /\ sent = "none" /\ buffer_in = NoReply
    BY <2>1 DEF TypeInv, OneMachine
  <2>4. SensorTypeOK'
    BY <2>1 DEF sensorVars, TypeInv, MocTypeOK, SensorTypeOK
  <2>5. /\ FirstState(o.kind) \in StatesOf(o.kind) /\ FirstState(o.kind) # "none"
        /\ FirstState(o.kind) \notin Replacing
    BY <2>2 DEF Kinds, FirstState, StatesOf, EnrollStates, IdentifyStates,
       DeleteStates, ClearStates, Replacing
  <2>6. \/ at' = "none" /\ outcome' = "error"
        \/ at' = FirstState(o.kind) /\ outcome' = "none"
    BY <1>1 DEF Begin
  <2>7. MocTypeOK'
    BY <2>1, <2>2, <2>4, <2>5, <2>6, MocAssumption DEF TypeInv, MocTypeOK
  <2>8. OneMachine' /\ Placed'
    BY <2>1, <2>2, <2>3, <2>5, <2>6 DEF OneMachine, Placed
  <2>9. StagesLeft' /\ Counted'
    BY <2>1, <2>5, <2>6, MocAssumption DEF StagesLeft, Counted, Replacing
  <2> QED
    BY <2>7, <2>8, <2>9 DEF TypeInv
<1>2. CASE Deliver
  <2>1. /\ op' = NoOp /\ outcome' = "none" /\ match' = NoMatch /\ outcome # "none"
        /\ UNCHANGED <<sensorVars, at, sent, buffer_in, enrolled_num, print_index,
                       enroll_stage, touched, abandoned>>
    BY <1>2 DEF Deliver
  <2>2. at = "none"
    BY <2>1 DEF TypeInv, OneMachine
  <2>3. SensorTypeOK'
    BY <2>1 DEF sensorVars, TypeInv, MocTypeOK, SensorTypeOK
  <2>4. MocTypeOK'
    BY <2>1, <2>2, <2>3 DEF TypeInv, MocTypeOK, NoMatch
  <2>5. OneMachine' /\ Placed'
    BY <2>1, <2>2 DEF TypeInv, OneMachine, Placed
  <2>6. StagesLeft' /\ Counted'
    BY <2>1, <2>2 DEF StagesLeft, Counted, Capturing, Replacing, EnrollStates
  <2> QED
    BY <2>4, <2>5, <2>6 DEF TypeInv
<1>3. CASE Receive
  <2> DEFINE ep == Cmd[sent].ep_in
  <2>1. /\ sent # "none" /\ sent' = "none" /\ fifo[ep] # <<>>
        /\ fifo' = [fifo EXCEPT ![ep] = Tail(fifo[ep])]
        /\ \/ buffer_in' = Head(fifo[ep]) /\ UNCHANGED <<at, outcome>>
           \/ buffer_in' = NoReply /\ at' = "none" /\ outcome' = "error"
        /\ UNCHANGED <<store, cur, waiting, inbox, op, enrolled_num, print_index,
                       enroll_stage, match, touched, abandoned>>
    BY <1>3 DEF Receive
  <2>2. sent \in CmdNames /\ ep \in Endpoints /\ fifo \in [Endpoints -> Seq(Replies)]
    BY <2>1, CmdTable DEF TypeInv, MocTypeOK, SensorTypeOK
  <2>3. /\ fifo[ep] \in Seq(Replies) /\ Head(fifo[ep]) \in Replies
        /\ Tail(fifo[ep]) \in Seq(Replies) /\ Len(Tail(fifo[ep])) = Len(fifo[ep]) - 1
        /\ Len(fifo[ep]) \in Nat
    BY <2>1, <2>2, HeadTailProperties, LenProperties
  <2>4. fifo' \in [Endpoints -> Seq(Replies)]
    BY <2>1, <2>2, <2>3
  <2>5. ASSUME NEW e \in Endpoints PROVE Len(fifo'[e]) <= InDepth
    <3>1. CASE e = ep
      BY <2>1, <2>2, <2>3, <3>1, SensorAssumption DEF TypeInv, MocTypeOK, SensorTypeOK
    <3>2. CASE e # ep
      BY <2>1, <2>2, <3>2 DEF TypeInv, MocTypeOK, SensorTypeOK
    <3> QED
      BY <3>1, <3>2
  <2>6. SensorTypeOK'
    BY <2>1, <2>4, <2>5 DEF TypeInv, MocTypeOK, SensorTypeOK
  <2>7. at # "none" /\ op # NoOp
    BY <2>1, Running DEF TypeInv, OneMachine
  <2>8. MocTypeOK'
    BY <2>1, <2>3, <2>6, <2>7 DEF TypeInv, MocTypeOK
  <2>9. OneMachine' /\ Placed'
    BY <2>1, <2>7 DEF TypeInv, OneMachine, Placed
  <2>10. StagesLeft' /\ Counted'
    BY <2>1 DEF TypeInv, StagesLeft, Counted, Capturing, Replacing, EnrollStates
  <2> QED
    BY <2>8, <2>9, <2>10 DEF TypeInv
<1>4. CASE TransferFails
  <2>1. at # "none" /\ Complete("error") /\ abandoned' \in 0..MaxAbandoned
    BY <1>4, MocAssumption DEF TransferFails, GiveUp, TypeInv, MocTypeOK
  <2> QED
    BY <1>4, <2>1, CompleteTyped, FieldsNow DEF TransferFails, Fields
<1>5. CASE Crash \/ Replug
  <2>1. Reset /\ abandoned' \in 0..MaxAbandoned
    BY <1>5, MocAssumption DEF Crash, Replug, GiveUp, TypeInv, MocTypeOK
  <2>2. SensorTypeOK'
    <3>1. CASE Crash
      BY <3>1 DEF Crash, sensorVars, TypeInv, MocTypeOK, SensorTypeOK
    <3>2. CASE Replug
      BY <3>2, EmptySeq, SensorAssumption DEF Replug, PowerCycle, TypeInv, MocTypeOK,
         SensorTypeOK
    <3> QED
      BY <1>5, <3>1, <3>2
  <2>3. MocTypeOK'
    BY <2>1, <2>2, MocAssumption DEF Reset, NoMatch, MocTypeOK, Byte
  <2>4. OneMachine' /\ Placed' /\ StagesLeft' /\ Counted'
    BY <2>1 DEF Reset, OneMachine, Placed, StagesLeft, Counted, Capturing, Replacing,
       EnrollStates
  <2> QED
    BY <2>3, <2>4 DEF TypeInv
<1> QED
  BY <1>1, <1>2, <1>3, <1>4, <1>5

LEMMA TypeStep == TypeInv /\ [Next]_vars => TypeInv'
<1> SUFFICES ASSUME TypeInv, [Next]_vars PROVE TypeInv'
  OBVIOUS
<1>1. CASE SensorOwn /\ UNCHANGED mocVars
  <2>1. SensorTypeOK'
    BY <1>1, SensorTypes DEF SensorOwn, SensorNext, TypeInv, MocTypeOK
  <2> QED
    BY <1>1, <2>1 DEF mocVars, TypeInv, MocTypeOK, OneMachine, Placed, StagesLeft, Counted
<1>2. CASE Touch
  <2>1. SensorTypeOK'
    BY <1>2, SensorTypes DEF Touch, SensorNext, TypeInv, MocTypeOK
  <2>2. touched' \in Slots \cup {NoSlot}
    BY <1>2, <2>1 DEF Touch, SensorTypeOK
  <2> QED
    BY <1>2, <2>1, <2>2 DEF Touch, TypeInv, MocTypeOK, OneMachine, Placed, StagesLeft,
       Counted
<1>3. CASE UNCHANGED vars
  BY <1>3 DEF vars, sensorVars, mocVars, TypeInv, MocTypeOK, SensorTypeOK, OneMachine,
     Placed, StagesLeft, Counted
<1> QED
  BY <1>1, <1>2, <1>3, HandlersTyped, OthersTyped DEF Next

LEMMA TypeInit == Init => TypeInv
<1> SUFFICES ASSUME Init PROVE TypeInv
  OBVIOUS
<1>1. SensorTypeOK
  BY EmptySeq, SensorAssumption DEF Init, SensorInit, SensorTypeOK
<1>2. MocTypeOK
  BY <1>1, MocAssumption DEF Init, MocTypeOK, NoMatch, Byte
<1> QED
  BY <1>2 DEF Init, TypeInv, OneMachine, Placed, StagesLeft, Counted, Capturing,
     Replacing, EnrollStates

LEMMA TypeInvariant == Spec => []TypeInv
BY TypeInit, TypeStep, PTL DEF Spec

\* Types, the range of slots and stages: the machine is always at a state of its
\* own operation, for any operations, slots and stages.
THEOREM MocTypeCorrect == Spec => []MocTypeOK
BY TypeInvariant, PTL DEF TypeInv

\* Every machine ends with its operation and every operation with its machine,
\* whichever handler returns early and whatever fails.
THEOREM MachinesEnd == Spec => []OneMachine
BY TypeInvariant, PTL DEF TypeInv

(***************************************************************************)
(* The reported error                                                      *)
(***************************************************************************)
ReportInv == ReportOwned /\ (op = NoOp => match = NoMatch)

LEMMA ReportStep == TypeInv /\ ReportInv /\ [Next]_vars => ReportInv'
<1> SUFFICES ASSUME TypeInv, ReportInv, [Next]_vars PROVE ReportInv'
  OBVIOUS
<1>1. ASSUME UNCHANGED <<op, match>> PROVE ReportInv'
  BY <1>1 DEF ReportInv, ReportOwned
<1>2. ASSUME match' = NoMatch PROVE ReportInv'
  BY <1>2 DEF NoMatch, ReportInv, ReportOwned
<1>3. ASSUME NEW r \in {"success", "fail", "error"}, Report(r), at # "none", op' = op
      PROVE  ReportInv'
  <2>1. op' # NoOp
    BY <1>3, Running
  <2> QED
    BY <1>3, <2>1 DEF Report, ReportInv, ReportOwned
<1>4. ASSUME NEW o \in Requested, Begin(o) PROVE match' = NoMatch
  BY <1>4 DEF Begin, ReportInv
<1>5. CASE IdentifyCheckNum \/ GetFingerInfo \/ CheckFingerInfo
  <2>1. op' = op /\ at # "none"
    BY <1>5 DEF IdentifyCheckNum, GetFingerInfo, CheckFingerInfo, Answered, Runs,
       Transceive, Jump, End, Complete
  <2>2. match' = match \/ \E r \in {"success", "fail", "error"} : Report(r)
    BY <1>5 DEF IdentifyCheckNum, GetFingerInfo, CheckFingerInfo
  <2> QED
    BY <1>1, <1>3, <2>1, <2>2
<1>6. CASE ShortReply \/ QueryCount \/ RequeryCount
  BY <1>1, <1>6 DEF ShortReply, QueryCount, RequeryCount, Transceive, Jump, End, Complete
<1>7. CASE \/ EnrollCheckNum \/ EarlyReenrollCheck \/ GetEnrolledFingerInfo
           \/ AttemptDelete \/ CheckDeleted
  BY <1>1, <1>7 DEF EnrollCheckNum, EarlyReenrollCheck, GetEnrolledFingerInfo,
     AttemptDelete, CheckDeleted, Deleted, Transceive, Jump, End, Complete
<1>8. CASE EnrollEnroll \/ CheckEnrolled \/ LateReenrollCheck \/ EnrollCommit \/ CheckCommitted
  BY <1>1, <1>8 DEF EnrollEnroll, CheckEnrolled, LateReenrollCheck, EnrollCommit,
     CheckCommitted, Transceive, Jump, End, Complete
<1>9. CASE IdentifyIdentify \/ DeleteSend \/ DeleteCheck \/ ClearWipe \/ ClearCheck
  BY <1>1, <1>9 DEF IdentifyIdentify, DeleteSend, DeleteCheck, ClearWipe, ClearCheck,
     Transceive, Jump, End, Complete
<1>10. CASE Receive \/ TransferFails \/ (SensorOwn /\ UNCHANGED mocVars) \/ Touch
  BY <1>1, <1>10 DEF Receive, TransferFails, Complete, mocVars, Touch
<1>11. CASE Deliver \/ Crash \/ Replug
  BY <1>2, <1>11 DEF Deliver, Crash, Replug, Reset
<1>12. CASE UNCHANGED vars
  BY <1>1, <1>12 DEF vars, mocVars
<1> QED
  BY <1>2, <1>4, <1>5, <1>6, <1>7, <1>8, <1>9, <1>10, <1>11, <1>12 DEF Next, Handlers

\* Nobody but libfprint frees the error it was handed, and a verify reports an
\* error exactly when there is one, over any sequence of rejected fingers.
THEOREM ErrorsOwned == Spec => []ReportOwned
<1>1. Init => ReportInv
  BY DEF Init, ReportInv, ReportOwned, NoMatch
<1> QED
  BY <1>1, ReportStep, TypeInvariant, PTL DEF Spec, ReportInv

(***************************************************************************)
(* The exchange in step                                                    *)
(***************************************************************************)
Drained == \A ep \in Endpoints : fifo[ep] = <<>>

\* What a reply in step tells the handler that will read it.
Good(r) ==
  /\ r.cmd = "identify" /\ Matched(r.b1) => touched = r.b1
  /\ r.cmd = "get_enrolled_count" => r.b1 <= MaxPrints
  /\ r.cmd = "delete" /\ r.len >= 2 /\ r.b1 = 0 /\ op # NoOp /\ op.kind = "delete"
       => op.prints \cap store = {}

Asked(q) ==
  /\ q.cmd = sent
  /\ q.cmd = "delete" /\ op # NoOp /\ op.kind = "delete" => SlotNamed(q.arg) \in op.prints

Idle ==
  /\ waiting = NoReq /\ Drained
  /\ \A i \in 1..Len(inbox) : inbox[i].cmd = "wipe_sensor"

Queued ==
  /\ waiting = NoReq /\ Drained /\ inbox # <<>>
  /\ Asked(inbox[Len(inbox)])
  /\ \A i \in 1..(Len(inbox) - 1) : inbox[i].cmd = "wipe_sensor"

AtFinger ==
  /\ waiting # NoReq /\ waiting.cmd = sent /\ sent \in {"identify", "enroll"}
  /\ Drained /\ inbox = <<>>

Replied ==
  LET e == Cmd[sent].ep_in IN
  /\ waiting = NoReq /\ inbox = <<>>
  /\ Len(fifo[e]) = 1 /\ Head(fifo[e]).cmd = sent /\ Good(Head(fifo[e]))
  /\ \A ep \in Endpoints \ {e} : fifo[ep] = <<>>

Flight == IF sent = "none" THEN Idle ELSE Queued \/ AtFinger \/ Replied

\* What the driver makes of it.
Held ==
  /\ buffer_in # NoReply => buffer_in.cmd = Awaited(at) /\ Good(buffer_in)
  /\ at \in {"ENROLL_ATTEMPT_DELETE", "IDENTIFY_CHECK_FINGER_INFO"} => print_index = touched
  /\ match.result = "success" => outcome = "ok" /\ touched \in op.prints
  /\ enrolled_num <= MaxPrints
  /\ outcome = "ok" /\ op # NoOp /\ op.kind = "delete" => op.prints \cap store = {}

SyncInv == TypeInv /\ (inStep => Flight /\ Held)

\* A handler runs only with nothing on its way but wipes.
LEMMA NothingPending ==
  ASSUME SyncInv, inStep, sent = "none"
  PROVE  Idle /\ Held
BY DEF SyncInv, Flight

LEMMA NoSuccessYet ==
  ASSUME SyncInv, inStep, at # "none"
  PROVE  match.result # "success"
BY Running DEF SyncInv, Held

\* A handler sends: its request joins the queue behind the wipes.
LEMMA SendInStep ==
  ASSUME SyncInv, inStep, sent = "none", at # "none", TypeInv',
         NEW c \in CmdNames, NEW arg \in Byte, NEW next, Transceive(c, arg, next),
         c = "delete" /\ op.kind = "delete" => SlotNamed(arg) \in op.prints,
         next \in {"ENROLL_ATTEMPT_DELETE", "IDENTIFY_CHECK_FINGER_INFO"}
           => print_index' = touched,
         enrolled_num' <= MaxPrints, match'.result # "success"
  PROVE  SyncInv'
<1> DEFINE q == [cmd |-> c, arg |-> arg, auth |-> FALSE]
<1>1. /\ inbox' = Append(inbox, q)
      /\ sent' = IF c = "wipe_sensor" THEN "none" ELSE c
      /\ at' = next /\ buffer_in' = NoReply
      /\ UNCHANGED <<store, cur, waiting, fifo, op, outcome, touched, abandoned>>
  BY CmdTable DEF Transceive
<1>2. inbox \in Seq(Requests) /\ Len(inbox) \in Nat /\ q \in Requests
  BY LenProperties DEF Requests, SyncInv, TypeInv, MocTypeOK, SensorTypeOK
<1>3. /\ Len(inbox') = Len(inbox) + 1 /\ inbox'[Len(inbox) + 1] = q /\ inbox' # <<>>
      /\ \A i \in 1..Len(inbox) : inbox'[i] = inbox[i]
  BY <1>1, <1>2, AppendProperties
<1>4. waiting = NoReq /\ Drained /\ \A i \in 1..Len(inbox) : inbox[i].cmd = "wipe_sensor"
  BY NothingPending DEF Idle
<1>5. waiting' = NoReq /\ Drained'
  BY <1>1, <1>4 DEF Drained
<1>6. Flight'
  <2>1. CASE c = "wipe_sensor"
    <3>1. \A i \in 1..Len(inbox') : inbox'[i].cmd = "wipe_sensor"
      BY <1>2, <1>3, <1>4, <2>1
    <3> QED
      BY <1>1, <1>5, <2>1, <3>1 DEF Flight, Idle
  <2>2. CASE c # "wipe_sensor"
    <3>1. \A i \in 1..(Len(inbox') - 1) : inbox'[i].cmd = "wipe_sensor"
      BY <1>2, <1>3, <1>4
    <3>2. Asked(q)'
      BY <1>1, <2>2 DEF Asked
    <3>3. inbox'[Len(inbox')] = q
      BY <1>2, <1>3
    <3>4. Queued'
      <4> HIDE DEF q
      <4> QED
        BY <1>3, <1>5, <3>1, <3>2, <3>3 DEF Queued, Asked
    <3>5. c # "none"
      BY DEF CmdNames
    <3> QED
      BY <1>1, <2>2, <3>4, <3>5 DEF Flight
  <2> QED
    BY <2>1, <2>2
<1>7. Held'
  <2>1. outcome' = "none"
    BY <1>1, Running DEF SyncInv
  <2> QED
    BY <1>1, <2>1 DEF Held
<1> QED
  BY <1>6, <1>7 DEF SyncInv

\* A handler goes on without sending, or ends its operation.
LEMMA IdleStays ==
  ASSUME SyncInv, inStep, sent = "none", sent' = "none", UNCHANGED sensorVars
  PROVE  Flight'
<1>1. Idle
  BY NothingPending
<1>2. Idle'
  BY <1>1 DEF Idle, Drained, sensorVars
<1> QED
  BY <1>2 DEF Flight

LEMMA JumpInStep ==
  ASSUME SyncInv, inStep, sent = "none", at # "none", TypeInv', NEW next, Jump(next),
         next \notin {"ENROLL_ATTEMPT_DELETE", "IDENTIFY_CHECK_FINGER_INFO"},
         enrolled_num' <= MaxPrints, match'.result # "success"
  PROVE  SyncInv'
<1>1. /\ at' = next /\ buffer_in' = NoReply /\ sent' = "none"
      /\ UNCHANGED <<sensorVars, op, outcome, touched, abandoned>>
  BY DEF Jump
<1>2. Flight'
  BY <1>1, IdleStays
<1>3. Held'
  <2>1. outcome' = "none"
    BY <1>1, Running DEF SyncInv
  <2> QED
    BY <1>1, <2>1 DEF Held
<1> QED
  BY <1>2, <1>3 DEF SyncInv

LEMMA CompleteInStep ==
  ASSUME SyncInv, inStep, sent = "none", at # "none", TypeInv', NEW result, Complete(result),
         enrolled_num' <= MaxPrints,
         match'.result = "success" => result = "ok" /\ touched \in op.prints,
         result = "ok" /\ op.kind = "delete" => op.prints \cap store = {}
  PROVE  SyncInv'
<1>1. /\ outcome' = result /\ at' = "none" /\ sent' = "none" /\ buffer_in' = NoReply
      /\ UNCHANGED <<sensorVars, op, touched>>
  BY DEF Complete
<1>2. Flight'
  BY <1>1, IdleStays
<1>3. Held'
  BY <1>1 DEF Held, sensorVars
<1> QED
  BY <1>2, <1>3 DEF SyncInv

\* What the reply tells a handler, in step.
LEMMA AnswerInStep ==
  ASSUME SyncInv, inStep, buffer_in # NoReply
  PROVE  /\ sent = "none" /\ at # "none" /\ buffer_in \in Replies /\ Status \in Byte
         /\ Matched(Status) <=> Status \in 0..15
         /\ Awaited(at) = "identify" /\ Matched(Status) => touched = Status
         /\ Awaited(at) = "get_enrolled_count" => Status <= MaxPrints
         /\ at = "DELETE_CHECK" /\ Responded /\ Status = 0 => op.prints \cap store = {}
<1>1. buffer_in \in Replies /\ sent = "none" /\ at # "none"
  BY DEF SyncInv, TypeInv, MocTypeOK, OneMachine, Placed
<1>2. Status \in Byte /\ (Matched(Status) <=> Status \in 0..15)
  BY <1>1, StatusFacts DEF Status, Replies
<1>3. buffer_in.cmd = Awaited(at) /\ Good(buffer_in)
  BY <1>1, NothingPending DEF Held
<1>4. at = "DELETE_CHECK" => op.kind = "delete" /\ op # NoOp /\ Awaited(at) = "delete"
  BY <1>1, Running DEF SyncInv, DeleteStates, Awaited
<1> QED
  BY <1>1, <1>2, <1>3, <1>4 DEF Good, Status, Responded

LEMMA HandlersInStep ==
  ASSUME SyncInv, inStep, TypeInv', Handlers
  PROVE  SyncInv'
<1> DEFINE n == enrolled_num
<1>0. TypeInv /\ 0 \in Byte /\ 0..15 \subseteq Byte
  BY DEF SyncInv, Byte
<1>m. match' = match /\ at # "none" => match'.result # "success"
  BY NoSuccessYet
<1>n. sent = "none" => n <= MaxPrints
  BY NothingPending DEF Held
<1>1. CASE ShortReply
  <2>1. at # "none" /\ sent = "none" /\ Complete("error")
        /\ UNCHANGED <<enrolled_num, match>>
    BY <1>1 DEF ShortReply, End
  <2> QED
    BY <1>m, <1>n, <2>1, CompleteInStep
<1>2. CASE QueryCount
  <2>1. PICK state \in DOMAIN CountCheck :
          Runs(state) /\ Transceive("get_enrolled_count", 0, CountCheck[state])
    BY <1>2 DEF QueryCount
  <2>2. sent = "none" /\ at # "none"
        /\ CountCheck[state] \notin {"ENROLL_ATTEMPT_DELETE", "IDENTIFY_CHECK_FINGER_INFO"}
    BY <2>1 DEF Runs, CountCheck
  <2> QED
    BY <1>0, <1>2, <1>m, <1>n, <2>1, <2>2, CmdsAre, SendInStep DEF QueryCount
<1>3. CASE RequeryCount
  <2>1. PICK state \in DOMAIN CountCheck : Runs(CountCheck[state]) /\ Jump(state)
    BY <1>3 DEF RequeryCount
  <2>2. sent = "none" /\ at # "none"
        /\ state \notin {"ENROLL_ATTEMPT_DELETE", "IDENTIFY_CHECK_FINGER_INFO"}
    BY <2>1 DEF Runs, CountCheck
  <2> QED
    BY <1>3, <1>m, <1>n, <2>1, <2>2, JumpInStep DEF RequeryCount
<1>4. CASE EnrollCheckNum \/ IdentifyCheckNum \/ ClearCheck
  <2>1. /\ buffer_in # NoReply /\ at # "none" /\ sent = "none"
        /\ Awaited(at) = "get_enrolled_count" /\ enrolled_num' = Status
        /\ at = "CLEAR_STORAGE_CHECK_NUM_ENROLLED" => ClearCheck
    BY <1>4 DEF EnrollCheckNum, IdentifyCheckNum, ClearCheck, Answered, Runs, Awaited
  <2>2. enrolled_num' <= MaxPrints
    BY <2>1, AnswerInStep
  <2>3. CASE EnrollCheckNum
    <3>1. PICK next \in {"ENROLL_ENROLL", "ENROLL_EARLY_REENROLL_CHECK"} : Jump(next)
      BY <2>3 DEF EnrollCheckNum
    <3> QED
      BY <1>m, <2>1, <2>2, <2>3, <3>1, JumpInStep DEF EnrollCheckNum
  <2>4. CASE IdentifyCheckNum
    <3>1. CASE Report("fail") /\ End("ok")
      <4>1. match'.result # "success" /\ op.kind # "delete"
        BY <1>0, <2>4, <3>1, Running DEF Report, IdentifyCheckNum, Answered, Runs,
           IdentifyStates
      <4> QED
        BY <2>1, <2>2, <3>1, <4>1, CompleteInStep DEF End
    <3>2. CASE Jump("IDENTIFY_IDENTIFY") /\ UNCHANGED match
      BY <1>m, <2>1, <2>2, <3>2, JumpInStep
    <3> QED
      BY <2>4, <3>1, <3>2 DEF IdentifyCheckNum
  <2>5. CASE ClearCheck
    <3>1. PICK r \in {"ok", "error"} : Complete(r)
      BY <2>5 DEF ClearCheck, End
    <3>2. op.kind # "delete"
      BY <1>0, <2>5, Running DEF ClearCheck, Answered, Runs, ClearStates
    <3> QED
      BY <1>m, <2>1, <2>2, <2>5, <3>1, <3>2, CompleteInStep DEF ClearCheck
  <2> QED
    BY <1>4, <2>3, <2>4, <2>5
<1>5. CASE EarlyReenrollCheck \/ IdentifyIdentify \/ EnrollEnroll \/ LateReenrollCheck
  <2>1. /\ sent = "none" /\ at # "none" /\ UNCHANGED <<enrolled_num, match>>
        /\ \E c \in {"identify", "enroll", "check_enroll_collision"},
              next \in States \ {"ENROLL_ATTEMPT_DELETE", "IDENTIFY_CHECK_FINGER_INFO"} :
              Transceive(c, 0, next)
    BY <1>5 DEF EarlyReenrollCheck, IdentifyIdentify, EnrollEnroll, LateReenrollCheck,
       Runs, States, EnrollStates, IdentifyStates
  <2> QED
    BY <1>0, <1>m, <1>n, <2>1, CmdsAre, SendInStep
<1>6. CASE GetEnrolledFingerInfo \/ GetFingerInfo
  <2>1. /\ buffer_in # NoReply /\ at # "none" /\ sent = "none"
        /\ Awaited(at) = "identify" /\ UNCHANGED enrolled_num
        /\ op.kind # "delete"
    BY <1>0, <1>6, Running DEF GetEnrolledFingerInfo, GetFingerInfo, Answered, Runs,
       Awaited, EnrollStates, IdentifyStates
  <2>2. CASE \E next : Matched(Status) /\ print_index' = Status /\ UNCHANGED match
                       /\ Transceive("finger_info", Status, next)
    BY <1>m, <1>n, <2>1, <2>2, AnswerInStep, CmdsAre, SendInStep
  <2>3. CASE \E next \in {"ENROLL_ENROLL", "ENROLL_EARLY_REENROLL_CHECK",
                          "IDENTIFY_IDENTIFY"} :
               Jump(next) /\ (UNCHANGED match \/ Report("error"))
    <3>1. match'.result # "success"
      BY <1>m, <2>1, <2>3 DEF Report
    <3> QED
      BY <1>n, <2>1, <2>3, <3>1, JumpInStep
  <2>4. CASE End("error") /\ UNCHANGED match
    BY <1>m, <1>n, <2>1, <2>4, CompleteInStep DEF End
  <2> QED
    BY <1>6, <2>2, <2>3, <2>4 DEF GetEnrolledFingerInfo, GetFingerInfo
<1>7. CASE AttemptDelete
  <2>1. sent = "none" /\ at = "ENROLL_ATTEMPT_DELETE" /\ UNCHANGED <<enrolled_num, match>>
    BY <1>7 DEF AttemptDelete, Runs
  <2>2. op.kind = "enroll" /\ SlotByte(print_index) \in Byte
    BY <1>0, <2>1, Running, FieldsNow, SlotByteNames DEF EnrollStates, Fields
  <2>3. CASE Transceive("delete", SlotByte(print_index), "ENROLL_CHECK_DELETED")
    BY <1>m, <1>n, <2>1, <2>2, <2>3, CmdsAre, SendInStep
  <2>4. CASE Jump("ENROLL_CHECK_DELETED")
    BY <1>m, <1>n, <2>1, <2>4, JumpInStep
  <2> QED
    BY <1>7, <2>3, <2>4 DEF AttemptDelete
<1>8. CASE CheckDeleted
  <2>1. sent = "none" /\ at = "ENROLL_CHECK_DELETED" /\ UNCHANGED match
    BY <1>8 DEF CheckDeleted, Answered, Runs
  <2>2. n \in Byte /\ n > 0 /\ n <= MaxPrints
    BY <1>0, <1>n, <2>1, FieldsNow DEF TypeInv, Counted, Replacing, Fields
  <2>3. CASE Deleted
    <3>1. enrolled_num' <= MaxPrints
      BY <2>2, <2>3, SensorAssumption DEF Deleted, Byte
    <3> QED
      BY <1>m, <2>1, <2>3, <3>1, JumpInStep DEF Deleted
  <2>4. CASE End("error") /\ UNCHANGED enrolled_num
    BY <1>m, <1>n, <2>1, <2>4, CompleteInStep DEF End
  <2> QED
    BY <1>8, <2>3, <2>4 DEF CheckDeleted
<1>9. CASE CheckEnrolled
  <2>1. sent = "none" /\ at = "ENROLL_CHECK_ENROLLED" /\ UNCHANGED <<enrolled_num, match>>
    BY <1>9 DEF CheckEnrolled, Answered, Runs
  <2>2. CASE End("error")
    BY <1>m, <1>n, <2>1, <2>2, CompleteInStep DEF End
  <2>3. CASE \E next \in {"ENROLL_LATE_REENROLL_CHECK", "ENROLL_ENROLL"} : Jump(next)
    BY <1>m, <1>n, <2>1, <2>3, JumpInStep
  <2> QED
    BY <1>9, <2>2, <2>3 DEF CheckEnrolled
<1>10. CASE EnrollCommit \/ CheckCommitted
  <2>1. /\ sent = "none" /\ at # "none" /\ UNCHANGED <<enrolled_num, match>>
        /\ op.kind = "enroll"
    BY <1>0, <1>10, Running DEF EnrollCommit, CheckCommitted, Answered, Runs, EnrollStates
  <2>2. CASE \E r \in {"ok", "error"} : End(r)
    BY <1>m, <1>n, <2>1, <2>2, CompleteInStep DEF End
  <2>3. CASE Transceive("commit", 0, "ENROLL_CHECK_COMMITTED")
    BY <1>0, <1>m, <1>n, <2>1, <2>3, CmdsAre, SendInStep
  <2> QED
    BY <1>10, <2>2, <2>3 DEF EnrollCommit, CheckCommitted
<1>11. CASE CheckFingerInfo
  <2>1. /\ sent = "none" /\ at = "IDENTIFY_CHECK_FINGER_INFO" /\ Complete("ok")
        /\ UNCHANGED enrolled_num
    BY <1>11 DEF CheckFingerInfo, Runs, End
  <2>2. print_index = touched /\ op.kind # "delete"
    BY <1>0, <2>1, Running, NothingPending DEF Held, IdentifyStates
  <2>3. match'.result = "success" => touched \in op.prints
    BY <1>11, <2>2 DEF CheckFingerInfo, Report, Recognised
  <2> QED
    BY <1>n, <2>1, <2>2, <2>3, CompleteInStep
<1>12. CASE DeleteSend
  <2>1. sent = "none" /\ at = "DELETE_SEND" /\ UNCHANGED <<enrolled_num, match>>
    BY <1>12 DEF DeleteSend, Runs
  <2>2. op.prints \subseteq 0..15
    BY <1>0, <2>1, Running, SlotsSmall DEF Ops
  <2>3. CASE Jump("DELETE_CHECK")
    BY <1>m, <1>n, <2>1, <2>3, JumpInStep
  <2>4. ASSUME NEW s \in op.prints, Transceive("delete", SlotByte(s), "DELETE_CHECK")
        PROVE  SyncInv'
    <3>1. SlotByte(s) \in Byte /\ SlotNamed(SlotByte(s)) \in op.prints
      BY <2>2, SlotByteNames
    <3> QED
      BY <1>m, <1>n, <2>1, <2>4, <3>1, CmdsAre, SendInStep
  <2> QED
    BY <1>12, <2>3, <2>4 DEF DeleteSend
<1>13. CASE DeleteCheck
  <2>1. sent = "none" /\ at = "DELETE_CHECK" /\ Complete(DeleteResult) /\ UNCHANGED match
    BY <1>13 DEF DeleteCheck, Runs, End
  <2>2. enrolled_num' <= MaxPrints
    BY <1>0, <1>13, <1>n, <2>1, FieldsNow, SensorAssumption DEF DeleteCheck, Fields, Byte
  <2>3. DeleteResult = "ok" => op.prints \cap store = {}
    BY <2>1, AnswerInStep DEF DeleteResult, Responded
  <2> QED
    BY <1>m, <2>1, <2>2, <2>3, CompleteInStep
<1>14. CASE ClearWipe
  <2>1. sent = "none" /\ at # "none" /\ UNCHANGED <<enrolled_num, match>>
    BY <1>14 DEF ClearWipe, Runs
  <2> QED
    BY <1>0, <1>14, <1>m, <1>n, <2>1, CmdsAre, SendInStep DEF ClearWipe
<1> QED
  BY <1>1, <1>2, <1>3, <1>4, <1>5, <1>6, <1>7, <1>8, <1>9, <1>10, <1>11, <1>12,
     <1>13, <1>14 DEF Handlers

\* The reply to the only request in flight, queued on a drained endpoint.
LEMMA EmitReplies ==
  ASSUME SensorTypeOK, Drained, NEW r \in Replies, Emit(r), r.cmd = sent,
         sent # "none", sent' = sent, waiting' = NoReq, inbox' = <<>>, Good(r)'
  PROVE  Flight'
<1> DEFINE e == Cmd[sent].ep_in
<1>1. e \in Endpoints
  BY CmdTable DEF Replies
<1>2. fifo' = [fifo EXCEPT ![e] = Append(fifo[e], r)] /\ fifo[e] = <<>>
  BY <1>1 DEF Emit, Drained
<1>3. fifo'[e] = Append(<<>>, r)
  BY <1>1, <1>2 DEF SensorTypeOK
<1>4. Len(fifo'[e]) = 1 /\ Head(fifo'[e]) = r
  BY <1>3
<1>5. \A ep \in Endpoints \ {e} : fifo'[ep] = <<>>
  BY <1>2 DEF Drained, SensorTypeOK
<1>6. Head(fifo[e])' = r
  BY <1>4
<1>7. Good(Head(fifo[e]))'
  BY <1>6 DEF Good
<1>8. Replied'
  BY <1>4, <1>5, <1>7 DEF Replied
<1> QED
  BY <1>8 DEF Flight

\* A request the sensor takes, other than a wipe, is the one awaited, alone.
LEMMA HeadIsAsked ==
  ASSUME SyncInv, inStep, inbox # <<>>, Head(inbox).cmd # "wipe_sensor"
  PROVE  /\ sent # "none" /\ waiting = NoReq /\ Drained
         /\ Tail(inbox) = <<>> /\ Asked(Head(inbox)) /\ Head(inbox) \in Requests
<1>1. /\ Head(inbox) = inbox[1] /\ Len(inbox) \in Nat /\ Len(inbox) >= 1
      /\ Len(Tail(inbox)) = Len(inbox) - 1 /\ Tail(inbox) \in Seq(Requests)
      /\ Head(inbox) \in Requests
  BY HeadTyped DEF SyncInv, TypeInv, MocTypeOK
<1>2. 1 \in 1..Len(inbox)
  BY <1>1
<1>3. sent # "none"
  BY <1>1, <1>2, NothingPending DEF Idle
<1>4. Queued
  BY <1>3 DEF SyncInv, Flight, AtFinger, Replied
<1>5. Len(inbox) = 1
  <2> SUFFICES ASSUME Len(inbox) # 1 PROVE FALSE
    OBVIOUS
  <2>1. 1 \in 1..(Len(inbox) - 1)
    BY <1>1
  <2> QED
    BY <1>1, <1>4, <2>1 DEF Queued
<1>6. Tail(inbox) = <<>>
  <2>1. Len(Tail(inbox)) = 0
    BY <1>1, <1>5
  <2> QED
    BY <1>1, <2>1, EmptySeq
<1> QED
  BY <1>1, <1>3, <1>4, <1>5, <1>6 DEF Queued

\* The machine that waits for a reply.
LEMMA Waiting ==
  ASSUME SyncInv, sent # "none"
  PROVE  /\ at # "none" /\ sent = Awaited(at) /\ buffer_in = NoReply
         /\ op \in Ops /\ op # NoOp /\ outcome = "none"
         /\ sent = "commit" => op.kind = "enroll"
         /\ op.kind = "delete" => \A s, t \in op.prints : s = t
<1>1. at # "none" /\ sent = Awaited(at) /\ buffer_in = NoReply /\ TypeInv
  BY DEF SyncInv, TypeInv, OneMachine, Placed
<1>2. op \in Ops /\ op # NoOp /\ outcome = "none" /\ op \in Requested
      /\ at \in StatesOf(op.kind)
      /\ (at \in EnrollStates => op.kind = "enroll")
  BY <1>1, Running
<1>3. sent = "commit" => at \in EnrollStates
  BY <1>1 DEF Awaited, EnrollStates
<1> QED
  BY <1>1, <1>2, <1>3, MocAssumption

\* What the driver knows stays true unless the sensor stores a template.
LEMMA HeldKept ==
  ASSUME SyncInv, inStep, UNCHANGED mocVars,
         op # NoOp /\ op.kind = "delete" => store' \subseteq store
  PROVE  Held'
<1>1. Held
  BY DEF SyncInv
<1>2. ASSUME op # NoOp, op.kind = "delete", op.prints \cap store = {}
      PROVE  op.prints \cap store' = {}
  BY <1>2
<1>3. UNCHANGED <<op, at, buffer_in, enrolled_num, print_index, match, outcome, touched>>
  BY DEF mocVars
<1>4. buffer_in' # NoReply => buffer_in'.cmd = Awaited(at') /\ Good(buffer_in)'
  BY <1>1, <1>2, <1>3 DEF Held, Good
<1>5. outcome' = "ok" /\ op' # NoOp /\ op'.kind = "delete" => op'.prints \cap store' = {}
  BY <1>1, <1>2, <1>3 DEF Held
<1> QED
  BY <1>1, <1>3, <1>4, <1>5 DEF Held

LEMMA FewTemplates ==
  ASSUME SensorTypeOK
  PROVE  Cardinality(store) <= MaxPrints
<1>1. MaxPrints - 1 \in Int /\ 0 \in Int /\ ~(0 > MaxPrints - 1)
  BY SensorAssumption
<1>2. IsFiniteSet(Slots) /\ Cardinality(Slots) = MaxPrints
  BY <1>1, FS_Interval, SensorAssumption DEF Slots
<1> QED
  BY <1>2, FS_Subset DEF SensorTypeOK

LEMMA SensorInStep ==
  ASSUME SyncInv, inStep, SensorOwn, UNCHANGED mocVars, TypeInv'
  PROVE  SyncInv'
<1> SUFFICES Flight' /\ Held'
  BY DEF SyncInv
<1>0. SensorTypeOK /\ sent' = sent /\ op' = op /\ touched' = touched
  BY DEF SyncInv, TypeInv, MocTypeOK, mocVars
<1>1. CASE HandleQuery
  <2>1. PICK r \in QueryReplies(Head(inbox)) : Emit(r)
    BY <1>1 DEF HandleQuery
  <2>2. /\ inbox # <<>> /\ Head(inbox).cmd \in Queries /\ Head(inbox).cmd # "wipe_sensor"
        /\ inbox' = Tail(inbox) /\ UNCHANGED <<store, waiting>>
    BY <1>1 DEF HandleQuery, Queries
  <2>3. /\ Head(inbox) \in Requests /\ Asked(Head(inbox)) /\ Drained /\ waiting' = NoReq
        /\ inbox' = <<>> /\ sent # "none"
    BY <2>2, HeadIsAsked
  <2>4. r \in Replies /\ r.cmd = Head(inbox).cmd /\ r.cmd = sent
    BY <1>0, <2>1, <2>2, <2>3, QueryRepliesTyped DEF Asked
  <2>5. Good(r)'
    <3>1. r.cmd = "get_enrolled_count" => r.b1 <= MaxPrints
      <4>1. r.cmd = "get_enrolled_count" => r.b1 \in {0, Cardinality(store)}
        BY <2>1, <2>4 DEF QueryReplies, Stubs, Reply
      <4> QED
        BY <1>0, <4>1, FewTemplates, SensorAssumption
    <3> QED
      BY <2>2, <2>4, <3>1 DEF Good, Queries
  <2> QED
    BY <1>0, <2>1, <2>2, <2>3, <2>4, <2>5, EmitReplies, HeldKept
<1>2. CASE HandleCommit
  <2>1. /\ inbox # <<>> /\ Head(inbox).cmd = "commit" /\ inbox' = Tail(inbox)
        /\ waiting' = waiting
    BY <1>2 DEF HandleCommit
  <2>2. /\ Asked(Head(inbox)) /\ Drained /\ waiting' = NoReq /\ inbox' = <<>>
        /\ sent # "none"
    BY <2>1, HeadIsAsked
  <2>3. PICK r \in Replies : Emit(r) /\ r.cmd = "commit" /\ r.cmd = sent
    BY <1>0, <1>2, <2>1, <2>2, AnswerEmitted DEF Asked
  <2>4. op.kind # "delete"
    BY <2>2, <2>3, Waiting
  <2>5. Good(r)'
    BY <2>3 DEF Good
  <2> QED
    BY <1>0, <2>2, <2>3, <2>4, <2>5, EmitReplies, HeldKept
<1>3. CASE HandleDelete
  <2> DEFINE s == SlotNamed(Head(inbox).arg)
  <2>1. /\ inbox # <<>> /\ Head(inbox).cmd = "delete" /\ inbox' = Tail(inbox)
        /\ waiting' = waiting /\ store' \subseteq store
    BY <1>3 DEF HandleDelete
  <2>2. /\ Asked(Head(inbox)) /\ Drained /\ waiting' = NoReq /\ inbox' = <<>>
        /\ sent # "none" /\ Head(inbox) \in Requests
    BY <2>1, HeadIsAsked
  <2>3. PICK r \in DeleteReplies(Head(inbox)) :
          Emit(r) /\ (r.len >= 2 /\ r.b1 = 0 => s \notin store')
    <3>1. CASE \E r \in Stubs(Head(inbox)) \cup {Reply(Head(inbox), 2, 0, NoSlot)} :
                 store' = store \ {s} /\ Emit(r)
      BY <3>1 DEF DeleteReplies
    <3>2. CASE Emit(Reply(Head(inbox), 2, 255, NoSlot))
      <4>1. Reply(Head(inbox), 2, 255, NoSlot).b1 = 255
        BY DEF Reply
      <4> QED
        BY <3>2, <4>1 DEF DeleteReplies
    <3> QED
      BY <1>3, <3>1, <3>2 DEF HandleDelete
  <2>4. r \in Replies /\ r.cmd = "delete" /\ r.cmd = sent
    BY <2>1, <2>2, <2>3, DeleteRepliesTyped DEF Asked
  <2>5. Good(r)'
    <3>1. ASSUME r.len >= 2, r.b1 = 0, op # NoOp, op.kind = "delete"
          PROVE  op.prints \cap store' = {}
      <4>1. s \in op.prints /\ s \notin store'
        BY <2>1, <2>2, <2>3, <3>1 DEF Asked
      <4>2. \A t \in op.prints : t = s
        BY <2>2, <3>1, <4>1, Waiting
      <4> HIDE DEF s
      <4> QED
        BY <4>1, <4>2
    <3> QED
      BY <1>0, <2>4, <3>1 DEF Good
  <2> QED
    BY <1>0, <2>1, <2>2, <2>3, <2>4, <2>5, EmitReplies, HeldKept
<1>4. CASE HandleWipe
  <2>1. /\ inbox # <<>> /\ Head(inbox).cmd = "wipe_sensor" /\ inbox' = Tail(inbox)
        /\ UNCHANGED <<waiting, fifo>> /\ store' = {}
    BY <1>4 DEF HandleWipe
  <2>2. /\ Len(inbox) \in Nat /\ Len(inbox) >= 1 /\ Head(inbox) = inbox[1]
        /\ Len(inbox') = Len(inbox) - 1
        /\ \A i \in 1..Len(inbox') : inbox'[i] = inbox[i + 1] /\ i + 1 \in 1..Len(inbox)
    BY <1>0, <2>1, HeadTyped
  <2>3. Held'
    BY <2>1, HeldKept
  <2>4. CASE sent # "none"
    <3>1. Queued
      BY <2>1, <2>4 DEF SyncInv, Flight, AtFinger, Replied
    <3>2. Len(inbox) # 1
      <4>1. sent # "wipe_sensor"
        BY <2>4 DEF SyncInv, TypeInv, MocTypeOK
      <4> QED
        BY <2>1, <2>2, <3>1, <4>1 DEF Queued, Asked
    <3>3. Len(inbox') >= 1 /\ inbox' # <<>> /\ inbox'[Len(inbox')] = inbox[Len(inbox)]
      <4>1. Len(inbox') >= 1 /\ Len(inbox') \in 1..Len(inbox')
        BY <2>2, <3>2
      <4>2. Len(inbox') + 1 = Len(inbox)
        BY <2>2
      <4> QED
        BY <2>2, <4>1, <4>2, EmptySeq
    <3>4. \A i \in 1..(Len(inbox') - 1) : inbox'[i].cmd = "wipe_sensor"
      <4> TAKE i \in 1..(Len(inbox') - 1)
      <4>1. i \in 1..Len(inbox') /\ i + 1 \in 1..(Len(inbox) - 1)
        BY <2>2
      <4> QED
        BY <2>2, <3>1, <4>1 DEF Queued
    <3>5. Queued'
      BY <1>0, <2>1, <3>1, <3>3, <3>4 DEF Queued, Asked, Drained
    <3> QED
      BY <1>0, <2>3, <2>4, <3>5 DEF Flight
  <2>5. CASE sent = "none"
    <3>1. Idle
      BY <2>5, NothingPending
    <3>2. \A i \in 1..Len(inbox') : inbox'[i].cmd = "wipe_sensor"
      BY <2>2, <3>1 DEF Idle
    <3>3. Idle'
      BY <2>1, <3>1, <3>2 DEF Idle, Drained
    <3> QED
      BY <1>0, <2>3, <2>5, <3>3 DEF Flight
  <2> QED
    BY <2>4, <2>5
<1>5. CASE BeginWait
  <2>1. /\ inbox # <<>> /\ Head(inbox).cmd \in {"identify", "enroll"}
        /\ waiting' = Head(inbox) /\ inbox' = Tail(inbox) /\ UNCHANGED <<store, fifo>>
    BY <1>0, <1>5, HeadTyped, CmdTable DEF BeginWait
  <2>2. /\ Head(inbox) \in Requests /\ Asked(Head(inbox)) /\ Drained /\ inbox' = <<>>
        /\ sent # "none"
    BY <2>1, HeadIsAsked
  <2>3. AtFinger'
    BY <1>0, <2>1, <2>2, NoReqAssumption DEF AtFinger, Asked, Drained
  <2> QED
    BY <1>0, <2>1, <2>2, <2>3, HeldKept DEF Flight
<1> QED
  BY <1>1, <1>2, <1>3, <1>4, <1>5 DEF SensorOwn

LEMMA TouchInStep ==
  ASSUME SyncInv, inStep, Touch, TypeInv'
  PROVE  SyncInv'
<1>0. /\ SensorTypeOK /\ waiting # NoReq /\ waiting \in Requests
      /\ UNCHANGED <<store, inbox, op, at, sent, buffer_in, enrolled_num, print_index,
                     match, outcome, abandoned>>
      /\ waiting' = NoReq
  BY DEF Touch, TouchMatch, TouchOther, SyncInv, TypeInv, MocTypeOK, SensorTypeOK
<1>1. sent # "none"
  BY <1>0, NothingPending DEF Idle
<1>2. waiting.cmd = sent /\ sent \in {"identify", "enroll"} /\ Drained /\ inbox' = <<>>
  BY <1>0, <1>1 DEF SyncInv, Flight, Queued, AtFinger, Replied
<1>3. /\ buffer_in = NoReply /\ outcome = "none" /\ at # "none"
      /\ at \notin {"ENROLL_ATTEMPT_DELETE", "IDENTIFY_CHECK_FINGER_INFO"}
  BY <1>1, <1>2, Waiting DEF Awaited
<1>4. Held'
  BY <1>0, <1>3, NoSuccessYet DEF Held, SyncInv
<1> SUFFICES Flight'
  BY <1>4 DEF SyncInv
<1>5. ASSUME NEW b \in Byte, Emit(Reply(waiting, 2, b, NoSlot)),
             sent = "identify" /\ Matched(b) => touched' = b
      PROVE  Flight'
  <2>1. PICK r \in Replies : /\ Emit(r) /\ r.cmd = sent /\ r.b1 = b
    BY <1>0, <1>2, <1>5, StatusReplyTyped DEF Reply
  <2>2. Good(r)'
    BY <1>2, <1>5, <2>1 DEF Good
  <2> QED
    BY <1>0, <1>1, <1>2, <2>1, <2>2, EmitReplies
<1>6. CASE TouchMatch /\ touched' = cur'
  <2>1. PICK s \in store : Emit(Reply(waiting, 2, s, NoSlot)) /\ cur' = s
    BY <1>6 DEF TouchMatch
  <2>2. s \in Byte /\ touched' = s
    BY <1>0, <1>6, <2>1, SlotsAreBytes DEF SensorTypeOK
  <2> QED
    BY <1>5, <2>1, <2>2
<1>7. CASE TouchOther
  <2>1. PICK b \in (IF sent = "identify" THEN {253} ELSE {0}) \cup {65, 255} :
          Emit(Reply(waiting, 2, b, NoSlot))
    BY <1>2, <1>7 DEF TouchOther
  <2>2. b \in Byte /\ (sent = "identify" => b \notin 0..15)
    BY <2>1 DEF Byte
  <2> QED
    BY <1>5, <2>1, <2>2, StatusFacts
<1> QED
  BY <1>6, <1>7 DEF Touch

LEMMA ReceiveInStep ==
  ASSUME SyncInv, inStep, Receive, TypeInv'
  PROVE  SyncInv'
<1> DEFINE e == Cmd[sent].ep_in
<1>1. /\ sent # "none" /\ fifo[e] # <<>> /\ fifo' = [fifo EXCEPT ![e] = Tail(@)]
      /\ sent' = "none" /\ UNCHANGED <<store, waiting, inbox, op, enrolled_num, print_index,
                                       match, touched, abandoned>>
  BY DEF Receive
<1>2. sent \in CmdNames /\ fifo \in [Endpoints -> Seq(Replies)] /\ e \in Endpoints
  BY <1>1, CmdTable DEF SyncInv, TypeInv, MocTypeOK, SensorTypeOK
<1>3. /\ sent = Awaited(at) /\ at # "none" /\ buffer_in = NoReply /\ outcome = "none"
      /\ sent = "finger_info" \/ at \notin {"ENROLL_ATTEMPT_DELETE", "IDENTIFY_CHECK_FINGER_INFO"}
  BY <1>1, Waiting DEF Awaited
<1>4. Replied
  BY <1>1, <1>2 DEF SyncInv, Flight, Queued, AtFinger, Drained
<1>5. Tail(fifo[e]) = <<>>
  <2>1. fifo[e] \in Seq(Replies) /\ Len(fifo[e]) = 1
    BY <1>2, <1>4 DEF Replied
  <2>2. Tail(fifo[e]) \in Seq(Replies) /\ Len(Tail(fifo[e])) = 0
    BY <1>1, <2>1, HeadTailProperties
  <2> QED
    BY <2>2, EmptySeq
<1>6. Drained'
  BY <1>1, <1>2, <1>4, <1>5 DEF Replied, Drained
<1>7. Idle'
  <2>1. inbox' = <<>> /\ waiting' = NoReq
    BY <1>1, <1>4 DEF Replied
  <2> QED
    BY <1>6, <2>1 DEF Idle
<1>8. Held'
  <2>1. match.result # "success" /\ Held
    BY <1>3, NoSuccessYet DEF SyncInv
  <2>2. CASE buffer_in' = Head(fifo[e]) /\ UNCHANGED <<at, outcome>>
    <3>1. Good(buffer_in)'
      BY <1>1, <1>4, <2>2 DEF Replied, Good
    <3> QED
      BY <1>1, <1>3, <1>4, <2>1, <2>2, <3>1 DEF Held, Replied
  <2>3. CASE buffer_in' = NoReply /\ at' = "none" /\ outcome' = "error"
    BY <1>1, <2>1, <2>3 DEF Held
  <2> QED
    BY <2>2, <2>3 DEF Receive
<1> QED
  BY <1>1, <1>7, <1>8 DEF SyncInv, Flight

\* Giving up a reply ends the step; nothing but power brings it back.
LEMMA HandlersGiveUpNothing == Handlers => abandoned' = abandoned
<1> USE DEF Transceive, Jump, End
<1>1. CASE \/ ShortReply \/ QueryCount \/ RequeryCount \/ EnrollCheckNum
           \/ EarlyReenrollCheck \/ GetEnrolledFingerInfo \/ AttemptDelete
           \/ CheckDeleted \/ EnrollEnroll \/ CheckEnrolled
  BY <1>1 DEF ShortReply, QueryCount, RequeryCount, EnrollCheckNum, EarlyReenrollCheck,
     GetEnrolledFingerInfo, AttemptDelete, CheckDeleted, Deleted, EnrollEnroll,
     CheckEnrolled
<1>2. CASE \/ LateReenrollCheck \/ EnrollCommit \/ CheckCommitted \/ IdentifyCheckNum
           \/ IdentifyIdentify \/ GetFingerInfo \/ CheckFingerInfo
           \/ DeleteSend \/ DeleteCheck \/ ClearWipe \/ ClearCheck
  BY <1>2 DEF LateReenrollCheck, EnrollCommit, CheckCommitted, IdentifyCheckNum,
     IdentifyIdentify, GetFingerInfo, CheckFingerInfo, DeleteSend, DeleteCheck,
     ClearWipe, ClearCheck
<1> QED
  BY <1>1, <1>2 DEF Handlers

LEMMA OutOfStepStays ==
  ASSUME TypeInv, [Next]_vars, ~Replug, ~inStep
  PROVE  ~inStep'
<1>0. abandoned \in Nat /\ abandoned # 0
  BY MocAssumption DEF TypeInv, MocTypeOK, inStep
<1>1. CASE TransferFails \/ Crash
  <2>1. abandoned' \in {abandoned, abandoned + 1}
    BY <1>1 DEF TransferFails, Crash, GiveUp
  <2> QED
    BY <1>0, <2>1 DEF inStep
<1>2. CASE Handlers
  BY <1>0, <1>2, HandlersGiveUpNothing DEF inStep
<1>3. CASE \E o \in Requested : Begin(o)
  BY <1>0, <1>3 DEF Begin, inStep
<1>4. CASE Deliver \/ Receive \/ (SensorOwn /\ UNCHANGED mocVars) \/ Touch \/ UNCHANGED vars
  BY <1>0, <1>4 DEF Deliver, Receive, Touch, mocVars, vars, inStep
<1> QED
  BY <1>1, <1>2, <1>3, <1>4 DEF Next

LEMMA SyncStep == SyncInv /\ ReportInv /\ [Next]_vars => SyncInv'
<1> SUFFICES ASSUME SyncInv, ReportInv, [Next]_vars PROVE SyncInv'
  OBVIOUS
<1>0. TypeInv /\ TypeInv'
  BY TypeStep DEF SyncInv
<1>1. CASE Replug
  <2>1. /\ waiting' = NoReq /\ inbox' = <<>> /\ Drained' /\ sent' = "none"
    BY <1>1 DEF Replug, PowerCycle, Reset, Drained
  <2>2. Flight'
    BY <2>1 DEF Flight, Idle
  <2>3. Held'
    BY <1>1, SensorAssumption DEF Replug, Reset, NoMatch, Held
  <2> QED
    BY <1>0, <2>2, <2>3 DEF SyncInv
<1>2. CASE ~Replug /\ ~inStep
  BY <1>0, <1>2, OutOfStepStays DEF SyncInv
<1>3. CASE ~Replug /\ inStep
  <2>1. ASSUME NEW o \in Requested, Begin(o) PROVE SyncInv'
    <3>1. at = "none" /\ sent = "none" /\ buffer_in = NoReply /\ match = NoMatch
      BY <1>0, <2>1 DEF Begin, TypeInv, OneMachine, ReportInv
    <3>2. Flight'
      BY <1>3, <2>1, <3>1, IdleStays DEF Begin
    <3>3. at' \notin {"ENROLL_ATTEMPT_DELETE", "IDENTIFY_CHECK_FINGER_INFO"}
      BY <2>1, MocAssumption DEF Begin, FirstState, Ops, Kinds
    <3>4. match'.result # "success" /\ outcome' # "ok" /\ buffer_in' = NoReply
          /\ enrolled_num' <= MaxPrints
      BY <1>3, <2>1, <3>1, NothingPending DEF Begin, NoMatch, Held
    <3>5. Held'
      BY <3>3, <3>4 DEF Held
    <3> QED
      BY <1>0, <3>2, <3>5 DEF SyncInv
  <2>2. CASE Deliver
    <3>1. at = "none" /\ sent = "none" /\ buffer_in = NoReply
      BY <1>0, <2>2 DEF Deliver, TypeInv, OneMachine
    <3>2. Flight'
      BY <1>3, <2>2, <3>1, IdleStays DEF Deliver
    <3>3. Held'
      BY <1>3, <2>2, <3>1, NothingPending DEF Deliver, NoMatch, Held
    <3> QED
      BY <1>0, <3>2, <3>3 DEF SyncInv
  <2>3. CASE (TransferFails \/ Crash) /\ sent # "none"
    <3>1. abandoned \in Nat /\ abandoned' = abandoned + 1
      BY <1>0, <2>3, MocAssumption DEF TransferFails, Crash, GiveUp, TypeInv, MocTypeOK
    <3> QED
      BY <1>0, <3>1 DEF SyncInv, inStep
  <2>4. CASE TransferFails /\ sent = "none"
    <3>1. at # "none" /\ Complete("error") /\ UNCHANGED <<enrolled_num, match>>
      BY <2>4 DEF TransferFails
    <3> QED
      BY <1>0, <1>3, <2>4, <3>1, NothingPending, NoSuccessYet, CompleteInStep DEF Held
  <2>5. CASE Crash /\ sent = "none"
    <3>1. Flight'
      BY <1>3, <2>5, IdleStays DEF Crash, Reset
    <3>2. Held'
      BY <2>5, SensorAssumption DEF Crash, Reset, NoMatch, Held
    <3> QED
      BY <1>0, <3>1, <3>2 DEF SyncInv
  <2>6. CASE UNCHANGED vars
    BY <1>0, <2>6 DEF vars, sensorVars, mocVars, SyncInv, inStep, Flight, Held, Idle,
       Queued, AtFinger, Replied, Good, Asked, Drained
  <2> QED
    BY <1>0, <1>3, <2>1, <2>2, <2>3, <2>4, <2>5, <2>6, HandlersInStep, ReceiveInStep,
       SensorInStep, TouchInStep DEF Next
<1> QED
  BY <1>1, <1>2, <1>3

LEMMA SyncInvariant == Spec => []SyncInv
<1>1. Init => ReportInv
  BY DEF Init, ReportInv, ReportOwned, NoMatch
<1>2. Init => SyncInv
  BY TypeInit, SensorAssumption DEF Init, SensorInit, SyncInv, Flight, Idle, Drained, Held,
     NoMatch
<1> QED
  BY <1>1, <1>2, ReportStep, SyncStep, TypeInvariant, PTL DEF Spec

\* In step, the count of templates stays among the sensor's slots: no delete,
\* reported or refused, ever wraps it.
THEOREM CountsInRange == Spec => []CountNeverWraps
<1>1. SyncInv => CountNeverWraps
  BY DEF SyncInv, Held, CountNeverWraps
<1> QED
  BY <1>1, SyncInvariant, PTL

\* In step, a delete that reports success has left its print on no slot.
THEOREM DeletesTruthful == Spec => []DeleteTruthful
<1>1. SyncInv => DeleteTruthful
  BY DEF SyncInv, Held, DeleteTruthful
<1> QED
  BY <1>1, SyncInvariant, PTL

\* In step, a finger recognised is one the sensor matched to a print asked for.
THEOREM VerifiesTruthful == Spec => []VerifyTruthful
<1>1. SyncInv => VerifyTruthful
  BY DEF SyncInv, Held, VerifyTruthful
<1> QED
  BY <1>1, SyncInvariant, PTL

(***************************************************************************)
(* The refinement of TemplateStore                                         *)
(***************************************************************************)
Promised == Promise!Next \/ UNCHANGED <<store, QueuedWrites>>

LEMMA SendPromised ==
  ASSUME SyncInv, NEW c \in CmdNames, NEW arg \in Byte, NEW next,
         Transceive(c, arg, next),
         c \in WriteCmds => WriteOf([cmd |-> c, arg |-> arg]) \in CalledFor
  PROVE  Promised
<1> DEFINE q == [cmd |-> c, arg |-> arg, auth |-> FALSE]
           w == WriteOf(q)
<1>1. inbox' = Append(inbox, q) /\ store' = store /\ q \in Requests
  BY DEF Transceive, Requests
<1>2. QueuedWrites' = IF c \in WriteCmds THEN QueuedWrites \cup {w} ELSE QueuedWrites
  BY <1>1, WritesAsked DEF SyncInv, TypeInv, MocTypeOK
<1>3. CASE c \in WriteCmds
  <2>1. w \in CalledFor /\ w \in Writes
    BY <1>3, WriteTyped DEF WriteOf
  <2> HIDE DEF w
  <2> QED
    BY <1>1, <1>2, <1>3, <2>1 DEF Promised, Promise!Next, Promise!Ask
<1>4. CASE c \notin WriteCmds
  BY <1>1, <1>2, <1>4 DEF Promised
<1> QED
  BY <1>3, <1>4

LEMMA LocalPromised == UNCHANGED <<store, inbox>> => Promised
BY DEF Promised, QueuedWrites

LEMMA HandlersPromised ==
  ASSUME SyncInv, Handlers
  PROVE  Promised
<1>0. TypeInv /\ 0 \in Byte /\ 0..15 \subseteq Byte
  BY DEF SyncInv, Byte
<1>1. CASE QueryCount \/ EarlyReenrollCheck \/ IdentifyIdentify \/ EnrollEnroll
           \/ LateReenrollCheck
  <2>1. PICK c \in {"get_enrolled_count", "identify", "enroll", "check_enroll_collision"},
             next \in States : Transceive(c, 0, next)
    BY <1>1 DEF QueryCount, CountCheck, EarlyReenrollCheck, IdentifyIdentify, EnrollEnroll,
       LateReenrollCheck, States, EnrollStates, IdentifyStates, ClearStates
  <2> QED
    BY <1>0, <2>1, CmdsAre, SendPromised DEF WriteCmds
<1>2. CASE GetEnrolledFingerInfo \/ GetFingerInfo
  <2>1. CASE \E next : Matched(Status) /\ Transceive("finger_info", Status, next)
    <3>1. Status \in Byte
      BY <1>0, <1>2, AnsweredFacts DEF GetEnrolledFingerInfo, GetFingerInfo
    <3> QED
      BY <2>1, <3>1, CmdsAre, SendPromised DEF WriteCmds
  <2>2. CASE End("error") \/ \E next : Jump(next)
    BY <2>2, LocalPromised DEF End, Complete, Jump, sensorVars
  <2> QED
    BY <1>2, <2>1, <2>2 DEF GetEnrolledFingerInfo, GetFingerInfo
<1>3. CASE AttemptDelete
  <2>1. at = "ENROLL_ATTEMPT_DELETE" /\ op # NoOp /\ op.kind = "enroll"
        /\ print_index \in 0..15
    BY <1>0, <1>3, Running, FieldsNow DEF AttemptDelete, Runs, EnrollStates, Fields
  <2>2. /\ SlotByte(print_index) \in Byte
        /\ WriteOf([cmd |-> "delete", arg |-> SlotByte(print_index)])
             = [cmd |-> "delete", slot |-> print_index]
    BY <2>1, SlotByteNames DEF WriteOf
  <2>3. print_index \in IF inStep THEN {touched} \ {NoSlot} ELSE 0..15
    BY <2>1, SensorAssumption DEF SyncInv, Held
  <2>4. [cmd |-> "delete", slot |-> print_index] \in CalledFor
    BY <2>1, <2>3 DEF CalledFor
  <2>5. CASE Transceive("delete", SlotByte(print_index), "ENROLL_CHECK_DELETED")
    BY <2>2, <2>4, <2>5, CmdsAre, SendPromised
  <2>6. CASE Jump("ENROLL_CHECK_DELETED")
    BY <2>6, LocalPromised DEF Jump, sensorVars
  <2> QED
    BY <1>3, <2>5, <2>6 DEF AttemptDelete
<1>4. CASE EnrollCommit
  <2>1. op # NoOp /\ op.kind = "enroll"
    BY <1>0, <1>4, Running DEF EnrollCommit, Answered, Runs, EnrollStates
  <2>2. WriteOf([cmd |-> "commit", arg |-> 0]) \in CalledFor
    BY <2>1 DEF WriteOf, CalledFor
  <2>3. CASE Transceive("commit", 0, "ENROLL_CHECK_COMMITTED")
    BY <1>0, <2>2, <2>3, CmdsAre, SendPromised
  <2>4. CASE End("error")
    BY <2>4, LocalPromised DEF End, Complete, sensorVars
  <2> QED
    BY <1>4, <2>3, <2>4 DEF EnrollCommit
<1>5. CASE DeleteSend
  <2>1. op # NoOp /\ op.kind = "delete" /\ op.prints \subseteq 0..15
    BY <1>0, <1>5, Running, SlotsSmall DEF DeleteSend, Runs, DeleteStates, Ops
  <2>2. ASSUME NEW s \in op.prints, Transceive("delete", SlotByte(s), "DELETE_CHECK")
        PROVE  Promised
    <3>1. /\ SlotByte(s) \in Byte
          /\ WriteOf([cmd |-> "delete", arg |-> SlotByte(s)]) = [cmd |-> "delete", slot |-> s]
      BY <2>1, SlotByteNames DEF WriteOf
    <3>2. [cmd |-> "delete", slot |-> s] \in CalledFor
      BY <2>1 DEF CalledFor
    <3> QED
      BY <2>2, <3>1, <3>2, CmdsAre, SendPromised
  <2>3. CASE Jump("DELETE_CHECK")
    BY <2>3, LocalPromised DEF Jump, sensorVars
  <2> QED
    BY <1>5, <2>2, <2>3 DEF DeleteSend
<1>6. CASE ClearWipe
  <2>1. op # NoOp /\ op.kind = "clear"
    BY <1>0, <1>6, Running DEF ClearWipe, Runs, ClearStates
  <2>2. WriteOf([cmd |-> "wipe_sensor", arg |-> 0]) \in CalledFor
    BY <2>1 DEF WriteOf, CalledFor
  <2> QED
    BY <1>0, <1>6, <2>2, CmdsAre, SendPromised DEF ClearWipe
<1>7. CASE \/ ShortReply \/ RequeryCount \/ EnrollCheckNum \/ CheckDeleted \/ CheckEnrolled
           \/ CheckCommitted \/ IdentifyCheckNum \/ CheckFingerInfo \/ DeleteCheck \/ ClearCheck
  BY <1>7, LocalPromised DEF ShortReply, RequeryCount, EnrollCheckNum, CheckDeleted, Deleted,
     CheckEnrolled, CheckCommitted, IdentifyCheckNum, CheckFingerInfo, DeleteCheck, ClearCheck,
     Jump, End, Complete, sensorVars
<1> QED
  BY <1>1, <1>2, <1>3, <1>4, <1>5, <1>6, <1>7 DEF Handlers

LEMMA StepPromised ==
  ASSUME SyncInv, [Next]_vars
  PROVE  Promised
<1>1. CASE (SensorOwn /\ UNCHANGED mocVars) \/ Touch
  <2>1. UNCHANGED <<store, QueuedWrites>> \/ \E w \in Writes : Store!Carry(w)
    BY <1>1, SensorCarries DEF SensorOwn, SensorNext, Touch, SyncInv, TypeInv, MocTypeOK
  <2> QED
    BY <2>1 DEF Store!Carry, Promise!Carry, Store!Effects, Promise!Effects, Promise!Next,
       Promised
<1>2. CASE Replug
  BY <1>2, PowerLoses DEF Replug, Store!Lose, Promise!Lose, Promise!Next, Promised
<1>3. CASE (\E o \in Requested : Begin(o)) \/ Deliver \/ Receive \/ TransferFails \/ Crash
           \/ UNCHANGED vars
  BY <1>3, LocalPromised DEF Begin, Deliver, Receive, TransferFails, Complete, Crash, vars,
     sensorVars
<1> QED
  BY <1>1, <1>2, <1>3, HandlersPromised DEF Next

\* The driver keeps the promise of TemplateStore for any operations: no failed
\* delete, rejected finger or lost reply makes it touch another template.
THEOREM StoreKept == Spec => ImplementsStore
<1>1. Init => Promise!Init
  BY DEF Init, SensorInit, Promise!Init, QueuedWrites
<1>2. SyncInv /\ [Next]_vars => [Promise!Next]_<<store, QueuedWrites>>
  BY StepPromised DEF Promised
<1> QED
  BY <1>1, <1>2, SyncInvariant, PTL DEF Spec, ImplementsStore, Promise!Spec
=============================================================================

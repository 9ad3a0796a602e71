---------------------------- MODULE SensorProofs ----------------------------
(***************************************************************************)
(* What both drivers' proofs need of the sensor: the command table, and    *)
(* that its steps keep its types and change the store as TemplateStore     *)
(* lets a queued write change it.                                          *)
(***************************************************************************)
EXTENDS Sensor, SequenceTheorems, FiniteSetTheorems, TLAPS

(***************************************************************************)
(* The command table                                                       *)
(***************************************************************************)
LEMMA CmdTable ==
  ASSUME NEW c \in CmdNames
  PROVE  /\ Cmd[c].ep_in \in Endpoints
         /\ Cmd[c].in_len \in Nat
         /\ Cmd[c].in_len = 0 <=> c = "wipe_sensor"
         /\ Cmd[c].is_cancellable => c \in {"identify", "enroll"}
         /\ Persistent(c) <=> c \in {"enroll", "commit", "delete", "wipe_sensor"}
<1> USE DEF Cmd, Row, GET_FW_VER, GET_ENROLLED_COUNT, FINGER_INFO,
            CHECK_ENROLL_COLLISION, ABORT, IDENTIFY, ENROLL, COMMIT, DELETE,
            WIPE_SENSOR
<1>1. Cmd[c].ep_in \in Endpoints
  BY DEF CmdNames, Endpoints
<1>2. Cmd[c].in_len \in Nat /\ (Cmd[c].in_len = 0 <=> c = "wipe_sensor")
  BY DEF CmdNames
<1>3. Cmd[c].is_cancellable => c \in {"identify", "enroll"}
  BY DEF CmdNames
<1>4. Persistent(c) <=> c \in {"enroll", "commit", "delete", "wipe_sensor"}
  BY DEF CmdNames, Persistent
<1> QED
  BY <1>1, <1>2, <1>3, <1>4

(***************************************************************************)
(* Types                                                                   *)
(***************************************************************************)
LEMMA ReplyTyped ==
  ASSUME NEW q \in Requests, NEW len \in 0..64, NEW b1 \in Byte,
         NEW uid \in Slots \cup {NoSlot}
  PROVE  /\ Reply(q, len, b1, uid) \in Replies
         /\ Reply(q, len, b1, uid).cmd = q.cmd
         /\ Reply(q, len, b1, uid).arg = q.arg
BY DEF Reply, Requests, Replies

LEMMA StatusReplyTyped ==
  ASSUME NEW q \in Requests, NEW b \in Byte
  PROVE  /\ Reply(q, 2, b, NoSlot) \in Replies
         /\ Reply(q, 2, b, NoSlot).cmd = q.cmd
         /\ Reply(q, 2, b, NoSlot).arg = q.arg
BY DEF Reply, Requests, Replies

LEMMA SlotsAreBytes == Slots \subseteq Byte /\ Slots \subseteq Nat
BY SensorAssumption DEF Slots, Byte

LEMMA CountIsByte ==
  ASSUME NEW S \in SUBSET Slots
  PROVE  Cardinality(S) \in Byte
<1>1. MaxPrints - 1 \in Int /\ 0 \in Int /\ ~(0 > MaxPrints - 1)
  BY SensorAssumption
<1>2. IsFiniteSet(Slots) /\ Cardinality(Slots) = MaxPrints
  BY <1>1, FS_Interval, SensorAssumption DEF Slots
<1>3. IsFiniteSet(S) /\ Cardinality(S) <= MaxPrints
  BY <1>2, FS_Subset
<1>4. Cardinality(S) \in Nat
  BY <1>3, FS_CardinalityType
<1> QED
  BY <1>3, <1>4, SensorAssumption DEF Byte

LEMMA RecordTyped ==
  ASSUME SensorTypeOK, NEW q \in Requests
  PROVE  RecordFor(q) \in Slots \cup {NoSlot}
BY DEF SensorTypeOK, RecordFor

LEMMA QueryRepliesTyped ==
  ASSUME SensorTypeOK, NEW q \in Requests, q.cmd \in Queries,
         NEW r \in QueryReplies(q)
  PROVE  r \in Replies /\ r.cmd = q.cmd /\ r.arg = q.arg
<1>1. 0 \in Byte /\ 131 \in Byte /\ 253 \in Byte /\ 255 \in Byte
        /\ {0, 1, 2, 3, 64} \subseteq 0..64 /\ 0..1 \subseteq 0..64
  BY DEF Byte
<1>2. CASE r \in Stubs(q)
  BY <1>1, <1>2, ReplyTyped DEF Stubs
<1>3. CASE r \notin Stubs(q)
  <2>1. CASE q.cmd = "get_fw_ver"
    BY <1>1, <1>3, <2>1, ReplyTyped DEF QueryReplies
  <2>2. CASE q.cmd = "get_enrolled_count"
    <3>1. r = Reply(q, 2, Cardinality(store), NoSlot)
      BY <1>3, <2>2 DEF QueryReplies
    <3>2. Cardinality(store) \in Byte
      BY CountIsByte DEF SensorTypeOK
    <3> QED
      BY <1>1, <3>1, <3>2, ReplyTyped
  <2>3. CASE q.cmd = "finger_info"
    <3>1. r = Reply(q, 2, 255, NoSlot) \/ r = Reply(q, 64, 0, RecordFor(q))
      BY <1>3, <2>3 DEF QueryReplies
    <3> QED
      BY <1>1, <3>1, ReplyTyped, RecordTyped
  <2>4. CASE q.cmd = "check_enroll_collision"
    <3>1. PICK b \in store \cup {0, 253, 255} : r = Reply(q, 3, b, NoSlot)
      BY <1>3, <2>4 DEF QueryReplies
    <3>2. b \in Byte
      BY <1>1, SlotsAreBytes DEF SensorTypeOK
    <3> QED
      BY <1>1, <3>1, <3>2, ReplyTyped
  <2> QED
    BY <2>1, <2>2, <2>3, <2>4 DEF Queries
<1> QED
  BY <1>2, <1>3

\* Every reply a delete may get.
DeleteReplies(q) ==
  Stubs(q) \cup {Reply(q, 2, 0, NoSlot), Reply(q, 2, 255, NoSlot)}

LEMMA DeleteRepliesTyped ==
  ASSUME NEW q \in Requests, NEW r \in DeleteReplies(q)
  PROVE  r \in Replies /\ r.cmd = q.cmd /\ r.arg = q.arg
<1>1. 0 \in Byte /\ 255 \in Byte /\ 2 \in 0..64 /\ 0..1 \subseteq 0..64
  BY DEF Byte
<1>2. CASE r \in Stubs(q)
  BY <1>1, <1>2, ReplyTyped DEF Stubs
<1> QED
  BY <1>1, <1>2, ReplyTyped DEF DeleteReplies

\* Taking the first request off a queue.
LEMMA HeadTyped ==
  ASSUME SensorTypeOK, inbox # <<>>
  PROVE  /\ Head(inbox) \in Requests /\ Head(inbox) = inbox[1]
         /\ Head(inbox).cmd \in CmdNames
         /\ Len(inbox) \in Nat /\ Len(inbox) >= 1
         /\ Tail(inbox) \in Seq(Requests)
         /\ Len(Tail(inbox)) = Len(inbox) - 1
         /\ Len(Tail(inbox)) <= OutDepth
         /\ \A i \in 1..Len(Tail(inbox)) : Tail(inbox)[i] = inbox[i + 1]
<1>1. inbox \in Seq(Requests) /\ Len(inbox) <= OutDepth
  BY DEF SensorTypeOK
<1>2. Len(inbox) \in Nat /\ Len(inbox) >= 1
  BY <1>1, EmptySeq, LenProperties
<1>3. /\ Head(inbox) \in Requests
      /\ Tail(inbox) \in Seq(Requests)
      /\ Len(Tail(inbox)) = Len(inbox) - 1
      /\ \A i \in 1..Len(Tail(inbox)) : Tail(inbox)[i] = inbox[i + 1]
  BY <1>1, HeadTailProperties
<1>4. Head(inbox) = inbox[1]
  BY <1>1
<1>5. Len(Tail(inbox)) <= OutDepth
  BY <1>1, <1>2, <1>3, SensorAssumption
<1> QED
  BY <1>2, <1>3, <1>4, <1>5 DEF Requests

LEMMA EmitTyped ==
  ASSUME SensorTypeOK, NEW r \in Replies, Emit(r)
  PROVE  /\ fifo' \in [Endpoints -> Seq(Replies)]
         /\ \A ep \in Endpoints : Len(fifo'[ep]) <= InDepth
<1> DEFINE e == Cmd[r.cmd].ep_in
<1>1. e \in Endpoints /\ fifo \in [Endpoints -> Seq(Replies)]
  BY CmdTable DEF Replies, SensorTypeOK
<1>2. fifo' = [fifo EXCEPT ![e] = Append(fifo[e], r)] /\ Len(fifo[e]) < InDepth
  BY <1>1 DEF Emit
<1>3. fifo[e] \in Seq(Replies) /\ Len(fifo[e]) \in Nat
  BY <1>1, LenProperties
<1>4. Append(fifo[e], r) \in Seq(Replies) /\ Len(Append(fifo[e], r)) = Len(fifo[e]) + 1
  BY <1>3, AppendProperties
<1>5. fifo' \in [Endpoints -> Seq(Replies)]
  BY <1>1, <1>2, <1>4
<1>6. ASSUME NEW ep \in Endpoints PROVE Len(fifo'[ep]) <= InDepth
  <2>1. CASE ep = e
    BY <1>1, <1>2, <1>3, <1>4, <2>1, SensorAssumption
  <2>2. CASE ep # e
    BY <1>1, <1>2, <2>2 DEF SensorTypeOK
  <2> QED
    BY <2>1, <2>2
<1> QED
  BY <1>5, <1>6

\* What every sensor step keeps.
LEMMA SensorTypes ==
  ASSUME SensorTypeOK, SensorNext
  PROVE  SensorTypeOK'
<1> USE DEF SensorTypeOK
<1>0. /\ 0 \in Byte /\ 65 \in Byte /\ 221 \in Byte /\ 253 \in Byte /\ 255 \in Byte
      /\ 2 \in 0..64 /\ Slots \subseteq Byte
  BY SlotsAreBytes DEF Byte
<1>1. CASE HandleQuery
  <2>1. PICK r \in QueryReplies(Head(inbox)) : Emit(r)
    BY <1>1 DEF HandleQuery
  <2>2. r \in Replies
    BY <1>1, HeadTyped, QueryRepliesTyped DEF HandleQuery
  <2> QED
    BY <1>1, <2>1, <2>2, HeadTyped, EmitTyped DEF HandleQuery
<1>2. CASE HandleAbort
  <2>1. Reply(Head(inbox), 2, 0, NoSlot) \in Replies
    BY <1>0, <1>2, HeadTyped, ReplyTyped DEF HandleAbort
  <2> QED
    BY <1>2, <2>1, HeadTyped, EmitTyped DEF HandleAbort
<1>3. CASE HandleCommit
  <2>1. /\ Reply(Head(inbox), 2, 0, NoSlot) \in Replies
        /\ Reply(Head(inbox), 2, 221, NoSlot) \in Replies
    BY <1>0, <1>3, HeadTyped, ReplyTyped DEF HandleCommit
  <2>2. /\ fifo' \in [Endpoints -> Seq(Replies)]
        /\ \A ep \in Endpoints : Len(fifo'[ep]) <= InDepth
    BY <1>3, <2>1, EmitTyped DEF HandleCommit
  <2>3. store' \subseteq Slots
    BY <1>3 DEF HandleCommit
  <2> QED
    BY <1>3, <2>2, <2>3, HeadTyped DEF HandleCommit
<1>4. CASE HandleDelete
  <2>1. PICK r \in DeleteReplies(Head(inbox)) : Emit(r)
    BY <1>4 DEF HandleDelete, DeleteReplies
  <2>2. r \in Replies
    BY <1>4, <2>1, HeadTyped, DeleteRepliesTyped DEF HandleDelete
  <2>3. /\ fifo' \in [Endpoints -> Seq(Replies)]
        /\ \A ep \in Endpoints : Len(fifo'[ep]) <= InDepth
    BY <2>1, <2>2, EmitTyped
  <2>4. store' \subseteq Slots
    BY <1>4 DEF HandleDelete
  <2> QED
    BY <1>4, <2>3, <2>4, HeadTyped DEF HandleDelete
<1>5. CASE HandleWipe
  BY <1>5, HeadTyped DEF HandleWipe
<1>6. CASE BeginWait
  BY <1>6, HeadTyped DEF BeginWait
<1>7. CASE TouchMatch
  <2>1. PICK s \in store : Emit(Reply(waiting, 2, s, NoSlot)) /\ cur' = s
    BY <1>7 DEF TouchMatch
  <2>2. Reply(waiting, 2, s, NoSlot) \in Replies
    BY <1>0, <1>7, ReplyTyped DEF TouchMatch
  <2> QED
    BY <1>7, <2>1, <2>2, EmitTyped DEF TouchMatch
<1>8. CASE TouchOther
  <2>1. PICK b \in {0, 65, 253, 255} : Emit(Reply(waiting, 2, b, NoSlot))
    BY <1>8 DEF TouchOther
  <2>2. b \in Byte /\ waiting \in Requests
    BY <1>0, <1>8 DEF TouchOther
  <2>3. Reply(waiting, 2, b, NoSlot) \in Replies
    BY <1>0, <2>2, ReplyTyped
  <2> QED
    BY <1>8, <2>1, <2>3, EmitTyped DEF TouchOther
<1> QED
  BY <1>1, <1>2, <1>3, <1>4, <1>5, <1>6, <1>7, <1>8 DEF SensorNext

\* A request answered at once, other than a wipe, gets a reply of its own.
LEMMA AnswerEmitted ==
  ASSUME SensorTypeOK, HandleAbort \/ HandleCommit \/ HandleDelete
  PROVE  \E r \in Replies : Emit(r) /\ r.cmd = Head(inbox).cmd /\ r.arg = Head(inbox).arg
<1>1. Head(inbox) \in Requests /\ 0 \in Byte /\ 221 \in Byte
  BY HeadTyped DEF HandleAbort, HandleCommit, HandleDelete, Byte
<1>2. CASE HandleDelete
  <2>1. PICK r \in DeleteReplies(Head(inbox)) : Emit(r)
    BY <1>2 DEF HandleDelete, DeleteReplies
  <2> QED
    BY <1>1, <2>1, DeleteRepliesTyped
<1>3. CASE HandleAbort \/ HandleCommit
  <2>1. PICK b \in {0, 221} : Emit(Reply(Head(inbox), 2, b, NoSlot))
    BY <1>3 DEF HandleAbort, HandleCommit
  <2>2. b \in Byte
    BY <1>1
  <2>3. /\ Reply(Head(inbox), 2, b, NoSlot) \in Replies
        /\ Reply(Head(inbox), 2, b, NoSlot).cmd = Head(inbox).cmd
        /\ Reply(Head(inbox), 2, b, NoSlot).arg = Head(inbox).arg
    BY <1>1, <2>2, StatusReplyTyped
  <2> HIDE DEF Reply
  <2> QED
    BY <2>1, <2>3
<1> QED
  BY <1>2, <1>3

(***************************************************************************)
(* The sensor's part of the promise TemplateStore makes                    *)
(***************************************************************************)
Store == INSTANCE TemplateStore
           WITH TemplateSlots <- Slots, allowed <- {}, asked <- QueuedWrites

LEMMA WriteTyped ==
  ASSUME NEW q, q.cmd \in WriteCmds, q.arg \in Byte
  PROVE  /\ WriteOf(q) \in Writes /\ WriteOf(q).cmd = q.cmd
         /\ q.cmd = "delete" => WriteOf(q).slot = SlotNamed(q.arg)
<1>1. SlotNamed(q.arg) \in 0..15
  BY DEF SlotNamed, Byte
<1> QED
  BY <1>1 DEF WriteOf, Writes

\* The writes queued behind the first request.
LEMMA WritesLeft ==
  ASSUME SensorTypeOK, inbox # <<>>, inbox' = Tail(inbox)
  PROVE  IF Head(inbox).cmd \in WriteCmds
         THEN /\ WriteOf(Head(inbox)) \in QueuedWrites
              /\ QueuedWrites' \in {QueuedWrites, QueuedWrites \ {WriteOf(Head(inbox))}}
         ELSE QueuedWrites' = QueuedWrites
<1> DEFINE W(q) == {WriteOf(q[i]) : i \in {j \in 1..Len(q) : q[j].cmd \in WriteCmds}}
           w == WriteOf(Head(inbox))
<1>1. /\ Len(inbox) \in Nat /\ Len(inbox) >= 1 /\ Head(inbox) = inbox[1]
      /\ Len(inbox') = Len(inbox) - 1
      /\ \A i \in 1..Len(inbox') : inbox'[i] = inbox[i + 1]
  BY HeadTyped
<1>2. QueuedWrites' \subseteq QueuedWrites
  <2>1. ASSUME NEW i \in 1..Len(inbox'), inbox'[i].cmd \in WriteCmds
        PROVE  WriteOf(inbox'[i]) \in QueuedWrites
    <3>1. i + 1 \in 1..Len(inbox) /\ inbox'[i] = inbox[i + 1]
      BY <1>1
    <3> QED
      BY <2>1, <3>1 DEF QueuedWrites
  <2> QED
    BY <2>1 DEF QueuedWrites
<1>3. ASSUME NEW v \in QueuedWrites, v \notin QueuedWrites'
      PROVE  Head(inbox).cmd \in WriteCmds /\ v = w
  <2>1. PICK i \in 1..Len(inbox) : inbox[i].cmd \in WriteCmds /\ v = WriteOf(inbox[i])
    BY DEF QueuedWrites
  <2>2. CASE i = 1
    BY <1>1, <2>1, <2>2
  <2>3. CASE i # 1
    <3>1. i - 1 \in 1..Len(inbox') /\ inbox'[i - 1] = inbox[i]
      BY <1>1, <2>3
    <3>2. v \in QueuedWrites'
      BY <2>1, <3>1 DEF QueuedWrites
    <3> QED
      BY <1>3, <3>2
  <2> QED
    BY <2>2, <2>3
<1>4. Head(inbox).cmd \in WriteCmds => w \in QueuedWrites
  <2>1. 1 \in 1..Len(inbox)
    BY <1>1
  <2> QED
    BY <1>1, <2>1 DEF QueuedWrites
<1>5. CASE Head(inbox).cmd \in WriteCmds
  <2>1. QueuedWrites' = QueuedWrites \/ QueuedWrites' = QueuedWrites \ {w}
    <3> HIDE DEF w
    <3> QED
      BY <1>2, <1>3
  <2> QED
    BY <1>4, <1>5, <2>1
<1>6. CASE Head(inbox).cmd \notin WriteCmds
  <2>1. QueuedWrites' = QueuedWrites
    BY <1>2, <1>3, <1>6
  <2> QED
    BY <1>6, <2>1
<1> QED
  BY <1>5, <1>6

\* The sensor changes the templates only by carrying out a queued write.
LEMMA SensorCarries ==
  ASSUME SensorTypeOK, SensorNext
  PROVE  \/ UNCHANGED <<store, QueuedWrites>>
         \/ \E w \in Writes : Store!Carry(w)
<1>1. CASE HandleCommit \/ HandleDelete \/ HandleWipe
  <2> DEFINE q == Head(inbox)
             w == WriteOf(q)
  <2>1. inbox # <<>> /\ inbox' = Tail(inbox) /\ q.cmd \in WriteCmds
    BY <1>1 DEF HandleCommit, HandleDelete, HandleWipe, WriteCmds
  <2>2. /\ w \in QueuedWrites
        /\ QueuedWrites' \in {QueuedWrites, QueuedWrites \ {w}}
    BY <2>1, WritesLeft
  <2>3. w \in Writes /\ w.cmd = q.cmd /\ (q.cmd = "delete" => w.slot = SlotNamed(q.arg))
    BY <2>1, HeadTyped, WriteTyped DEF Requests
  <2>4. store' \in Store!Effects(w, store)
    <3>1. CASE HandleCommit
      <4>1. w.cmd = "commit"
        BY <2>3, <3>1 DEF HandleCommit
      <4>2. store' = store \/ \E s \in Slots : store' = store \cup {s}
        BY <3>1 DEF HandleCommit
      <4> HIDE DEF w
      <4> QED
        BY <4>1, <4>2 DEF Store!Effects
    <3>2. CASE HandleDelete
      <4>1. w.cmd = "delete" /\ w.slot = SlotNamed(q.arg)
        BY <2>3, <3>2 DEF HandleDelete
      <4>2. store' = store \/ store' = store \ {SlotNamed(q.arg)}
        BY <3>2 DEF HandleDelete
      <4> HIDE DEF w
      <4> QED
        BY <4>1, <4>2 DEF Store!Effects
    <3>3. CASE HandleWipe
      <4>1. w.cmd = "wipe_sensor" /\ store' = {}
        BY <2>3, <3>3 DEF HandleWipe
      <4> HIDE DEF w
      <4> QED
        BY <4>1 DEF Store!Effects
    <3> QED
      BY <1>1, <3>1, <3>2, <3>3
  <2> HIDE DEF w
  <2> QED
    BY <2>2, <2>3, <2>4 DEF Store!Carry
<1>2. CASE HandleQuery \/ HandleAbort \/ BeginWait
  <2>1. /\ inbox # <<>> /\ inbox' = Tail(inbox) /\ store' = store
        /\ Head(inbox).cmd \in Queries \cup {"abort", "identify", "enroll"}
    BY <1>2, HeadTyped, CmdTable DEF HandleQuery, HandleAbort, BeginWait
  <2>2. Head(inbox).cmd \notin WriteCmds
    BY <2>1 DEF Queries, WriteCmds
  <2> QED
    BY <2>1, <2>2, WritesLeft
<1>3. CASE TouchMatch \/ TouchOther
  BY <1>3 DEF TouchMatch, TouchOther, QueuedWrites
<1> QED
  BY <1>1, <1>2, <1>3 DEF SensorNext

\* Power off: nothing is queued any more, the templates stay.
LEMMA PowerLoses == PowerCycle => Store!Lose
BY DEF PowerCycle, Store!Lose, QueuedWrites

\* A request that joins the queue asks for its write, if it is one.
LEMMA WritesAsked ==
  ASSUME SensorTypeOK, NEW q \in Requests, inbox' = Append(inbox, q)
  PROVE  QueuedWrites' = IF q.cmd \in WriteCmds THEN QueuedWrites \cup {WriteOf(q)}
                                                ELSE QueuedWrites
<1>1. inbox \in Seq(Requests) /\ Len(inbox) \in Nat
  BY LenProperties DEF SensorTypeOK
<1>2. /\ Len(inbox') = Len(inbox) + 1 /\ inbox'[Len(inbox) + 1] = q
      /\ \A i \in 1..Len(inbox) : inbox'[i] = inbox[i] /\ i \in 1..Len(inbox')
  BY <1>1, AppendProperties
<1>3. QueuedWrites \subseteq QueuedWrites'
  BY <1>2 DEF QueuedWrites
<1>4. q.cmd \in WriteCmds => WriteOf(q) \in QueuedWrites'
  <2>1. Len(inbox) + 1 \in 1..Len(inbox')
    BY <1>1, <1>2
  <2> QED
    BY <1>2, <2>1 DEF QueuedWrites
<1>5. ASSUME NEW v \in QueuedWrites', v \notin QueuedWrites
      PROVE  q.cmd \in WriteCmds /\ v = WriteOf(q)
  <2>1. PICK i \in 1..Len(inbox') : inbox'[i].cmd \in WriteCmds /\ v = WriteOf(inbox'[i])
    BY DEF QueuedWrites
  <2>2. CASE i = Len(inbox) + 1
    BY <1>2, <2>1, <2>2
  <2>3. CASE i # Len(inbox) + 1
    <3>1. i \in 1..Len(inbox) /\ inbox'[i] = inbox[i]
      BY <1>1, <1>2, <2>3
    <3> QED
      BY <1>5, <2>1, <3>1 DEF QueuedWrites
  <2> QED
    BY <2>2, <2>3
<1> QED
  BY <1>3, <1>4, <1>5

(***************************************************************************)
(* What a step of the sensor does, for proofs that follow one request      *)
(***************************************************************************)
\* Requests answered at once, other than a wipe.
Prompt == Queries \cup {"abort", "commit", "delete"}

\* The request at the head of the queue is taken, and r answers it.
Answers(r) ==
  /\ inbox # <<>> /\ Head(inbox).cmd \in Prompt /\ inbox' = Tail(inbox)
  /\ waiting' = IF Head(inbox).cmd = "abort" THEN NoReq ELSE waiting
  /\ cur' = cur
  /\ Emit(r) /\ r.cmd = Head(inbox).cmd /\ r.arg = Head(inbox).arg
  /\ r.cmd \in Queries => r \in QueryReplies(Head(inbox))

\* The finger the request at the sensor waited for is there, and r answers it.
Touched(r) ==
  /\ waiting # NoReq /\ waiting' = NoReq /\ inbox' = inbox
  /\ Emit(r) /\ r.cmd = waiting.cmd /\ r.arg = waiting.arg
  /\ r.len = 2 /\ r.magic = (waiting.cmd # "get_fw_ver")
  /\ \/ cur' = r.b1 /\ r.cmd = "identify"
     \/ cur' = cur /\ (r.cmd = "identify" => r.b1 \in {65, 253, 255})

LEMMA SensorStep ==
  ASSUME SensorTypeOK, SensorNext
  PROVE  \/ HandleWipe
         \/ BeginWait
         \/ \E r \in Replies : Answers(r) \/ Touched(r)
<1>0. /\ 0 \in Byte /\ 65 \in Byte /\ 253 \in Byte /\ 255 \in Byte
      /\ Slots \subseteq Byte /\ Queries \cap {"abort", "commit", "delete"} = {}
  BY SlotsAreBytes DEF Byte, Queries
<1>1. CASE HandleQuery
  <2>1. PICK r \in QueryReplies(Head(inbox)) : Emit(r)
    BY <1>1 DEF HandleQuery
  <2>2. r \in Replies /\ r.cmd = Head(inbox).cmd /\ r.arg = Head(inbox).arg
    BY <1>1, HeadTyped, QueryRepliesTyped DEF HandleQuery
  <2>3. Answers(r)
    BY <1>0, <1>1, <2>1, <2>2 DEF HandleQuery, Answers, Prompt
  <2> QED
    BY <2>2, <2>3
<1>2. CASE HandleAbort \/ HandleCommit \/ HandleDelete
  <2>1. PICK r \in Replies : /\ Emit(r)
                             /\ r.cmd = Head(inbox).cmd /\ r.arg = Head(inbox).arg
    BY <1>2, AnswerEmitted
  <2>2. r.cmd \notin Queries
    BY <1>0, <1>2, <2>1 DEF HandleAbort, HandleCommit, HandleDelete
  <2>3. Answers(r)
    BY <1>2, <2>1, <2>2 DEF HandleAbort, HandleCommit, HandleDelete, Answers, Prompt
  <2> QED
    BY <2>3
<1>3. CASE TouchMatch
  <2>1. PICK s \in store : Emit(Reply(waiting, 2, s, NoSlot)) /\ cur' = s
    BY <1>3 DEF TouchMatch
  <2> DEFINE r == Reply(waiting, 2, s, NoSlot)
  <2>2. waiting \in Requests /\ s \in Byte
    BY <1>0, <1>3 DEF TouchMatch, SensorTypeOK
  <2>3. r \in Replies /\ r.cmd = waiting.cmd /\ r.arg = waiting.arg
    BY <2>2, StatusReplyTyped
  <2>4. r.len = 2 /\ r.b1 = s /\ r.magic = (waiting.cmd # "get_fw_ver")
    BY DEF Reply
  <2>5. Emit(r)
    BY <2>1
  <2> HIDE DEF r
  <2>6. Touched(r)
    BY <1>3, <2>1, <2>3, <2>4, <2>5 DEF TouchMatch, Touched
  <2> QED
    BY <2>3, <2>6
<1>4. CASE TouchOther
  <2>1. PICK b \in {0, 65, 253, 255} : /\ Emit(Reply(waiting, 2, b, NoSlot))
                                       /\ waiting.cmd = "identify" => b # 0
    BY <1>4 DEF TouchOther
  <2> DEFINE r == Reply(waiting, 2, b, NoSlot)
  <2>2. waiting \in Requests /\ b \in Byte
    BY <1>0, <1>4 DEF TouchOther, SensorTypeOK
  <2>3. r \in Replies /\ r.cmd = waiting.cmd /\ r.arg = waiting.arg
    BY <2>2, StatusReplyTyped
  <2>4. r.len = 2 /\ r.b1 = b /\ r.magic = (waiting.cmd # "get_fw_ver")
    BY DEF Reply
  <2>5. Emit(r)
    BY <2>1
  <2> HIDE DEF r
  <2>6. Touched(r)
    BY <1>4, <2>1, <2>3, <2>4, <2>5 DEF TouchOther, Touched
  <2> QED
    BY <2>3, <2>6
<1> QED
  BY <1>1, <1>2, <1>3, <1>4 DEF SensorNext

\* An emitted reply is the last on its endpoint, and the only change.
LEMMA EmitAppends ==
  ASSUME SensorTypeOK, NEW r \in Replies, Emit(r)
  PROVE  /\ Cmd[r.cmd].ep_in \in Endpoints
         /\ fifo' = [fifo EXCEPT ![Cmd[r.cmd].ep_in] = Append(fifo[Cmd[r.cmd].ep_in], r)]
         /\ Len(fifo'[Cmd[r.cmd].ep_in]) = Len(fifo[Cmd[r.cmd].ep_in]) + 1
         /\ fifo'[Cmd[r.cmd].ep_in][Len(fifo[Cmd[r.cmd].ep_in]) + 1] = r
         /\ \A i \in 1..Len(fifo[Cmd[r.cmd].ep_in]) :
               fifo'[Cmd[r.cmd].ep_in][i] = fifo[Cmd[r.cmd].ep_in][i]
         /\ \A ep \in Endpoints \ {Cmd[r.cmd].ep_in} : fifo'[ep] = fifo[ep]
<1> DEFINE e == Cmd[r.cmd].ep_in
<1>1. e \in Endpoints /\ fifo \in [Endpoints -> Seq(Replies)]
  BY CmdTable DEF Replies, SensorTypeOK
<1>2. fifo' = [fifo EXCEPT ![e] = Append(fifo[e], r)]
  BY DEF Emit
<1>3. fifo[e] \in Seq(Replies)
  BY <1>1
<1>4. /\ fifo'[e] = Append(fifo[e], r)
      /\ \A ep \in Endpoints \ {e} : fifo'[ep] = fifo[ep]
  BY <1>1, <1>2
<1> HIDE DEF e
<1>5. /\ Len(Append(fifo[e], r)) = Len(fifo[e]) + 1
      /\ Append(fifo[e], r)[Len(fifo[e]) + 1] = r
      /\ \A i \in 1..Len(fifo[e]) : Append(fifo[e], r)[i] = fifo[e][i]
  BY <1>3, AppendProperties
<1> QED
  BY <1>1, <1>2, <1>4, <1>5 DEF e

\* The sensor turns requests into replies and drops some, it makes none.
LEMMA LoadTyped ==
  ASSUME SensorTypeOK
  PROVE  /\ Len(inbox) \in Nat /\ (Len(inbox) = 0 <=> inbox = <<>>)
         /\ \A ep \in Endpoints : /\ Len(fifo[ep]) \in Nat
                                  /\ Len(fifo[ep]) = 0 <=> fifo[ep] = <<>>
         /\ EP_CMD_IN \in Endpoints /\ EP_MOC_CMD_IN \in Endpoints
         /\ EP_CMD_IN # EP_MOC_CMD_IN
BY LenProperties, EmptySeq DEF SensorTypeOK, Endpoints, EP_CMD_IN, EP_MOC_CMD_IN

Fill == Len(fifo[EP_CMD_IN]) + Len(fifo[EP_MOC_CMD_IN])
Pending == IF waiting = NoReq THEN 0 ELSE 1

LEMMA LoadParts ==
  ASSUME SensorTypeOK
  PROVE  /\ Fill \in Nat /\ Len(inbox) \in Nat /\ Pending \in {0, 1}
         /\ Load = Len(inbox) + Pending + Fill
<1>1. fifo \in [Endpoints -> Seq(Replies)] /\ inbox \in Seq(Requests)
  BY DEF SensorTypeOK
<1>2. PICK a \in Nat, b \in Nat, n \in Nat, h \in Nat :
        /\ a = Len(fifo[EP_CMD_IN]) /\ b = Len(fifo[EP_MOC_CMD_IN])
        /\ n = Len(inbox) /\ h = IF waiting = NoReq THEN 0 ELSE 1
  <2>1. fifo[EP_CMD_IN] \in Seq(Replies) /\ fifo[EP_MOC_CMD_IN] \in Seq(Replies)
    BY <1>1 DEF Endpoints
  <2> QED
    BY <1>1, <2>1, LenProperties
<1>3. /\ Load = n + h + a + b /\ Fill = a + b /\ Pending = h
      /\ Len(inbox) = n
  BY <1>2 DEF Load, Fill, Pending
<1>4. n + h + a + b = n + h + (a + b) /\ a + b \in Nat
  OBVIOUS
<1>5. h \in {0, 1}
  BY <1>2
<1> QED
  BY <1>3, <1>4, <1>5

LEMMA LoadPartsNext ==
  ASSUME SensorTypeOK'
  PROVE  /\ Fill' \in Nat /\ Len(inbox') \in Nat /\ Pending' \in {0, 1}
         /\ Load' = Len(inbox') + Pending' + Fill'
<1>1. fifo' \in [Endpoints -> Seq(Replies)] /\ inbox' \in Seq(Requests)
  BY DEF SensorTypeOK
<1>2. PICK a \in Nat, b \in Nat, n \in Nat, h \in Nat :
        /\ a = Len(fifo'[EP_CMD_IN]) /\ b = Len(fifo'[EP_MOC_CMD_IN])
        /\ n = Len(inbox') /\ h = IF waiting' = NoReq THEN 0 ELSE 1
  <2>1. fifo'[EP_CMD_IN] \in Seq(Replies) /\ fifo'[EP_MOC_CMD_IN] \in Seq(Replies)
    BY <1>1 DEF Endpoints
  <2> QED
    BY <1>1, <2>1, LenProperties
<1>3. /\ Load' = n + h + a + b /\ Fill' = a + b /\ Pending' = h
      /\ Len(inbox') = n
  BY <1>2 DEF Load, Fill, Pending
<1>4. n + h + a + b = n + h + (a + b) /\ a + b \in Nat
  OBVIOUS
<1>5. h \in {0, 1}
  BY <1>2
<1> QED
  BY <1>3, <1>4, <1>5

LEMMA EmitCounts ==
  ASSUME SensorTypeOK, NEW r \in Replies, Emit(r)
  PROVE  Fill' = Fill + 1
<1> DEFINE e == Cmd[r.cmd].ep_in
<1>1. /\ e \in {EP_CMD_IN, EP_MOC_CMD_IN}
      /\ Len(fifo'[e]) = Len(fifo[e]) + 1
      /\ \A ep \in Endpoints \ {e} : fifo'[ep] = fifo[ep]
  BY EmitAppends DEF Endpoints
<1> HIDE DEF e
<1>2. PICK a \in Nat, b \in Nat : a = Len(fifo[EP_CMD_IN]) /\ b = Len(fifo[EP_MOC_CMD_IN])
  BY LoadTyped
<1>3. \/ Len(fifo'[EP_CMD_IN]) = a + 1 /\ Len(fifo'[EP_MOC_CMD_IN]) = b
      \/ Len(fifo'[EP_CMD_IN]) = a /\ Len(fifo'[EP_MOC_CMD_IN]) = b + 1
  BY <1>1, <1>2, LoadTyped
<1>4. Fill = a + b
  BY <1>2 DEF Fill
<1>5. Fill' = (a + 1) + b \/ Fill' = a + (b + 1)
  BY <1>3 DEF Fill
<1> QED
  BY <1>4, <1>5

LEMMA SensorLoad ==
  ASSUME SensorTypeOK, SensorNext
  PROVE  Load' <= Load
<1>1. /\ Fill \in Nat /\ Len(inbox) \in Nat /\ Pending \in {0, 1}
      /\ Load = Len(inbox) + Pending + Fill
      /\ Fill' \in Nat /\ Len(inbox') \in Nat /\ Pending' \in {0, 1}
      /\ Load' = Len(inbox') + Pending' + Fill'
  BY SensorTypes, LoadParts, LoadPartsNext
<1>2. inbox # <<>> => Len(Tail(inbox)) = Len(inbox) - 1
  BY HeadTyped
<1>3. CASE HandleWipe
  <2>1. Len(inbox') = Len(inbox) - 1 /\ Pending' = Pending /\ Fill' = Fill
    BY <1>2, <1>3 DEF HandleWipe, Fill, Pending
  <2> QED
    BY <1>1, <2>1
<1>4. CASE BeginWait
  <2>1. Len(inbox') = Len(inbox) - 1 /\ Pending = 0 /\ Fill' = Fill
    BY <1>2, <1>4 DEF BeginWait, Fill, Pending
  <2> QED
    BY <1>1, <2>1
<1>5. ASSUME NEW r \in Replies, Answers(r) \/ Touched(r) PROVE Load' <= Load
  <2>1. Fill' = Fill + 1
    BY <1>5, EmitCounts DEF Answers, Touched
  <2>2. \/ Len(inbox') = Len(inbox) - 1 /\ (Pending' = Pending \/ Pending' = 0)
        \/ inbox' = inbox /\ Pending = 1 /\ Pending' = 0
    BY <1>2, <1>5 DEF Answers, Touched, Pending
  <2>3. CASE Len(inbox') = Len(inbox) - 1 /\ (Pending' = Pending \/ Pending' = 0)
    BY <1>1, <2>1, <2>3
  <2>4. CASE inbox' = inbox /\ Pending = 1 /\ Pending' = 0
    BY <1>1, <2>1, <2>4
  <2> QED
    BY <2>2, <2>3, <2>4
<1> QED
  BY <1>3, <1>4, <1>5, SensorStep
=============================================================================

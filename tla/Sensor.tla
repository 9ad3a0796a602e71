------------------------------- MODULE Sensor -------------------------------
(***************************************************************************)
(* The sensor at the other end of the USB cable.  Its firmware is not in   *)
(* the repository: this module is the environment the driver is written    *)
(* for, as src/proto.rs, src/device.rs and docs/PROTOCOL.md use it.  It    *)
(* takes requests from the OUT endpoint in order, queues each reply on the *)
(* IN endpoint of the command until the host reads it, and blocks the      *)
(* cancellable commands until a finger is presented.  A reply carries no   *)
(* opcode and no tag; cmd and arg in a reply are history, for properties   *)
(* only.  Nothing obliges the sensor to answer.                            *)
(***************************************************************************)
EXTENDS Proto, FiniteSets

CONSTANTS MaxPrints,   \* proto.rs:40, templates the sensor stores
          SlotAware,   \* finger_info looks at its index; FALSE on 04f3:0c00
          OutDepth,    \* bound: requests the OUT endpoint holds
          InDepth,     \* bound: replies an IN endpoint holds
          NoSlot, NoReq

ASSUME SensorAssumption ==
  /\ MaxPrints \in 1..16            \* a slot is a status byte below 0x10
  /\ SlotAware \in BOOLEAN
  /\ OutDepth \in Nat \ {0} /\ InDepth \in Nat \ {0}
  /\ NoSlot \notin Nat

Slots == 0..(MaxPrints - 1)

Requests == [cmd : CmdNames, arg : Byte, auth : BOOLEAN]
Replies  == [cmd : CmdNames, arg : Byte, len : 0..64, magic : BOOLEAN,
             b1 : Byte, uid : Slots \cup {NoSlot}]

ASSUME NoReqAssumption == NoReq \notin Requests

VARIABLES store,     \* slots that hold a template; survives power loss
          cur,       \* slot of the last match, NoSlot since power-up
          waiting,   \* cancellable request waiting for a finger, or NoReq
          inbox,     \* requests on the OUT endpoint, oldest first
          fifo       \* per IN endpoint, replies the host has not read

sensorVars == <<store, cur, waiting, inbox, fifo>>

SensorTypeOK ==
  /\ store \subseteq Slots
  /\ cur \in Slots \cup {NoSlot}
  /\ waiting \in Requests \cup {NoReq}
  /\ inbox \in Seq(Requests) /\ Len(inbox) <= OutDepth
  /\ fifo \in [Endpoints -> Seq(Replies)]
  /\ \A ep \in Endpoints : Len(fifo[ep]) <= InDepth

SensorInit ==
  /\ store \in SUBSET Slots
  /\ cur = NoSlot /\ waiting = NoReq
  /\ inbox = <<>> /\ fifo = [ep \in Endpoints |-> <<>>]

----------------------------------------------------------------------------
(* Replies.  len is what the host reads, b1 the status or count byte, uid  *)
(* the slot whose user-id a 64-byte finger_info record holds.              *)

Reply(q, len, b1, uid) ==
  [cmd |-> q.cmd, arg |-> q.arg, len |-> len,
   magic |-> q.cmd # "get_fw_ver", b1 |-> b1, uid |-> uid]

\* Legal for every query: zero bytes (proto.rs:98), or a truncated reply.
Stubs(q) == {Reply(q, len, 0, NoSlot) : len \in 0..1}

\* The slot a finger_info request reads: its index, or on 04f3:0c00 the
\* record of the last match whatever the index.
RecordFor(q) ==
  IF ~SlotAware THEN cur
  ELSE IF q.arg \in store THEN q.arg ELSE NoSlot

QueryReplies(q) ==
  Stubs(q) \cup
  CASE q.cmd = "get_fw_ver"         -> {Reply(q, 2, 131, NoSlot)}
    [] q.cmd = "get_enrolled_count" -> {Reply(q, 2, Cardinality(store), NoSlot)}
    [] q.cmd = "finger_info" ->
         IF RecordFor(q) = NoSlot THEN {Reply(q, 2, 255, NoSlot)}
                                  ELSE {Reply(q, 64, 0, RecordFor(q))}
    [] q.cmd = "check_enroll_collision" ->
         {Reply(q, 3, b, NoSlot) : b \in store \cup {0, 253, 255}}

Emit(r) ==
  LET ep == Cmd[r.cmd].ep_in IN
  /\ Len(fifo[ep]) < InDepth
  /\ fifo' = [fifo EXCEPT ![ep] = Append(@, r)]

----------------------------------------------------------------------------
(* Requests handled at once                                                *)

Queries == {"get_fw_ver", "get_enrolled_count", "finger_info",
            "check_enroll_collision"}

HandleQuery ==
  /\ inbox # <<>> /\ Head(inbox).cmd \in Queries
  /\ \E r \in QueryReplies(Head(inbox)) : Emit(r)
  /\ inbox' = Tail(inbox)
  /\ UNCHANGED <<store, cur, waiting>>

HandleAbort ==
  /\ inbox # <<>> /\ Head(inbox).cmd = "abort"
  /\ Emit(Reply(Head(inbox), 2, 0, NoSlot))
  /\ inbox' = Tail(inbox)
  /\ waiting' = NoReq
  /\ UNCHANGED <<store, cur>>

\* A commit stores the template in a slot of the sensor's choice, or is
\* refused when full.
HandleCommit ==
  /\ inbox # <<>> /\ Head(inbox).cmd = "commit"
  /\ \/ /\ \E s \in Slots : store' = store \cup {s}
        /\ Emit(Reply(Head(inbox), 2, 0, NoSlot))
     \/ /\ store' = store
        /\ Emit(Reply(Head(inbox), 2, 221, NoSlot))
  /\ inbox' = Tail(inbox)
  /\ UNCHANGED <<cur, waiting>>

\* The slot a delete's first payload byte, 0xf0 | (slot + 5), names.
SlotNamed(b) == ((b % 16) + 11) % 16

\* A delete empties the slot, whether or not its reply is whole, or is refused.
HandleDelete ==
  /\ inbox # <<>> /\ Head(inbox).cmd = "delete"
  /\ \/ /\ store' = store \ {SlotNamed(Head(inbox).arg)}
        /\ \E r \in Stubs(Head(inbox)) \cup {Reply(Head(inbox), 2, 0, NoSlot)} : Emit(r)
     \/ /\ store' = store
        /\ Emit(Reply(Head(inbox), 2, 255, NoSlot))
  /\ inbox' = Tail(inbox)
  /\ UNCHANGED <<cur, waiting>>

\* The wipe answers nothing, and takes about 5 s: the requests behind it
\* stay queued meanwhile.
HandleWipe ==
  /\ inbox # <<>> /\ Head(inbox).cmd = "wipe_sensor"
  /\ store' = {}
  /\ inbox' = Tail(inbox)
  /\ UNCHANGED <<cur, waiting, fifo>>

----------------------------------------------------------------------------
(* identify and enroll block until a finger is presented                   *)

BeginWait ==
  /\ inbox # <<>> /\ Cmd[Head(inbox).cmd].is_cancellable /\ waiting = NoReq
  /\ waiting' = Head(inbox)
  /\ inbox' = Tail(inbox)
  /\ UNCHANGED <<store, cur, fifo>>

\* The finger matches slot s: its record becomes the current one.
TouchMatch ==
  /\ waiting # NoReq /\ waiting.cmd = "identify"
  /\ \E s \in store : Emit(Reply(waiting, 2, s, NoSlot)) /\ cur' = s
  /\ waiting' = NoReq
  /\ UNCHANGED <<store, inbox>>

\* No match, a misplaced finger (0x41), one captured enroll stage, or a
\* rejected command.
TouchOther ==
  /\ waiting # NoReq
  /\ \E b \in (IF waiting.cmd = "identify" THEN {253} ELSE {0}) \cup {65, 255} :
        Emit(Reply(waiting, 2, b, NoSlot))
  /\ waiting' = NoReq
  /\ UNCHANGED <<store, cur, inbox>>

----------------------------------------------------------------------------
(* The requests that change the stored templates, as TemplateStore has them *)

WriteCmds == {"commit", "delete", "wipe_sensor"}

WriteOf(q) == [cmd |-> q.cmd,
               slot |-> IF q.cmd = "delete" THEN SlotNamed(q.arg) ELSE NoSlot]

Writes == [cmd : WriteCmds, slot : (0..15) \cup {NoSlot}]

QueuedWrites == {WriteOf(inbox[i]) : i \in {j \in 1..Len(inbox) : inbox[j].cmd \in WriteCmds}}

\* Requests and replies on the device.
Load == Len(inbox) + (IF waiting = NoReq THEN 0 ELSE 1)
          + Len(fifo[EP_CMD_IN]) + Len(fifo[EP_MOC_CMD_IN])

----------------------------------------------------------------------------
SensorNext == \/ HandleQuery \/ HandleAbort \/ HandleCommit \/ HandleDelete
              \/ HandleWipe \/ BeginWait \/ TouchMatch \/ TouchOther

\* Unplugging or a USB reset loses everything but the stored templates.
PowerCycle ==
  /\ waiting' = NoReq /\ cur' = NoSlot
  /\ inbox' = <<>> /\ fifo' = [ep \in Endpoints |-> <<>>]
  /\ UNCHANGED store
=============================================================================

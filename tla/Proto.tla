------------------------------- MODULE Proto -------------------------------
(***************************************************************************)
(* The wire protocol of the elanmoc2 sensors, src/proto.rs: the command    *)
(* table, the OUT frame, the decoding of a status byte.  Pure definitions, *)
(* no state; Sensor, Driver and ElanCtl are built on them.                 *)
(***************************************************************************)
EXTENDS Naturals, Sequences

Byte == 0..255

FRAME_MAGIC   == 64        \* 0x40
EP_CMD_IN     == 131       \* 0x83, ordinary replies
EP_MOC_CMD_IN == 132       \* 0x84, replies that wait for a finger
Endpoints     == {EP_CMD_IN, EP_MOC_CMD_IN}
PID_0C00      == 3072
PID_0C5E      == 3166

Effects == {"ReadOnly", "Transient", "Persistent"}

\* One row of the command table.  An opcode is one or two bytes.
Row(opcode, out, in, ep, cancellable, eff) ==
  [cmd |-> opcode, out_len |-> out, in_len |-> in, ep_in |-> ep,
   is_cancellable |-> cancellable, effect |-> eff]

\* Bugs for the runs to find: collision given commit's opcode, 0x11 for 0x10.
COLLISION_AS_COMMIT    == Row(<<255, 17>>,  3,  3, EP_CMD_IN,     FALSE, "ReadOnly")
\* Delete declared harmless, abort declared as a command without a reply.
DELETE_AS_TRANSIENT    == Row(<<255, 19>>, 72, 2, EP_CMD_IN,    FALSE, "Transient")
ABORT_WITHOUT_REPLY    == Row(<<255, 2>>,   3,  0, EP_CMD_IN,     FALSE, "Transient")

GET_FW_VER             == Row(<<25>>,       2,  2, EP_CMD_IN,     FALSE, "ReadOnly")
GET_ENROLLED_COUNT     == Row(<<255, 4>>,   3,  2, EP_CMD_IN,     FALSE, "ReadOnly")
FINGER_INFO            == Row(<<255, 18>>,  4, 64, EP_CMD_IN,     FALSE, "ReadOnly")
CHECK_ENROLL_COLLISION == Row(<<255, 16>>,  3,  3, EP_CMD_IN,     FALSE, "ReadOnly")
ABORT                  == Row(<<255, 2>>,   3,  2, EP_CMD_IN,     FALSE, "Transient")
IDENTIFY               == Row(<<255, 3>>,   3,  2, EP_MOC_CMD_IN, TRUE,  "Transient")
ENROLL                 == Row(<<255, 1>>,   7,  2, EP_MOC_CMD_IN, TRUE,  "Persistent")
COMMIT                 == Row(<<255, 17>>, 72,  2, EP_CMD_IN,     FALSE, "Persistent")
DELETE                 == Row(<<255, 19>>, 72,  2, EP_CMD_IN,     FALSE, "Persistent")
WIPE_SENSOR            == Row(<<255, 153>>, 3,  0, EP_CMD_IN,     FALSE, "Persistent")

CmdNames == {"get_fw_ver", "get_enrolled_count", "finger_info",
             "check_enroll_collision", "abort", "identify",
             "enroll", "commit", "delete", "wipe_sensor"}

Cmd == [get_fw_ver |-> GET_FW_VER, get_enrolled_count |-> GET_ENROLLED_COUNT,
        finger_info |-> FINGER_INFO,
        check_enroll_collision |-> CHECK_ENROLL_COLLISION,
        abort |-> ABORT, identify |-> IDENTIFY, enroll |-> ENROLL,
        commit |-> COMMIT, delete |-> DELETE, wipe_sensor |-> WIPE_SENSOR]

Persistent(c) == Cmd[c].effect = "Persistent"

----------------------------------------------------------------------------
(* frame(): magic, opcode and payload in a zero-filled buffer of out_len   *)
(* bytes, or nothing when the payload does not fit.                        *)

Header(c) == 1 + Len(Cmd[c].cmd)

\* Bug: the size check forgets the header, the payload is cut short.
FitsWithoutHeader(c, payload) == Len(payload) <= Cmd[c].out_len

Fits(c, payload) == Header(c) + Len(payload) <= Cmd[c].out_len

\* Bug: the payload starts one byte late, over a byte of the padding.
FrameByteLate(c, payload, i) ==
  IF i = 1 THEN FRAME_MAGIC
  ELSE IF i <= Header(c) THEN Cmd[c].cmd[i - 1]
  ELSE IF i \in (Header(c) + 2)..(Header(c) + Len(payload) + 1)
       THEN payload[i - Header(c) - 1]
  ELSE 0

FrameByte(c, payload, i) ==
  IF i = 1 THEN FRAME_MAGIC
  ELSE IF i <= Header(c) THEN Cmd[c].cmd[i - 1]
  ELSE IF i <= Header(c) + Len(payload) THEN payload[i - Header(c)]
  ELSE 0

Frame(c, payload) == [i \in 1..Cmd[c].out_len |-> FrameByte(c, payload, i)]

\* How the sensor tells commands apart: the bytes after the magic.
CarriesOpcode(frame, c) ==
  /\ Len(frame) >= Header(c)
  /\ frame[1] = FRAME_MAGIC
  /\ \A i \in 1..Len(Cmd[c].cmd) : frame[i + 1] = Cmd[c].cmd[i]

----------------------------------------------------------------------------
(* Status::from_byte, Status::is_retryable                                 *)

FromByte(b) ==
  IF b \div 16 = 0 THEN "Ok"
  ELSE CASE b = 65  -> "MoveDown"
         [] b = 66  -> "MoveRight"
         [] b = 67  -> "MoveUp"
         [] b = 68  -> "MoveLeft"
         [] b = 221 -> "MaxEnrolledReached"
         [] b = 251 -> "SensorDirty"
         [] b = 253 -> "NotEnrolled"
         [] b = 254 -> "NotEnoughSurface"
         [] b = 255 -> "Rejected"
         [] OTHER   -> "Unknown"

IsRetryable(status) ==
  status \in {"Ok", "MoveDown", "MoveRight", "MoveUp", "MoveLeft",
              "SensorDirty", "NotEnoughSurface"}

UserIdOffset(pid) == IF pid = PID_0C5E THEN 3 ELSE 2

\* Bug: the digits swapped.
BcdSwapped(b) == (((b % 16) * 10) + (b \div 16)) % 256

\* u8 arithmetic: the code's product and sum wrap at 2^8.
Bcd(b) == (((b \div 16) * 10) + (b % 16)) % 256
=============================================================================

---------------------------- MODULE ProtoInputs ----------------------------
(***************************************************************************)
(* Walks the inputs of Proto's functions, so that TLC evaluates them on    *)
(* each: a command and a payload grown byte by byte for frame() and the    *)
(* descriptor decoders, and every byte for Status::from_byte, bcd, the slot *)
(* byte and, as the length of a reply, for the user-id.                    *)
(***************************************************************************)
EXTENDS UserId, Descriptors

CONSTANTS PayloadBytes,   \* the bytes payloads are made of
          MaxPayload      \* longest payload tried

ASSUME PayloadAssumption == PayloadBytes \subseteq Byte /\ MaxPayload \in Nat

VARIABLES cmd, payload, byte
vars == <<cmd, payload, byte>>

Init == cmd \in CmdNames /\ payload = <<>> /\ byte = 0

Extend ==
  /\ byte = 0 /\ Len(payload) < MaxPayload
  /\ \E b \in PayloadBytes : payload' = Append(payload, b)
  /\ UNCHANGED <<cmd, byte>>

NextByte ==
  /\ payload = <<>> /\ byte < 255
  /\ byte' = byte + 1
  /\ UNCHANGED <<cmd, payload>>

Next == Extend \/ NextByte
Spec == Init /\ [][Next]_vars

TypeOK == cmd \in CmdNames /\ payload \in Seq(Byte) /\ byte \in Byte

----------------------------------------------------------------------------
Zeros(n) == [i \in 1..n |-> 0]

\* The buffer frame() builds is the concatenation proto.rs:9 describes:
\* magic, opcode, payload, zero padding up to exactly out_len.
FrameLayout ==
  Fits(cmd, payload) =>
    Frame(cmd, payload) =
      <<FRAME_MAGIC>> \o Cmd[cmd].cmd \o payload
        \o Zeros(Cmd[cmd].out_len - Header(cmd) - Len(payload))

\* No payload can turn the frame of one command into another's: the gate
\* (device.rs:347) looks at the Cmd, the sensor only at the bytes, and a
\* caller's payload must not smuggle a persistent opcode past the gate.
Unambiguous ==
  Fits(cmd, payload) =>
    \A c \in CmdNames : CarriesOpcode(Frame(cmd, payload), c) <=> c = cmd

\* frame() refuses a payload rather than truncate it: two payloads that fit
\* give the same buffer only if they differ by trailing zeros.  Short of
\* that, commit and delete would name another template than asked.
PayloadKept ==
  \A b \in PayloadBytes \ {0} :
    Fits(cmd, Append(payload, b)) =>
      Frame(cmd, Append(payload, b)) # Frame(cmd, payload)

\* bcd: two packed bytes with decimal low digits give the same number only
\* if they are the same byte (no wrap in u8), so two firmware versions never
\* print alike.
BcdInjective ==
  \A d \in Byte : (d % 16 < 10 /\ byte % 16 < 10 /\ Bcd(d) = Bcd(byte))
                     => d = byte

\* patches/0004:101, "the reply is supplied by the device and is not trusted":
\* whatever number of bytes the sensor returned, the user-id is copied from
\* within the reply, its terminator falls inside the buffer, and a delete
\* frame takes no byte beyond either end.
UserIdInBounds ==
  \A pid \in Products :
    LET len == UserIdLength(pid, byte) IN
    /\ len > 0 => UserIdOffset(pid) + len <= byte
    /\ len < UserIdBuffer(pid, byte)
    /\ DeleteCopy(len) <= len /\ 4 + DeleteCopy(len) <= DELETE.out_len

\* patches/0002:66: no two stored templates have the same slot byte, so a
\* delete names one.  (A sensor has at most 16 slots, a status below 0x10.)
SlotByteDistinct ==
  \A id \in 0..15 : (byte < 16 /\ SlotByte(id) = SlotByte(byte)) => id = byte

\* The payload read as a descriptor, on its own or followed by zeros: with
\* nine of them a head such as 09 21 is a whole HID record.
AsDescriptor == {payload \o Zeros(n) : n \in {0, 1, 9}}

\* probe.rs:202: every HID record walked lies inside the descriptor, they
\* follow one another, and one whose fields are read has all nine bytes there,
\* whatever lengths the device wrote: no index out of range, no panic.
HidInRange ==
  \A d \in AsDescriptor :
    LET rs == HidRecords(d) IN
    \A k \in DOMAIN rs :
      /\ rs[k].at = IF k = 1 THEN 1 ELSE rs[k - 1].at + rs[k - 1].len
      /\ rs[k].at + rs[k].len - 1 <= Len(d)
      /\ HidPrinted(d, rs[k]) => rs[k].at + 8 <= Len(d)

\* probe.rs:228: the items decoded are the report descriptor cut in pieces:
\* none reads past its end, none is empty, no byte is left out or read twice.
ReportInPieces ==
  \A d \in AsDescriptor :
    LET items == ReportItems(d) IN
    /\ d # <<>> => items # <<>> /\ items[1].first = 1 /\ items[Len(items)].last = Len(d)
    /\ \A k \in DOMAIN items :
         /\ items[k].first <= items[k].last
         /\ k > 1 => items[k].first = items[k - 1].last + 1
=============================================================================

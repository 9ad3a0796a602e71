---------------------------- MODULE ProtoProofs ----------------------------
(***************************************************************************)
(* What holds of the wire format for every payload, not only those TLC     *)
(* tries in ProtoInputs.                                                   *)
(***************************************************************************)
EXTENDS ProtoInputs, SequenceTheorems, TLAPS

\* The command table: get_fw_ver has the one single-byte opcode, 0x19; the
\* others start with 0xff and differ in their second byte.
LEMMA Opcodes ==
  ASSUME NEW c \in CmdNames
  PROVE  /\ Len(Cmd[c].cmd) = IF c = "get_fw_ver" THEN 1 ELSE 2
         /\ Cmd[c].cmd[1] = IF c = "get_fw_ver" THEN 25 ELSE 255
         /\ Cmd[c].out_len \in Nat
<1> USE DEF Cmd, Row, GET_FW_VER, GET_ENROLLED_COUNT, FINGER_INFO,
            CHECK_ENROLL_COLLISION, ABORT, IDENTIFY, ENROLL, COMMIT, DELETE,
            WIPE_SENSOR
<1>1. Cmd[c].out_len \in Nat
  BY DEF CmdNames
<1>2. CASE c = "get_fw_ver"
  BY <1>1, <1>2
<1>3. CASE c # "get_fw_ver"
  <2>1. Len(Cmd[c].cmd) = 2
    BY <1>3 DEF CmdNames
  <2>2. Cmd[c].cmd[1] = 255
    BY <1>3 DEF CmdNames
  <2> QED
    BY <1>1, <1>3, <2>1, <2>2
<1> QED
  BY <1>2, <1>3

LEMMA SecondBytes ==
  ASSUME NEW c \in CmdNames \ {"get_fw_ver"}, NEW d \in CmdNames \ {"get_fw_ver"},
         Cmd[c].cmd[2] = Cmd[d].cmd[2]
  PROVE  c = d
BY DEF CmdNames, Cmd, Row, GET_FW_VER, GET_ENROLLED_COUNT, FINGER_INFO,
       CHECK_ENROLL_COLLISION, ABORT, IDENTIFY, ENROLL, COMMIT, DELETE,
       WIPE_SENSOR

LEMMA FrameHead ==
  ASSUME NEW c \in CmdNames, NEW pl \in Seq(Byte), Fits(c, pl)
  PROVE  /\ Len(Frame(c, pl)) = Cmd[c].out_len
         /\ Len(Frame(c, pl)) >= Header(c)
         /\ Frame(c, pl)[1] = FRAME_MAGIC
         /\ \A i \in 1..Len(Cmd[c].cmd) : Frame(c, pl)[i + 1] = Cmd[c].cmd[i]
<1> DEFINE n == Cmd[c].out_len
<1>1. n \in Nat /\ Header(c) \in {2, 3} /\ Header(c) = 1 + Len(Cmd[c].cmd)
  BY Opcodes DEF Header
<1>2. Len(pl) \in Nat
  BY LenProperties
<1>3. Header(c) <= n
  BY <1>1, <1>2 DEF Fits
<1>4. Len(Frame(c, pl)) = n
  BY <1>1 DEF Frame
<1>5. \A i \in 1..Header(c) :
         Frame(c, pl)[i] = IF i = 1 THEN FRAME_MAGIC ELSE Cmd[c].cmd[i - 1]
  <2> TAKE i \in 1..Header(c)
  <2>1. i \in 1..n /\ Frame(c, pl)[i] = FrameByte(c, pl, i)
    BY <1>1, <1>3 DEF Frame
  <2> QED
    BY <2>1 DEF FrameByte
<1>6. \A i \in 1..Len(Cmd[c].cmd) : i + 1 \in 1..Header(c) /\ (i + 1) - 1 = i /\ i + 1 # 1
  BY <1>1
<1>7. \A i \in 1..Len(Cmd[c].cmd) : Frame(c, pl)[i + 1] = Cmd[c].cmd[i]
  BY <1>5, <1>6
<1>8. Frame(c, pl)[1] = FRAME_MAGIC
  BY <1>1, <1>5
<1> QED
  BY <1>1, <1>3, <1>4, <1>7, <1>8

\* A frame carries the opcode of its own command and of no other.
LEMMA FrameUnambiguous ==
  ASSUME NEW c \in CmdNames, NEW pl \in Seq(Byte), Fits(c, pl), NEW d \in CmdNames
  PROVE  CarriesOpcode(Frame(c, pl), d) <=> d = c
<1>1. CASE d = c
  BY <1>1, FrameHead DEF CarriesOpcode
<1>2. CASE d # c
  <2> SUFFICES ASSUME CarriesOpcode(Frame(c, pl), d) PROVE FALSE
    BY <1>2
  <2>1. /\ \A i \in 1..Len(Cmd[d].cmd) : Frame(c, pl)[i + 1] = Cmd[d].cmd[i]
        /\ \A i \in 1..Len(Cmd[c].cmd) : Frame(c, pl)[i + 1] = Cmd[c].cmd[i]
    BY FrameHead DEF CarriesOpcode
  <2>2. Len(Cmd[c].cmd) \in {1, 2} /\ Len(Cmd[d].cmd) \in {1, 2}
    BY Opcodes
  <2>3. Cmd[c].cmd[1] = Cmd[d].cmd[1]
    BY <2>1, <2>2
  <2>4. c # "get_fw_ver" /\ d # "get_fw_ver"
    BY <2>3, <1>2, Opcodes
  <2>5. Len(Cmd[c].cmd) = 2 /\ Len(Cmd[d].cmd) = 2
    BY <2>4, Opcodes
  <2>6. Cmd[c].cmd[2] = Cmd[d].cmd[2]
    BY <2>1, <2>5
  <2> QED
    BY <1>2, <2>4, <2>6, SecondBytes
<1> QED
  BY <1>1, <1>2

----------------------------------------------------------------------------
\* The inputs walked are those frame() and from_byte() take.
THEOREM InputsTyped == Spec => []TypeOK
<1>1. Init => TypeOK
  BY EmptySeq DEF Init, TypeOK, Byte
<1>2. TypeOK /\ [Next]_vars => TypeOK'
  <2> SUFFICES ASSUME TypeOK, [Next]_vars PROVE TypeOK'
    OBVIOUS
  <2>1. CASE Extend
    BY <2>1, PayloadAssumption, AppendProperties DEF TypeOK, Extend
  <2>2. CASE NextByte
    BY <2>2 DEF TypeOK, NextByte, Byte
  <2>3. CASE UNCHANGED vars
    BY <2>3 DEF TypeOK, vars
  <2> QED
    BY <2>1, <2>2, <2>3 DEF Next
<1> QED
  BY <1>1, <1>2, PTL DEF Spec

\* device.rs:347 and the sensor agree on what every frame is, whatever the
\* payload: no payload makes a command past the gate look persistent.
THEOREM FramesUnambiguous == Spec => []Unambiguous
<1>1. TypeOK => Unambiguous
  BY FrameUnambiguous DEF TypeOK, Unambiguous
<1> QED
  BY <1>1, InputsTyped, PTL

----------------------------------------------------------------------------
(* User-ids and slot bytes, for a reply of any length                      *)

LEMMA UserIdBounds ==
  ASSUME NEW pid \in Products, NEW n \in Nat
  PROVE  LET len == UserIdLength(pid, n) IN
         /\ len \in Nat
         /\ len > 0 => UserIdOffset(pid) + len <= n
         /\ len < UserIdBuffer(pid, n)
         /\ DeleteCopy(len) <= len /\ 4 + DeleteCopy(len) <= DELETE.out_len
<1>1. UserIdOffset(pid) \in {2, 3} /\ UserIdMax(pid) \in 61..62
  BY DEF UserIdOffset, UserIdMax
<1>2. DELETE.out_len = 72 /\ DELETE_USER_ID_CAP = 68
  BY DEF DELETE, Row, DELETE_USER_ID_CAP
<1>3. /\ UserIdLength(pid, n) \in Nat
      /\ UserIdLength(pid, n) > 0 => UserIdOffset(pid) + UserIdLength(pid, n) <= n
  BY <1>1 DEF UserIdLength, Least
<1> QED
  BY <1>2, <1>3 DEF UserIdBuffer, DeleteCopy, Least

\* patches/0004:101: no reply, of whatever length, makes the driver read or
\* write past a buffer for its user-id.
THEOREM UserIdsInBounds == Spec => []UserIdInBounds
<1>1. TypeOK => UserIdInBounds
  <2>1. Byte \subseteq Nat
    BY DEF Byte
  <2> QED
    BY <2>1, UserIdBounds DEF TypeOK, UserIdInBounds
<1> QED
  BY <1>1, InputsTyped, PTL

\* patches/0002:66: the slot byte of a delete names one template.
THEOREM SlotBytesDistinct == Spec => []SlotByteDistinct
<1>1. TypeOK => SlotByteDistinct
  BY DEF TypeOK, Byte, SlotByteDistinct, SlotByte
<1> QED
  BY <1>1, InputsTyped, PTL

----------------------------------------------------------------------------
(* No payload is cut short, no two versions print alike                    *)

LEMMA NextByteShows ==
  ASSUME NEW c \in CmdNames, NEW pl \in Seq(Byte), NEW b \in Byte, b # 0,
         Fits(c, Append(pl, b))
  PROVE  Frame(c, Append(pl, b)) # Frame(c, pl)
<1> DEFINE n == Cmd[c].out_len  i == Header(c) + Len(pl) + 1
<1>1. n \in Nat /\ Header(c) \in {2, 3} /\ Len(pl) \in Nat
  BY Opcodes, LenProperties DEF Header
<1>2. Len(Append(pl, b)) = Len(pl) + 1 /\ Append(pl, b)[Len(pl) + 1] = b
  BY AppendProperties
<1>3. i \in 1..n /\ i > Header(c)
  BY <1>1, <1>2 DEF Fits
<1>4. Frame(c, Append(pl, b))[i] = b
  <2>1. FrameByte(c, Append(pl, b), i) = Append(pl, b)[i - Header(c)]
    BY <1>1, <1>2, <1>3 DEF FrameByte
  <2>2. i - Header(c) = Len(pl) + 1
    BY <1>1
  <2> QED
    BY <1>2, <1>3, <2>1, <2>2 DEF Frame
<1>5. Frame(c, pl)[i] = 0
  BY <1>1, <1>3 DEF Frame, FrameByte
<1> QED
  BY <1>4, <1>5

\* frame() refuses a payload it would have to cut: the frames of two payloads
\* of which one is a byte longer differ, unless that byte is zero.
THEOREM PayloadsKept == Spec => []PayloadKept
<1>1. TypeOK => PayloadKept
  BY PayloadAssumption, NextByteShows DEF TypeOK, PayloadKept
<1> QED
  BY <1>1, InputsTyped, PTL

\* elanctl's version line: bcd maps no two well-formed bytes to one number.
THEOREM BcdsInjective == Spec => []BcdInjective
<1>1. ASSUME NEW d \in Byte, NEW e \in Byte,
             d % 16 < 10, e % 16 < 10, Bcd(d) = Bcd(e)
      PROVE  d = e
  <2>1. /\ d \div 16 \in 0..15 /\ e \div 16 \in 0..15
        /\ d = 16 * (d \div 16) + (d % 16) /\ e = 16 * (e \div 16) + (e % 16)
        /\ d % 16 \in 0..9 /\ e % 16 \in 0..9
    BY <1>1 DEF Byte
  <2>2. Bcd(d) = (d \div 16) * 10 + (d % 16) /\ Bcd(e) = (e \div 16) * 10 + (e % 16)
    BY <2>1 DEF Bcd
  <2>3. (d \div 16) * 10 + (d % 16) = (e \div 16) * 10 + (e % 16)
    BY <1>1, <2>2
  <2>4. d \div 16 = e \div 16 /\ d % 16 = e % 16
    <3> DEFINE p == d \div 16  q == d % 16  r == e \div 16  s == e % 16
    <3>1. /\ p \in 0..15 /\ r \in 0..15 /\ q \in 0..9 /\ s \in 0..9
          /\ p * 10 + q = r * 10 + s
      BY <2>1, <2>3
    <3> HIDE DEF p, q, r, s
    <3>2. p = r /\ q = s
      BY <3>1
    <3> QED
      BY <3>2 DEF p, q, r, s
  <2>5. d = 16 * (e \div 16) + (e % 16)
    BY <2>1, <2>4
  <2> QED
    BY <2>1, <2>5
<1>2. TypeOK => BcdInjective
  BY <1>1 DEF TypeOK, BcdInjective
<1> QED
  BY <1>2, InputsTyped, PTL

----------------------------------------------------------------------------
(* The layout of a frame, as a concatenation                               *)

LEMMA ZerosSeq ==
  ASSUME NEW n \in Nat
  PROVE  Zeros(n) \in Seq(Nat) /\ Len(Zeros(n)) = n /\ \A i \in 1..n : Zeros(n)[i] = 0
BY DEF Zeros

LEMMA OpcodeSeq == ASSUME NEW c \in CmdNames PROVE Cmd[c].cmd \in Seq(Nat)
<1> USE DEF Cmd, Row, GET_FW_VER, GET_ENROLLED_COUNT, FINGER_INFO,
            CHECK_ENROLL_COLLISION, ABORT, IDENTIFY, ENROLL, COMMIT, DELETE,
            WIPE_SENSOR
<1>1. CASE c = "get_fw_ver"
  <2>1. Cmd[c].cmd = <<25>>
    BY <1>1
  <2>2. <<25>> \in Seq(Nat)
    OBVIOUS
  <2> QED
    BY <2>1, <2>2
<1>2. CASE c # "get_fw_ver"
  <2>1. PICK x \in Nat : Cmd[c].cmd = <<255, x>>
    BY <1>2 DEF CmdNames
  <2>2. <<255, x>> \in Seq(Nat)
    OBVIOUS
  <2> QED
    BY <2>1, <2>2
<1> QED
  BY <1>1, <1>2

\* A sequence of length n is the function its elements make.
LEMMA SeqIsItsElements ==
  ASSUME NEW s \in Seq(Nat), NEW n \in Nat, Len(s) = n, NEW f,
         f = [i \in 1..n |-> f[i]], \A i \in 1..n : f[i] = s[i]
  PROVE  f = s
<1>1. s = [i \in 1..n |-> s[i]]
  OBVIOUS
<1> QED
  BY <1>1

LEMMA ConcatFour ==
  ASSUME NEW a \in Seq(Nat), NEW b \in Seq(Nat), NEW c \in Seq(Nat), NEW d \in Seq(Nat)
  PROVE  /\ a \o b \o c \o d \in Seq(Nat)
         /\ Len(a \o b \o c \o d) = Len(a) + Len(b) + Len(c) + Len(d)
         /\ \A i \in 1..(Len(a) + Len(b) + Len(c) + Len(d)) :
              (a \o b \o c \o d)[i] =
                IF i <= Len(a) THEN a[i]
                ELSE IF i <= Len(a) + Len(b) THEN b[i - Len(a)]
                ELSE IF i <= Len(a) + Len(b) + Len(c) THEN c[i - Len(a) - Len(b)]
                ELSE d[i - Len(a) - Len(b) - Len(c)]
<1>1. /\ Len(a) \in Nat /\ Len(b) \in Nat /\ Len(c) \in Nat /\ Len(d) \in Nat
  BY LenProperties
<1>2. /\ a \o b \in Seq(Nat) /\ Len(a \o b) = Len(a) + Len(b)
      /\ \A i \in 1..(Len(a) + Len(b)) :
           (a \o b)[i] = IF i <= Len(a) THEN a[i] ELSE b[i - Len(a)]
  BY ConcatProperties
<1> DEFINE ab == a \o b
<1> HIDE DEF ab
<1>3. /\ ab \o c \in Seq(Nat) /\ Len(ab \o c) = Len(ab) + Len(c)
      /\ \A i \in 1..(Len(ab) + Len(c)) :
           (ab \o c)[i] = IF i <= Len(ab) THEN ab[i] ELSE c[i - Len(ab)]
  <2>1. ab \in Seq(Nat)
    BY <1>2 DEF ab
  <2> QED
    BY <2>1, ConcatProperties
<1> DEFINE abc == ab \o c
<1> HIDE DEF abc
<1>4. /\ abc \o d \in Seq(Nat) /\ Len(abc \o d) = Len(abc) + Len(d)
      /\ \A i \in 1..(Len(abc) + Len(d)) :
           (abc \o d)[i] = IF i <= Len(abc) THEN abc[i] ELSE d[i - Len(abc)]
  <2>1. abc \in Seq(Nat)
    BY <1>3 DEF abc
  <2> QED
    BY <2>1, ConcatProperties
<1>5. /\ Len(ab) = Len(a) + Len(b) /\ Len(abc) = Len(a) + Len(b) + Len(c)
      /\ \A i \in 1..(Len(a) + Len(b)) :
           ab[i] = IF i <= Len(a) THEN a[i] ELSE b[i - Len(a)]
      /\ \A i \in 1..(Len(a) + Len(b) + Len(c)) :
           abc[i] = IF i <= Len(a) + Len(b) THEN ab[i] ELSE c[i - (Len(a) + Len(b))]
  BY <1>1, <1>2, <1>3 DEF ab, abc
<1>6. /\ abc \o d \in Seq(Nat) /\ Len(abc \o d) = Len(a) + Len(b) + Len(c) + Len(d)
      /\ \A i \in 1..(Len(a) + Len(b) + Len(c) + Len(d)) :
           (abc \o d)[i] =
             IF i <= Len(a) THEN a[i]
             ELSE IF i <= Len(a) + Len(b) THEN b[i - Len(a)]
             ELSE IF i <= Len(a) + Len(b) + Len(c) THEN c[i - Len(a) - Len(b)]
             ELSE d[i - Len(a) - Len(b) - Len(c)]
  <2>1. Len(abc \o d) = Len(a) + Len(b) + Len(c) + Len(d)
    BY <1>1, <1>4, <1>5
  <2>2. ASSUME NEW i \in 1..(Len(a) + Len(b) + Len(c) + Len(d))
        PROVE (abc \o d)[i] =
             IF i <= Len(a) THEN a[i]
             ELSE IF i <= Len(a) + Len(b) THEN b[i - Len(a)]
             ELSE IF i <= Len(a) + Len(b) + Len(c) THEN c[i - Len(a) - Len(b)]
             ELSE d[i - Len(a) - Len(b) - Len(c)]
    <3>1. (abc \o d)[i] = IF i <= Len(a) + Len(b) + Len(c) THEN abc[i]
                          ELSE d[i - (Len(a) + Len(b) + Len(c))]
      BY <1>1, <1>4, <1>5
    <3>2. i <= Len(a) + Len(b) + Len(c) =>
            abc[i] = IF i <= Len(a) + Len(b) THEN ab[i] ELSE c[i - (Len(a) + Len(b))]
      BY <1>1, <1>5
    <3>3. i <= Len(a) + Len(b) =>
            ab[i] = IF i <= Len(a) THEN a[i] ELSE b[i - Len(a)]
      BY <1>1, <1>5
    <3>4. /\ i - (Len(a) + Len(b) + Len(c)) = i - Len(a) - Len(b) - Len(c)
          /\ i - (Len(a) + Len(b)) = i - Len(a) - Len(b)
          /\ i <= Len(a) => i <= Len(a) + Len(b)
          /\ i <= Len(a) + Len(b) => i <= Len(a) + Len(b) + Len(c)
      BY <1>1
    <3> QED
      BY <3>1, <3>2, <3>3, <3>4, Zenon
  <2> QED
    BY <1>4, <2>1, <2>2
<1> QED
  BY <1>6 DEF ab, abc

LEMMA FrameConcat ==
  ASSUME NEW c \in CmdNames, NEW pl \in Seq(Nat), Fits(c, pl)
  PROVE  Frame(c, pl) = <<FRAME_MAGIC>> \o Cmd[c].cmd \o pl
                          \o Zeros(Cmd[c].out_len - Header(c) - Len(pl))
<1> DEFINE n == Cmd[c].out_len  h == Header(c)  op == Cmd[c].cmd
           magic == <<FRAME_MAGIC>>  k == n - h - Len(pl)
           pad == Zeros(k)  s == magic \o op \o pl \o pad
<1>1. n \in Nat /\ h \in {2, 3} /\ Len(op) = h - 1 /\ Len(pl) \in Nat
  BY Opcodes, LenProperties DEF Header
<1>2. h + Len(pl) <= n /\ k \in Nat
  BY <1>1 DEF Fits
<1>3. magic \in Seq(Nat) /\ Len(magic) = 1 /\ magic[1] = FRAME_MAGIC
  BY DEF FRAME_MAGIC
<1>4. pad \in Seq(Nat) /\ Len(pad) = k /\ \A i \in 1..k : pad[i] = 0
  BY <1>2, ZerosSeq
<1>5. op \in Seq(Nat)
  BY OpcodeSeq
<1>6. /\ Frame(c, pl) = [i \in 1..n |-> FrameByte(c, pl, i)]
      /\ \A i \in 1..n : FrameByte(c, pl, i) =
            IF i = 1 THEN FRAME_MAGIC ELSE IF i <= h THEN op[i - 1]
            ELSE IF i <= h + Len(pl) THEN pl[i - h] ELSE 0
  BY DEF Frame, FrameByte
<1> HIDE DEF n, h, op, magic, k, pad
<1>7. /\ s \in Seq(Nat) /\ Len(s) = Len(magic) + Len(op) + Len(pl) + Len(pad)
      /\ \A i \in 1..(Len(magic) + Len(op) + Len(pl) + Len(pad)) :
           s[i] = IF i <= Len(magic) THEN magic[i]
                  ELSE IF i <= Len(magic) + Len(op) THEN op[i - Len(magic)]
                  ELSE IF i <= Len(magic) + Len(op) + Len(pl)
                       THEN pl[i - Len(magic) - Len(op)]
                  ELSE pad[i - Len(magic) - Len(op) - Len(pl)]
  <2>1. magic \in Seq(Nat) /\ op \in Seq(Nat) /\ pad \in Seq(Nat)
    BY <1>3, <1>4, <1>5
  <2> HIDE DEF s
  <2>2. s = magic \o op \o pl \o pad
    BY DEF s
  <2> QED
    BY <2>1, <2>2, ConcatFour
<1> HIDE DEF s
<1>8. Len(magic) + Len(op) = h /\ Len(magic) + Len(op) + Len(pl) + Len(pad) = n
  <2>1. k = n - h - Len(pl)
    BY DEF k
  <2> QED
    BY <2>1, <1>1, <1>2, <1>3, <1>4
<1>9. ASSUME NEW i \in 1..n PROVE FrameByte(c, pl, i) = s[i]
  <2>1. s[i] = IF i <= 1 THEN magic[i]
               ELSE IF i <= h THEN op[i - 1]
               ELSE IF i <= h + Len(pl) THEN pl[i - 1 - Len(op)]
               ELSE pad[i - 1 - Len(op) - Len(pl)]
    BY <1>3, <1>7, <1>8
  <2>2. /\ i - 1 - Len(op) = i - h /\ i <= 1 <=> i = 1
        /\ i > h + Len(pl) => i - 1 - Len(op) - Len(pl) \in 1..k
    <3>1. k = n - h - Len(pl)
      BY DEF k
    <3> QED
      BY <1>1, <1>2, <3>1
  <2>3. i > h + Len(pl) => pad[i - 1 - Len(op) - Len(pl)] = 0
    BY <2>2, <1>4
  <2>4. FrameByte(c, pl, i) =
            IF i = 1 THEN FRAME_MAGIC ELSE IF i <= h THEN op[i - 1]
            ELSE IF i <= h + Len(pl) THEN pl[i - h] ELSE 0
    BY <1>6
  <2>5. CASE i = 1
    BY <2>1, <2>4, <2>5, <1>3
  <2>6. CASE i # 1 /\ i <= h
    BY <2>1, <2>2, <2>4, <2>6
  <2>7. CASE i # 1 /\ ~(i <= h) /\ i <= h + Len(pl)
    BY <2>1, <2>2, <2>4, <2>7, <1>1, <1>2
  <2>8. CASE i > h + Len(pl)
    <3>1. i # 1 /\ ~(i <= h) /\ ~(i <= h + Len(pl)) /\ ~(i <= 1)
      BY <2>8, <1>1
    <3> QED
      BY <3>1, <2>1, <2>3, <2>4, <2>8
  <2> QED
    BY <2>5, <2>6, <2>7, <2>8, <1>1
<1>10. Len(s) = n
  BY <1>7, <1>8
<1>11. Frame(c, pl) = [i \in 1..n |-> Frame(c, pl)[i]]
       /\ \A i \in 1..n : Frame(c, pl)[i] = s[i]
  BY <1>6, <1>9
<1>12. Frame(c, pl) = s
  BY <1>1, <1>7, <1>10, <1>11, SeqIsItsElements
<1> QED
  BY <1>12 DEF s, magic, op, pad, k, n, h

\* proto.rs:9: the buffer sent is magic, opcode, payload and zero padding.
THEOREM FramesLaidOut == Spec => []FrameLayout
<1>1. TypeOK => FrameLayout
  <2>1. TypeOK => payload \in Seq(Nat)
    <3>1. Byte \subseteq Nat
      BY DEF Byte
    <3> QED
      BY <3>1, SeqMonotonic DEF TypeOK
  <2> QED
    BY <2>1, FrameConcat DEF TypeOK, FrameLayout
<1> QED
  BY <1>1, InputsTyped, PTL
=============================================================================

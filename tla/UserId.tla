------------------------------- MODULE UserId -------------------------------
(***************************************************************************)
(* How much of a finger_info reply the patched C driver takes for a        *)
(* user-id, and how it names a template to delete: patches/0004, with the  *)
(* reproduction scripts/asan-repro-patched.c, and patches/0002.  The reply *)
(* is any number of bytes; the bytes themselves do not matter here.        *)
(***************************************************************************)
EXTENDS Proto

Products == {PID_0C00, PID_0C5E}

Least(m, n) == IF m < n THEN m ELSE n

UserIdMax(pid) == 64 - UserIdOffset(pid)

\* Bug, the upstream form: the subtraction first, wrapping when it is negative.
UserIdLengthWrapped(pid, n) ==
  IF n >= UserIdOffset(pid) THEN Least(UserIdMax(pid), n - UserIdOffset(pid))
                            ELSE UserIdMax(pid)

\* Length of the user-id in a reply of n bytes.
UserIdLength(pid, n) ==
  IF n > UserIdOffset(pid) THEN Least(UserIdMax(pid), n - UserIdOffset(pid))
                           ELSE 0

\* Bytes allocated for it: one more, for the terminator.
UserIdBuffer(pid, n) == UserIdLength(pid, n) + 1

\* What a delete frame holds after magic, opcode and slot byte.
DELETE_USER_ID_CAP == DELETE.out_len - 4

\* Bytes of a user-id of len bytes that are copied into a delete frame.
DeleteCopy(len) == Least(DELETE_USER_ID_CAP, len)

\* Bug: and for or in the slot byte.
SlotByteAnd(id) == (((id + 5) \div 16) * 16) % 256

\* 0xf0 | (id + 5), stored in a byte.
SlotByte(id) == 240 + ((id + 5) % 16)
=============================================================================

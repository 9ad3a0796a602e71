----------------------------- MODULE MCElanmoc2 -----------------------------
(* Operations for TLC: every kind, a verify of one print, an identify of all, *)
(* a delete of one print and one whose data is not this driver's.             *)
EXTENDS Elanmoc2

OpsOf(kind, sets) == [kind : {kind}, prints : sets]

AllOps == OpsOf("enroll", {{}}) \cup OpsOf("verify", {{0}})
          \cup OpsOf("identify", {Slots}) \cup OpsOf("delete", {{}, {1}})
          \cup OpsOf("clear", {{}})

EnrollOps == OpsOf("enroll", {{}})
=============================================================================

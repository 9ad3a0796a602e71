------------------------------ MODULE ElanCtl ------------------------------
(***************************************************************************)
(* The command-line front-end, src/bin/elanctl.rs: every process runs one  *)
(* of four subcommands, each a program over the library calls of Driver.   *)
(* A subcommand's place is its stage; Continue is the code between two     *)
(* library calls, which looks at the last result and picks the next call   *)
(* or ends, dropping the handle.                                           *)
(***************************************************************************)
EXTENDS Driver

CONSTANTS Pid,           \* USB product id of the sensor
          Subcommands    \* bound: those the processes run

ASSUME ElanCtlAssumption ==
  Pid \in Nat /\ Subcommands \subseteq {"info", "dump", "collision", "identify"}

VARIABLES sub,     \* per process: the subcommand it runs, or none
          stage    \* where it is: [at, idx: slot or match, n: slots to list]

ctlVars == <<vars, sub, stage>>

At(at)           == [at |-> at, idx |-> 0, n |-> 0]
Slot(at, idx, n) == [at |-> at, idx |-> idx, n |-> n]

\* The library call a subcommand makes at a stage.
C(mode, cmd, payload) ==
  [mode |-> mode, cmd |-> cmd, payload |-> payload, tries |-> 0]

\* finger_info() and abort(), and bugs for the runs to find: the index left
\* out, a wipe or a retried request for the abort.
SlotCallUnindexed(s) == C("retrying", "finger_info", <<>>)
SlotCall(s)          == C("retrying", "finger_info", <<s.idx>>)

AbortByWipe == C("destructive", "wipe_sensor", <<>>)
AbortRetried == C("retrying", "abort", <<>>)
AbortCall   == C("transceive", "abort", <<>>)

CallAt(s) ==
  CASE s.at = "fw"        -> C("raw", "get_fw_ver", <<>>)
    [] s.at = "count"     -> C("retrying", "get_enrolled_count", <<>>)
    [] s.at = "slot"      -> SlotCall(s)
    [] s.at = "rawcount"  -> C("raw", "get_enrolled_count", <<>>)
    [] s.at = "rawslot"   -> C("raw", "finger_info", <<s.idx>>)
    [] s.at = "collision" -> C("raw", "check_enroll_collision", <<>>)
    [] s.at = "identify"  -> C("transceive", "identify", <<>>)
    [] s.at = "abort"     -> AbortCall

CallStages == {"fw", "count", "slot", "rawcount", "rawslot", "collision",
               "identify", "abort"}

\* Every call of every subcommand; a slot comes from a status byte below 16.
CliCalls == {CallAt(Slot(at, idx, 0)) : at \in CallStages, idx \in 0..15}

ASSUME CliCallsAssumption == CliCalls \subseteq ClientCalls

----------------------------------------------------------------------------
(* What the library makes of a result: enrolled_count, finger_info         *)

Ok(r) == r.err = "none"

\* enrolled_count(): Some count, or an error.
Counted(r)       == Ok(r) /\ r.reply.len >= 2
EnrolledCount(r) == IF Counted(r) THEN r.reply.b1 ELSE 0

\* Bug: the length not checked before the user-id is taken.
GotAnyFingerInfo(r) ==
  /\ Ok(r)
  /\ r.reply.len >= 2 => FromByte(r.reply.b1) = "Ok"

\* finger_info() succeeds unless the status byte says otherwise or the reply
\* ends before the user-id; the user-id of a short record is empty (NoSlot).
GotFingerInfo(r) ==
  /\ Ok(r)
  /\ r.reply.len >= 2 => FromByte(r.reply.b1) = "Ok"
  /\ r.reply.len >= UserIdOffset(Pid)
UserId(r) == r.reply.uid

----------------------------------------------------------------------------
(* The subcommands: the stage that follows stage s once result r is in     *)

ListSlots(at, from, n) == IF from < n THEN Slot(at, from, n) ELSE At("done")

AtMost(count, n) == IF count < n THEN count ELSE n

\* Bug: the slot is not advanced.
InfoNextStuck(s, r) ==
  CASE s.at = "start" -> At("fw")
    [] s.at = "fw"    -> At("count")
    [] s.at = "count" -> ListSlots("slot", 0, AtMost(EnrolledCount(r), MaxPrints))
    [] s.at = "slot"  -> ListSlots("slot", s.idx, s.n)

InfoNext(s, r) ==
  CASE s.at = "start" -> At("fw")
    [] s.at = "fw"    -> At("count")
    [] s.at = "count" -> ListSlots("slot", 0, AtMost(EnrolledCount(r), MaxPrints))
    [] s.at = "slot"  -> ListSlots("slot", s.idx + 1, s.n)

DumpNext(s, r) ==
  CASE s.at = "start"    -> At("fw")
    [] s.at = "fw"       -> At("rawcount")
    [] s.at = "rawcount" -> ListSlots("rawslot", 0, MaxPrints)
    [] s.at = "rawslot"  -> ListSlots("rawslot", s.idx + 1, s.n)

CollisionNext(s, r) ==
  IF s.at = "start" THEN At("collision") ELSE At("done")

\* Bugs: any status taken for a slot, and slots counted from one.
AfterAnyStatus(r) ==
  IF ~Ok(r) THEN At("abort")
  ELSE IF r.reply.len >= 2 THEN Slot("slot", r.reply.b1, 0) ELSE At("done")

AfterIdentifyFromOne(r) ==
  IF ~Ok(r) THEN At("abort")
  ELSE IF r.reply.len >= 2 /\ FromByte(r.reply.b1) = "Ok"
       THEN Slot("slot", r.reply.b1 + 1, 0)
       ELSE At("done")

\* A match is looked up by its slot; an identify that failed is aborted, and
\* what the abort returns is ignored.
AfterIdentify(r) ==
  IF ~Ok(r) THEN At("abort")
  ELSE IF r.reply.len >= 2 /\ FromByte(r.reply.b1) = "Ok"
       THEN Slot("slot", r.reply.b1, 0)
       ELSE At("done")

IdentifyNext(s, r) ==
  CASE s.at = "start"    -> At("count")
    [] s.at = "count"    -> IF EnrolledCount(r) = 0 THEN At("done")
                                                    ELSE At("identify")
    [] s.at = "identify" -> AfterIdentify(r)
    [] s.at \in {"slot", "abort"} -> At("done")

NextStage(p) ==
  CASE sub[p] = "info"      -> InfoNext(stage[p], res[p])
    [] sub[p] = "dump"      -> DumpNext(stage[p], res[p])
    [] sub[p] = "collision" -> CollisionNext(stage[p], res[p])
    [] sub[p] = "identify"  -> IdentifyNext(stage[p], res[p])

----------------------------------------------------------------------------
CtlInit ==
  /\ Init
  /\ sub = [p \in Procs |-> "none"]
  /\ stage = [p \in Procs |-> At("done")]

\* run(): the subcommand starts once open() has claimed the interface; when
\* open fails nothing else happens.
Start(p) ==
  /\ Open(p)
  /\ \E c \in Subcommands : sub' = [sub EXCEPT ![p] = c]
  /\ stage' = [stage EXCEPT ![p] = At("start")]

Continue(p) ==
  /\ phase[p] = "ready"
  /\ stage' = [stage EXCEPT ![p] = NextStage(p)]
  /\ IF NextStage(p).at = "done"
     THEN Close(p) /\ sub' = [sub EXCEPT ![p] = "none"]
     ELSE StartCall(p, CallAt(NextStage(p))) /\ UNCHANGED sub

\* Ctrl-C: no handler is installed, the process ends where it is.
CtrlC(p) ==
  /\ Interrupt(p)
  /\ stage' = [stage EXCEPT ![p] = At("done")]
  /\ sub' = [sub EXCEPT ![p] = "none"]

Library(p) == Step(p) /\ UNCHANGED <<sub, stage>>

CtlNext ==
  \/ \E p \in Procs : Start(p) \/ Continue(p) \/ CtrlC(p) \/ Library(p)
  \/ SensorNext /\ UNCHANGED <<procVars, sub, stage>>
  \/ Replug /\ UNCHANGED <<sub, stage>>

CtlSpec == CtlInit /\ [][CtlNext]_ctlVars

\* A running process is scheduled; nothing is assumed of the sensor, of the
\* finger or of a Ctrl-C.
CtlFairness == \A p \in Procs : WF_ctlVars(Continue(p)) /\ WF_ctlVars(Library(p))
CtlLiveSpec == CtlSpec /\ CtlFairness

----------------------------------------------------------------------------
(* Properties                                                              *)

StagesOf(subcommand) ==
  {"start"} \cup
  CASE subcommand = "info"      -> {"fw", "count", "slot"}
    [] subcommand = "dump"      -> {"fw", "rawcount", "rawslot"}
    [] subcommand = "collision" -> {"collision"}
    [] subcommand = "identify"  -> {"count", "identify", "slot", "abort"}

CtlTypeOK ==
  /\ TypeOK
  /\ sub \in [Procs -> Subcommands \cup {"none"}]
  /\ stage \in [Procs -> [at : CallStages \cup {"start", "done"},
                         idx : 0..15, n : 0..MaxPrints]]
  /\ \A p \in Procs :
       IF phase[p] = "closed" THEN sub[p] = "none" /\ stage[p].at = "done"
       ELSE /\ sub[p] # "none" /\ stage[p].at \in StagesOf(sub[p])
            /\ (phase[p] = "ready" /\ stage[p].at # "start") => res[p] # NoRes

\* The module comment of elanctl.rs: no subcommand, run any number of times,
\* by any processes, interrupted anywhere, changes a stored template.
NeverWrites == [][store' = store]_ctlVars

\* Process p is about to print the user-id it was given for a slot, on an
\* exchange that is in step.
Prints(p, subcommand) ==
  /\ sub[p] = subcommand /\ stage[p].at = "slot" /\ phase[p] = "ready"
  /\ claimant = p /\ abandoned = 0 /\ GotFingerInfo(res[p])

\* elanctl.rs:234: the slot and the user-id identify prints are those of the
\* template the finger matched, also on 04f3:0c00, where finger_info ignores
\* its index.
MatchedRecord ==
  \A p \in Procs :
    Prints(p, "identify") => UserId(res[p]) = cur /\ stage[p].idx = cur

\* elanctl.rs:124: the user-id info prints for slot i is slot i's.
InfoTruthful ==
  \A p \in Procs : Prints(p, "info") => UserId(res[p]) = stage[p].idx

\* elanctl.rs:246: once the abort of a failed identify is answered, and if
\* that identify is all that was ever abandoned, the sensor no longer waits
\* for a finger and ordinary queries are in step again.  (A match that came
\* between the timeout and the abort may still sit on the other endpoint.
\* The OUT endpoint is taken to hold two requests: where it holds one, an
\* identify that finds it full is aborted although it was never sent.)
AbortRecovers ==
  \A p \in Procs :
    (/\ stage[p].at = "abort" /\ phase[p] = "ready" /\ Ok(res[p])
     /\ claimant = p /\ abandoned <= 1)
    => waiting = NoReq /\ inbox = <<>> /\ fifo[EP_CMD_IN] = <<>>

\* Requests are not lost track of: what is on the device was abandoned and
\* counted, or is what the process that holds the interface waits for, so no
\* subcommand, retry or abort piles up requests behind one that hangs.
RequestsCounted ==
  abandoned < AbandonCap => Load <= abandoned + (IF Awaiting THEN 1 ELSE 0)

\* How far a subcommand at stage s is from its end.
StageRank(s) ==
  CASE s.at = "done"                    -> 0
    [] s.at \in {"collision", "abort"}  -> 1
    [] s.at = "identify"                -> 2
    [] s.at \in {"slot", "rawslot"}     -> IF s.idx < s.n THEN s.n - s.idx ELSE 1
    [] s.at \in {"count", "rawcount"}   -> MaxPrints + 2
    [] s.at = "fw"                      -> MaxPrints + 3
    [] s.at = "start"                   -> MaxPrints + 4

\* device.rs:263, elanctl.rs:121: every step of a process brings the end of its
\* subcommand nearer, whatever the sensor answers and other processes do: it
\* takes the subcommand to a later stage, or leaves less of the stage's call.
NearsEnd ==
  [][\A p \in Procs :
       (phase[p] # "closed" /\ <<stage[p], phase[p], call[p], res[p]>>'
                                 # <<stage[p], phase[p], call[p], res[p]>>)
         => \/ StageRank(stage'[p]) < StageRank(stage[p])
            \/ stage'[p] = stage[p] /\ CallRank(p)' < CallRank(p)]_ctlVars

\* Every subcommand ends and drops its handle, whatever the sensor does,
\* answers or not: no stage waits without a timeout or repeats for ever.
CommandEnds == \A p \in Procs : stage[p].at # "done" ~> stage[p].at = "done"

----------------------------------------------------------------------------
(* What the documentation says of identify; the code does not keep it.     *)

\* elanctl.rs:31 "Ctrl-C aborts": a process killed while its identify waits
\* does not leave the sensor waiting for a finger.
CtrlCAborts ==
  [][\A p \in Procs :
       (phase[p] = "recv" /\ stage[p].at = "identify" /\ phase'[p] = "closed")
         => waiting' = NoReq]_ctlVars

\* elanctl.rs:30 "Wait for a finger and match it": identify does not take a
\* reply while the sensor still waits for the finger of this identify.
MatchIsOfThisFinger ==
  [][\A p \in Procs :
       (/\ phase[p] = "recv" /\ stage[p].at = "identify"
        /\ phase'[p] = "ready" /\ fifo' # fifo)
         => waiting = NoReq]_ctlVars
=============================================================================
